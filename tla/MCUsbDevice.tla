----------------------------- MODULE MCUsbDevice -----------------------------
(* UsbDevice with a key of each type; a wLength of ten cuts the device     *)
(* descriptor short and still takes two packets.                           *)
EXTENDS UsbDevice
=============================================================================
