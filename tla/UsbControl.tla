------------------------------ MODULE UsbControl ------------------------------
(* The control endpoint of the dongle: proj/drivers/usb.c, which the main  *)
(* loop polls (usb_handle_irq), and the USB host.  The host sends a SETUP, *)
(* moves data packets of at most eight bytes, and ends with a status       *)
(* stage; each of these raises a flag that the next poll handles.  It may  *)
(* give a transfer up and start another one, once the flags of the first   *)
(* are handled, so that control_request is always what the host asks for.  *)
(* A byte is a pair: what it belongs to, and its place or its value.       *)
EXTENDS Integers, Sequences, FiniteSetsExt

CONSTANT WLength          \* the lengths the host asks for

ASSUME UsbControlAssumption == WLength \subseteq Nat \ {0}

Packet == 8
Size == [device |-> 18, hid |-> 9]          \* descriptors and their bytes

(* GET_DESCRIPTOR of the device, of a type there is none of, and of the    *)
(* HID descriptor of the keyboard and of an interface that has none;       *)
(* GET_PROTOCOL; SET_REPORT with one byte of data, of a feature and of a   *)
(* type there is none of; SET_PROTOCOL.                                    *)
Descriptor == {"device", "unknown", "hid", "hidOther"}
Reads == Descriptor \cup {"getProtocol"}
Writes == {"feature", "badReport"}
SetProtocol == [boot |-> 0, report |-> 1]
Request == Reads \cup Writes \cup DOMAIN SetProtocol
Unsupported == {"unknown", "badReport"}

VARIABLES
  phase,             \* host: "idle", or the stage the transfer is in
  req, want,         \* host: the request and its wLength
  got,               \* host: the data moved so far
  irq,               \* reg_ctrl_ep_irq_sta
  buf,               \* the endpoint's buffer
  ctl,               \* reg_ctrl_ep_ctrl: how the next stage is answered
  g_response,        \* g_response and g_response_len: what is left to send
  g_stall,
  proto,             \* usb_mouse_report_proto
  leds               \* host_keyboard_status

hostVars == <<phase, req, want, got>>
endpoint == <<irq, buf, ctl>>
firmware == <<g_response, g_stall, proto, leds>>
controlVars == <<hostVars, endpoint, firmware>>

ControlInit ==
  /\ phase = "idle" /\ req = "none" /\ want = 0 /\ got = <<>>
  /\ irq = {} /\ buf = <<>> /\ ctl = "nak"
  /\ g_response = [of |-> "none", pos |-> 0, len |-> 0]
  /\ g_stall = FALSE /\ proto = 0 /\ leds = 0

-----------------------------------------------------------------------------
(* The host begins, or gives up what it waits for and begins anew; by then *)
(* the main loop has seen what came before.                                *)
Setup(r, n) ==
  /\ irq \subseteq {"setup"}
  /\ phase' = "setup" /\ req' = r /\ want' = n /\ got' = <<>>
  /\ irq' = {"setup"} /\ buf' = <<>> /\ ctl' = "nak"
  /\ UNCHANGED firmware

(* A packet is read; a short one or the last one asked for ends the data   *)
(* stage, and may or may not raise the flag.                               *)
DataIn ==
  /\ phase = "data" /\ req \in Reads /\ ctl = "dat_ack"
  /\ got' = got \o buf
  /\ \/ /\ Len(buf) < Packet \/ Len(got') >= want
        /\ phase' = "status" /\ irq' \in {irq, irq \cup {"data"}}
     \/ /\ Len(buf) = Packet /\ Len(got') < want
        /\ phase' = phase /\ irq' = irq \cup {"data"}
  /\ buf' = <<>> /\ ctl' = "nak"
  /\ UNCHANGED <<req, want, firmware>>

DataOut(v) ==
  /\ phase = "data" /\ req \in Writes /\ ctl = "dat_ack"
  /\ buf' = << <<"leds", v>> >> /\ got' = buf'
  /\ phase' = "status" /\ irq' = irq \cup {"data"} /\ ctl' = "nak"
  /\ UNCHANGED <<req, want, firmware>>

Status ==
  /\ phase = "status" /\ (req \in Reads \/ ctl = "dat_ack")
  /\ phase' = "wait" /\ irq' = irq \cup {"status"}
  /\ UNCHANGED <<req, want, got, buf, ctl, firmware>>

(* The transfer is over: acknowledged, or stalled in one of its stages.    *)
Stalled == ctl \in {"dat_stall", "sta_stall"}
Completed == phase = "wait" /\ ctl = "sta_ack"
Done ==
  /\ phase # "idle" /\ (Completed \/ Stalled)
  /\ phase' = "idle" /\ req' = "none" /\ want' = 0 /\ got' = <<>>
  /\ buf' = <<>> /\ ctl' = "nak"
  /\ UNCHANGED <<irq, firmware>>

-----------------------------------------------------------------------------
(* What a GET_DESCRIPTOR is answered with: usb_prepare_desc_data and       *)
(* usb_handle_std_intf_req, which does not touch g_response for an         *)
(* interface it does not know.                                             *)
Prepared(r, n) ==
  LET whole == IF r \in DOMAIN Size THEN [of |-> r, pos |-> 0, len |-> Size[r]]
               ELSE IF r = "unknown" THEN [of |-> "none", pos |-> 0, len |-> 0]
               ELSE g_response
  IN [whole EXCEPT !.len = Min({whole.len, n})]

(* usb_send_response: the next packet.                                     *)
UsbSendResponse(response) ==
  LET n == Min({response.len, Packet})
  IN /\ buf' = [k \in 1 .. n |-> <<response.of, response.pos + k>>]
     /\ g_response' = [response EXCEPT !.pos = @ + n, !.len = @ - n]

GetDescriptor(r, n, setup) ==
  /\ UsbSendResponse(IF setup THEN Prepared(r, n) ELSE g_response)
  /\ g_stall' = (setup /\ r = "unknown")
  /\ UNCHANGED <<proto, leds>>

GetProtocol ==
  /\ buf' = << <<"proto", proto>> >> /\ g_stall' = FALSE
  /\ UNCHANGED <<g_response, proto, leds>>

(* usb_handle_out_class_intf_req.                                          *)
OutClass(r, setup) ==
  /\ g_stall' = (r = "badReport")
  /\ proto' = (IF r \in DOMAIN SetProtocol THEN SetProtocol[r] ELSE proto)
  /\ leds' = (IF r = "feature" /\ ~setup THEN buf[1][2] ELSE leds)
  /\ UNCHANGED <<buf, g_response>>

UsbHandleRequest(r, n, setup) ==
  \/ r \in Descriptor /\ GetDescriptor(r, n, setup)
  \/ r = "getProtocol" /\ GetProtocol
  \/ r \in Writes \cup DOMAIN SetProtocol /\ OutClass(r, setup)

DatAnswer == ctl' = IF g_stall' THEN "dat_stall" ELSE "dat_ack"

-----------------------------------------------------------------------------
(* usb_handle_ctl_ep_setup; the host goes on to the next stage.            *)
HandleSetup ==
  /\ "setup" \in irq
  /\ irq' = irq \ {"setup"}
  /\ UsbHandleRequest(req, want, TRUE) /\ DatAnswer
  /\ phase' = IF req \in DOMAIN SetProtocol THEN "status" ELSE "data"
  /\ UNCHANGED <<req, want, got>>

(* Mutant: the flags of the SETUP and of the data are not told apart.      *)
HandleDataAnew ==
  /\ "data" \in irq /\ "setup" \notin irq
  /\ irq' = irq \ {"data"}
  /\ UsbHandleRequest(req, want, TRUE) /\ DatAnswer
  /\ UNCHANGED hostVars

(* usb_handle_ctl_ep_data.                                                 *)
HandleData ==
  /\ "data" \in irq /\ "setup" \notin irq
  /\ irq' = irq \ {"data"}
  /\ UsbHandleRequest(req, want, FALSE) /\ DatAnswer
  /\ UNCHANGED hostVars

(* usb_handle_ctl_ep_status.                                               *)
HandleStatus ==
  /\ irq = {"status"}
  /\ irq' = {} /\ ctl' = IF g_stall THEN "sta_stall" ELSE "sta_ack"
  /\ UNCHANGED <<hostVars, buf, firmware>>

(* The host resets the device.                                             *)
ControlReset ==
  /\ phase' = "idle" /\ req' = "none" /\ want' = 0 /\ got' = <<>>
  /\ irq' = {} /\ buf' = <<>> /\ ctl' = "nak" /\ proto' = 1
  /\ UNCHANGED <<g_response, g_stall, leds>>

-----------------------------------------------------------------------------
Byte == {"none", "device", "hid", "proto", "leds"} \X Nat

ControlTypeOK ==
  /\ phase \in {"idle", "setup", "data", "status", "wait"}
  /\ req \in Request \cup {"none"} /\ want \in WLength \cup {0}
  /\ got \in Seq(Byte) /\ buf \in Seq(Byte) /\ Len(buf) <= Packet
  /\ irq \subseteq {"setup", "data", "status"}
  /\ ctl \in {"nak", "dat_ack", "dat_stall", "sta_ack", "sta_stall"}
  /\ g_response.len \in 0 .. Size.device /\ g_response.pos + g_response.len <= Size.device
  /\ g_stall \in BOOLEAN /\ proto \in {0, 1} /\ leds \in {0, 1}

Answer ==
  IF req \in DOMAIN Size
    THEN got = [k \in 1 .. Min({Size[req], want}) |-> <<req, k>>]
  ELSE IF req = "getProtocol" THEN got = << <<"proto", proto>> >>
  ELSE IF req = "feature" THEN got = << <<"leds", leds>> >>
  ELSE req \in DOMAIN SetProtocol /\ proto = SetProtocol[req]

(* usb.c:66-83, 560-585, 646-676: whatever transfers the host has given    *)
(* up before, and whether or not the last packet raises the data flag: a   *)
(* transfer that completes has moved what this request asks for, whole and *)
(* in order, and only a request that is not supported is stalled.  The HID *)
(* descriptor of an interface that has none is excepted: it gets what an   *)
(* earlier request has left over (usb.c:197-220).                          *)
AnswersOwnRequest ==
  req # "hidOther" => /\ Completed => Answer
                      /\ phase # "idle" /\ Stalled => req \in Unsupported
=============================================================================
