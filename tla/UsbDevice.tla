------------------------------ MODULE UsbDevice ------------------------------
(* The USB side of the dongle: its control endpoint and its key reports,   *)
(* which share the report protocol and the mouse endpoint.                 *)
EXTENDS UsbControl, UsbReports

vars == <<controlVars, reportVars>>

Init == ControlInit /\ ReportInit

(* The mouse endpoint is emptied by the handler of SET_PROTOCOL.           *)
UsbSetup ==
  /\ HandleSetup
  /\ \/ req \in DOMAIN SetProtocol /\ ClearMouse
     \/ req \notin DOMAIN SetProtocol /\ UNCHANGED reportVars

Control ==
  /\ \/ \E r \in Request, n \in WLength : Setup(r, n)
     \/ DataIn \/ (\E v \in {0, 1} : DataOut(v)) \/ Status \/ Done
     \/ HandleData \/ HandleStatus
  /\ UNCHANGED reportVars

Keyboard ==
  /\ \/ \E k \in Key \cup {None} : AttKeyboard(k, proto)
     \/ HostAttDataClear(proto)
     \/ \E e \in Endpoint : Poll(e)
  /\ UNCHANGED controlVars

UsbReset == ControlReset /\ ReportReset

Next == UsbSetup \/ Control \/ Keyboard \/ UsbReset

Spec == Init /\ [][Next]_vars

UsbInv == ControlTypeOK /\ ReportTypeOK /\ RememberedUntilReleased
=============================================================================
