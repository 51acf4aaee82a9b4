------------------------------ MODULE UsbReports ------------------------------
(* The key reports of the dongle to its USB host: att_keyboard of          *)
(* vendor/826x_master_kma_dongle/app_att.c, proj/app/usbkb.c, and the      *)
(* endpoint of proj/app/usbmouse.c, which carries the system and the media *)
(* keys too.  An endpoint holds one report until the host polls it, and a  *)
(* report that finds it busy is dropped; usbkb_not_released remembers what *)
(* has been reported pressed, for the release to come.                     *)
EXTENDS Integers

CONSTANTS Normal, Sys, Media     \* the key codes of each type

Types == {"normal", "sys", "media"}
Key == Normal \cup Sys \cup Media
None == "none"                   \* no key: a release
Idle == <<"idle", None>>

ASSUME UsbReportsAssumption ==
  /\ None \notin Key
  /\ Normal \cap Sys = {} /\ Normal \cap Media = {} /\ Sys \cap Media = {}

VARIABLES
  ep,            \* the report each endpoint holds, or Idle
  notReleased,   \* usbkb_not_released
  lastData,      \* last_data of usbkb_check_repeat_and_save
  held,          \* keyboard_not_release
  seen,          \* USB host: the key of each type it sees pressed
  cur,           \* history: the key the slave holds down
  late,          \* history: the last report was not taken whole
  lost           \* history: a report taken was discarded, or misread; until the
                 \* next reset seen and late are not followed then

reportVars == <<ep, notReleased, lastData, held, seen, cur, late, lost>>

Endpoint == {"keyboard", "mouse"}
EndpointOf(t) == IF t = "normal" THEN "keyboard" ELSE "mouse"
Codes(t) == CASE t = "normal" -> Normal [] t = "sys" -> Sys [] t = "media" -> Media

Unseen == [t \in Types |-> None]

ReportInit ==
  /\ ep = [e \in Endpoint |-> Idle] /\ notReleased = {} /\ lastData = None /\ held = FALSE
  /\ seen = Unseen /\ cur = None /\ late = FALSE /\ lost = FALSE

-----------------------------------------------------------------------------
(* What usbmouse_hid_report puts into its endpoint: without the report     *)
(* protocol there is no report id, and the host takes it for the mouse.    *)
Sent(t, k, proto) == IF t # "normal" /\ proto = 0 THEN <<"mouse", k>> ELSE <<t, k>>

(* Mutant: a release that is refused is forgotten.                         *)
ReportedForgetful(s, t, k, proto) ==
  LET press == k \in Codes(t)
      e == EndpointOf(t)
      taken == s.ep[e] = Idle
  IN IF ~press /\ t \notin s.mask THEN s
     ELSE [ep |-> IF taken THEN [s.ep EXCEPT ![e] = Sent(t, IF press THEN k ELSE None, proto)] ELSE s.ep,
           mask |-> IF press /\ taken THEN s.mask \cup {t} ELSE s.mask \ {t},
           refused |-> s.refused \/ ~taken]

(* usbkb_report_normal_key, usbkb_report_sys_key, usbkb_report_media_key:  *)
(* the key if it is of this type, its release if one is due.               *)
Reported(s, t, k, proto) ==
  LET press == k \in Codes(t)
      e == EndpointOf(t)
  IN IF ~press /\ t \notin s.mask THEN s
     ELSE IF s.ep[e] # Idle THEN [s EXCEPT !.refused = TRUE]
     ELSE [s EXCEPT !.ep[e] = Sent(t, IF press THEN k ELSE None, proto),
                    !.mask = IF press THEN @ \cup {t} ELSE @ \ {t}]

(* Mutant: a key is never reported twice in a row.                         *)
RepeatedAlways(k) == k # None /\ k = lastData

(* The same key again, with something still to be released.                *)
Repeated(k) == k # None /\ k = lastData /\ notReleased # {}

UsbkbHidReport(k, proto) ==
  /\ lastData' = (IF k = None THEN lastData ELSE k)
  /\ IF Repeated(k) THEN UNCHANGED <<ep, notReleased, late, lost>>
     ELSE LET s0 == [ep |-> ep, mask |-> notReleased, refused |-> FALSE]
              s == Reported(Reported(Reported(s0, "normal", k, proto), "sys", k, proto),
                            "media", k, proto)
          IN /\ ep' = s.ep /\ notReleased' = s.mask
             /\ lost' = (lost \/ (s.ep.mouse # ep.mouse /\ s.ep.mouse[1] = "mouse"))
             /\ late' = (s.refused /\ ~lost')
  /\ seen' = IF lost' THEN Unseen ELSE seen

(* att_keyboard: the slave notifies a key, or that none is down.           *)
AttKeyboard(k, proto) ==
  /\ cur' = k /\ held' = (k # None)
  /\ UsbkbHidReport(k, proto)

(* host_att_data_clear, when the slave is gone.                            *)
HostAttDataClear(proto) ==
  /\ held /\ held' = FALSE /\ cur' = None
  /\ UsbkbHidReport(None, proto)

(* The USB host polls an endpoint.                                         *)
Poll(e) ==
  /\ ep[e] # Idle
  /\ ep' = [ep EXCEPT ![e] = Idle]
  /\ seen' = (IF ep[e][1] \in Types /\ ~lost THEN [seen EXCEPT ![ep[e][1]] = ep[e][2]] ELSE seen)
  /\ UNCHANGED <<notReleased, lastData, held, cur, late, lost>>

(* SET_PROTOCOL empties the mouse endpoint (usb.c:379).                    *)
ClearMouse ==
  /\ ep' = [ep EXCEPT !.mouse = Idle]
  /\ lost' = (lost \/ ep.mouse # Idle)
  /\ late' = (late /\ ~lost') /\ seen' = IF lost' THEN Unseen ELSE seen
  /\ UNCHANGED <<notReleased, lastData, held, cur>>

(* A USB reset empties all endpoints (usb.c:711-717); the host starts anew *)
(* with no key down, but usbkb_not_released is left as it is.              *)
ReportReset ==
  /\ ep' = [e \in Endpoint |-> Idle]
  /\ seen' = Unseen
  /\ late' = (cur # None \/ notReleased # {}) /\ lost' = FALSE
  /\ UNCHANGED <<notReleased, lastData, held, cur>>

-----------------------------------------------------------------------------
ReportTypeOK ==
  /\ ep \in [Endpoint -> ((Types \cup {"mouse"}) \X (Key \cup {None})) \cup {Idle}]
  /\ notReleased \subseteq Types /\ lastData \in Key \cup {None} /\ held \in BOOLEAN
  /\ seen \in [Types -> Key \cup {None}] /\ cur \in Key \cup {None}
  /\ late \in BOOLEAN /\ lost \in BOOLEAN

(* What the host will see of a type when it has polled.                    *)
Final(t) == IF ep[EndpointOf(t)][1] = t THEN ep[EndpointOf(t)][2] ELSE seen[t]

(* usbkb.c:97-122, 204-242: no release is forgotten: what the host sees or *)
(* is about to see pressed is marked to be released, whatever was refused. *)
RememberedUntilReleased ==
  ~lost => \A t \in Types : Final(t) # None => t \in notReleased

(* usbkb.c:284-299: one report that is taken whole makes up for all that   *)
(* were refused before it: the host sees the key that is down and no other *)
(* one, in whatever order the types follow each other.                     *)
FollowsWhenTaken ==
  ~late /\ ~lost => \A t \in Types : Final(t) = IF cur \in Codes(t) THEN cur ELSE None
=============================================================================
