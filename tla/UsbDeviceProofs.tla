--------------------------- MODULE UsbDeviceProofs ---------------------------
(* Proofs about the USB side of the dongle, for any keys and any lengths   *)
(* the host may ask for.  The reports come first, then the control         *)
(* endpoint, and last the device they make up.                             *)
EXTENDS UsbDevice, SequenceTheorems, TLAPS

-----------------------------------------------------------------------------
(* An endpoint holds reports of its own types, in the report protocol as   *)
(* long as nothing is lost.                                                *)
Reports(t) == {t} \X (Codes(t) \cup {None})
EndpointInv ==
  /\ ep \in [Endpoint -> ((Types \cup {"mouse"}) \X (Key \cup {None})) \cup {Idle}]
  /\ ep["keyboard"] \in Reports("normal") \cup {Idle}
  /\ ~lost => ep["mouse"] \in Reports("sys") \cup Reports("media") \cup {Idle}

(* When the last report was taken whole, usbkb_not_released and last_data  *)
(* are those of the key that is down.                                      *)
Pressed == {t \in Types : cur \in Codes(t)}
TakenInv ==
  ~late /\ ~lost => /\ FollowsWhenTaken
                    /\ notReleased = Pressed
                    /\ cur # None => lastData = cur

ReportInv == ReportTypeOK /\ EndpointInv /\ RememberedUntilReleased /\ TakenInv

Ep == [Endpoint -> ((Types \cup {"mouse"}) \X (Key \cup {None})) \cup {Idle}]
ReportState == [ep : Ep, mask : SUBSET Types, refused : BOOLEAN]

(* What the host will see of a type, were the endpoints to hold p.         *)
FinalIn(p, t) == IF p[EndpointOf(t)][1] = t THEN p[EndpointOf(t)][2] ELSE seen[t]
Remembered(s) == \A t \in Types : FinalIn(s.ep, t) # None => t \in s.mask

LEMMA KeyTypes ==
  /\ \A t \in Types : Codes(t) \subseteq Key /\ None \notin Codes(t) /\ EndpointOf(t) \in Endpoint
  /\ \A t, u \in Types : t # u => Codes(t) \cap Codes(u) = {}
  /\ \A k \in Key : \E t \in Types : k \in Codes(t)
BY UsbReportsAssumption DEF Types, Codes, EndpointOf, Endpoint, Key

(* One of the three report functions: it keeps the types, it touches       *)
(* neither what the host will see of another type nor what is remembered   *)
(* of it, and an endpoint that holds a report keeps it.                    *)
LEMMA ReportedKeeps ==
  ASSUME NEW s \in ReportState, NEW t \in Types, NEW k \in Key \cup {None}, NEW n
  PROVE  LET r == Reported(s, t, k, n)
         IN /\ r \in ReportState
            /\ s.refused => r.refused
            /\ \A e \in Endpoint : s.ep[e] # Idle => r.ep[e] = s.ep[e]
            /\ \A e \in Endpoint : r.ep[e] = s.ep[e] \/ (e = EndpointOf(t)
                 /\ r.ep[e] \in {<<t, k>>, <<t, None>>, <<"mouse", k>>, <<"mouse", None>>}
                 /\ (t = "normal" => r.ep[e] # <<"mouse", k>> /\ r.ep[e] # <<"mouse", None>>))
            /\ \A u \in Types \ {t} : /\ FinalIn(r.ep, u) = FinalIn(s.ep, u)
                                      /\ u \in r.mask <=> u \in s.mask
<1> DEFINE press == k \in Codes(t)
           e0 == EndpointOf(t)
           sent == Sent(t, IF press THEN k ELSE None, n)
           r == Reported(s, t, k, n)
<1>0. e0 \in Endpoint /\ sent \in (Types \cup {"mouse"}) \X (Key \cup {None})
  BY KeyTypes DEF Sent
<1>1. CASE r = s
  BY <1>1
<1>2. CASE s.ep[e0] # Idle /\ r = [s EXCEPT !.refused = TRUE]
  BY <1>2 DEF ReportState
<1>3. CASE s.ep[e0] = Idle /\ r = [s EXCEPT !.ep[e0] = sent, !.mask = IF press THEN @ \cup {t} ELSE @ \ {t}]
  <2>1. r.ep = [s.ep EXCEPT ![e0] = sent] /\ r.refused = s.refused
        /\ r.mask = IF press THEN s.mask \cup {t} ELSE s.mask \ {t}
    BY <1>3 DEF ReportState
  <2>2. r \in ReportState
    <3>1. s.ep \in Ep /\ s.mask \in SUBSET Types /\ s.refused \in BOOLEAN BY DEF ReportState
    <3>2. r.ep \in Ep BY <1>0, <2>1, <3>1 DEF Ep
    <3>3. r.mask \in SUBSET Types BY <2>1, <3>1
    <3>4. r = [ep |-> r.ep, mask |-> r.mask, refused |-> r.refused] BY <1>3 DEF ReportState
    <3> HIDE DEF r
    <3> QED BY <2>1, <3>1, <3>2, <3>3, <3>4 DEF ReportState
  <2>3. sent \in {<<t, k>>, <<t, None>>, <<"mouse", k>>, <<"mouse", None>>}
        /\ (t = "normal" => sent # <<"mouse", k>> /\ sent # <<"mouse", None>>)
    BY DEF Sent
  <2>4. \A e \in Endpoint : r.ep[e] = s.ep[e] \/ (e = e0 /\ r.ep[e] = sent)
    BY <2>1 DEF ReportState, Ep
  <2>5. ASSUME NEW u \in Types \ {t} PROVE FinalIn(r.ep, u) = FinalIn(s.ep, u)
    <3>1. EndpointOf(u) \in Endpoint BY KeyTypes
    <3>2. CASE EndpointOf(u) # e0 BY <2>4, <3>1, <3>2 DEF FinalIn
    <3>3. CASE EndpointOf(u) = e0
      <4>1. r.ep[e0] = sent BY <1>0, <2>1 DEF ReportState, Ep
      <4>2. sent[1] # u BY <2>3 DEF Types
      <4>3. Idle[1] # u BY DEF Idle, Types
      <4> QED BY <1>3, <3>3, <4>1, <4>2, <4>3 DEF FinalIn
    <3> QED BY <3>2, <3>3
  <2>6. \A e \in Endpoint : s.ep[e] # Idle => r.ep[e] = s.ep[e] BY <1>3, <2>4
  <2>7. \A u \in Types \ {t} : u \in r.mask <=> u \in s.mask BY <2>1
  <2> QED BY <2>1, <2>2, <2>3, <2>4, <2>5, <2>6, <2>7
<1>4. r = s \/ (s.ep[e0] # Idle /\ r = [s EXCEPT !.refused = TRUE])
      \/ (s.ep[e0] = Idle /\ r = [s EXCEPT !.ep[e0] = sent, !.mask = IF press THEN @ \cup {t} ELSE @ \ {t}])
  BY DEF Reported
<1> QED BY <1>1, <1>2, <1>3, <1>4

(* And for its own type: what the host will see pressed stays remembered,  *)
(* and unless the report is refused, it is the key, or nothing.            *)
LEMMA ReportedOwn ==
  ASSUME NEW s \in ReportState, NEW t \in Types, NEW k \in Key \cup {None}, NEW n,
         Remembered(s), Reported(s, t, k, n).ep["mouse"][1] # "mouse"
  PROVE  LET r == Reported(s, t, k, n)
         IN /\ Remembered(r)
            /\ ~r.refused => /\ FinalIn(r.ep, t) = IF k \in Codes(t) THEN k ELSE None
                             /\ t \in r.mask <=> k \in Codes(t)
<1> DEFINE press == k \in Codes(t)
           e0 == EndpointOf(t)
           sent == Sent(t, IF press THEN k ELSE None, n)
           r == Reported(s, t, k, n)
<1>0. e0 \in Endpoint /\ "mouse" \in Endpoint /\ None \notin Codes(t)
  BY KeyTypes DEF Endpoint
<1>1. \A u \in Types \ {t} : FinalIn(r.ep, u) # None => u \in r.mask
  BY ReportedKeeps DEF Remembered
<1>2. CASE ~press /\ t \notin s.mask
  BY <1>2 DEF Reported, Remembered
<1>3. CASE (press \/ t \in s.mask) /\ s.ep[e0] # Idle
  <2>1. r.ep = s.ep /\ r.mask = s.mask /\ r.refused BY <1>3 DEF Reported, ReportState
  <2> QED BY <2>1 DEF Remembered
<1>4. CASE (press \/ t \in s.mask) /\ s.ep[e0] = Idle
  <2>1. r.ep = [s.ep EXCEPT ![e0] = sent]
        /\ r.mask = IF press THEN s.mask \cup {t} ELSE s.mask \ {t}
    BY <1>4 DEF Reported, ReportState
  <2>2. r.ep[e0] = sent BY <1>0, <2>1 DEF ReportState, Ep
  <2>3. sent = <<t, IF press THEN k ELSE None>>
    <3>1. CASE t = "normal" BY <3>1 DEF Sent
    <3>2. CASE t # "normal"
      <4>1. e0 = "mouse" BY <3>2 DEF EndpointOf
      <4> QED BY <2>2, <4>1 DEF Sent
    <3> QED BY <3>1, <3>2
  <2>4. FinalIn(r.ep, t) = IF press THEN k ELSE None BY <2>2, <2>3 DEF FinalIn
  <2>5. t \in r.mask <=> press BY <2>1
  <2> QED BY <1>0, <1>1, <2>4, <2>5 DEF Remembered
<1> QED BY <1>2, <1>3, <1>4

-----------------------------------------------------------------------------
(* A report of the keyboard: the three functions one after another.        *)
LEMMA KeyboardKeeps ==
  ASSUME ReportInv, NEW k \in Key \cup {None}, NEW n, UsbkbHidReport(k, n),
         cur' = k, held' \in BOOLEAN
  PROVE  ReportInv'
<1> USE DEF ReportInv
<1>1. CASE Repeated(k)
  <2>1. UNCHANGED <<ep, notReleased, late, lost>> /\ lastData' = k /\ k \in Key /\ k = lastData
    BY <1>1 DEF UsbkbHidReport, Repeated
  <2>2. seen' = IF lost THEN Unseen ELSE seen BY <2>1 DEF UsbkbHidReport
  <2>3. ReportTypeOK' BY <2>1, <2>2 DEF ReportTypeOK, Unseen
  <2>4. EndpointInv' BY <2>1 DEF EndpointInv
  <2>5. RememberedUntilReleased' BY <2>1, <2>2 DEF RememberedUntilReleased, Final
  <2>6. ASSUME ~late, ~lost PROVE cur' = cur
    <3>1. notReleased # {} /\ notReleased = Pressed BY <1>1, <2>6 DEF Repeated, TakenInv
    <3>2. cur # None BY <3>1, KeyTypes DEF Pressed
    <3> QED BY <2>1, <2>6, <3>2 DEF TakenInv
  <2>7. TakenInv' BY <2>1, <2>2, <2>6 DEF TakenInv, FollowsWhenTaken, Final, Pressed
  <2> QED BY <2>3, <2>4, <2>5, <2>7
<1>2. CASE ~Repeated(k)
  <2> DEFINE s0 == [ep |-> ep, mask |-> notReleased, refused |-> FALSE]
             s1 == Reported(s0, "normal", k, n)
             s2 == Reported(s1, "sys", k, n)
             s3 == Reported(s2, "media", k, n)
  <2>0. /\ ep' = s3.ep /\ notReleased' = s3.mask
        /\ lost' = (lost \/ (s3.ep.mouse # ep.mouse /\ s3.ep.mouse[1] = "mouse"))
        /\ late' = (s3.refused /\ ~lost')
        /\ seen' = (IF lost' THEN Unseen ELSE seen)
        /\ lastData' = IF k = None THEN lastData ELSE k
    BY <1>2 DEF UsbkbHidReport
  <2>t. "normal" \in Types /\ "sys" \in Types /\ "media" \in Types
        /\ "keyboard" \in Endpoint /\ "mouse" \in Endpoint
        /\ EndpointOf("normal") = "keyboard" /\ EndpointOf("sys") = "mouse"
        /\ EndpointOf("media") = "mouse"
    BY DEF Types, Endpoint, EndpointOf
  <2>1. s0 \in ReportState BY DEF ReportState, Ep, ReportTypeOK
  <2>2. s1 \in ReportState BY <2>1, <2>t, ReportedKeeps
  <2>3. s2 \in ReportState BY <2>2, <2>t, ReportedKeeps
  <2>4. s3 \in ReportState BY <2>3, <2>t, ReportedKeeps
  <2>5. /\ \A e \in Endpoint : s0.ep[e] # Idle => s1.ep[e] = s0.ep[e]
        /\ \A e \in Endpoint : s1.ep[e] # Idle => s2.ep[e] = s1.ep[e]
        /\ \A e \in Endpoint : s2.ep[e] # Idle => s3.ep[e] = s2.ep[e]
        /\ s1.refused => s2.refused
        /\ s2.refused => s3.refused
    <3>1. \A e \in Endpoint : s0.ep[e] # Idle => s1.ep[e] = s0.ep[e]
      BY <2>1, <2>t, ReportedKeeps
    <3>2. /\ \A e \in Endpoint : s1.ep[e] # Idle => s2.ep[e] = s1.ep[e]
          /\ s1.refused => s2.refused
      <4> HIDE DEF s1
      <4> QED BY <2>2, <2>t, ReportedKeeps
    <3>3. /\ \A e \in Endpoint : s2.ep[e] # Idle => s3.ep[e] = s2.ep[e]
          /\ s2.refused => s3.refused
      <4> HIDE DEF s2
      <4> QED BY <2>3, <2>t, ReportedKeeps
    <3> HIDE DEF s0, s1, s2, s3
    <3> QED BY <3>1, <3>2, <3>3
  <2>6. ReportTypeOK'
    <3>1. s3.ep \in Ep /\ s3.mask \in SUBSET Types /\ s3.refused \in BOOLEAN
      BY <2>4 DEF ReportState
    <3>2. lost' \in BOOLEAN /\ late' \in BOOLEAN BY <2>0
    <3>3. seen' \in [Types -> Key \cup {None}] /\ lastData' \in Key \cup {None}
      BY <2>0 DEF ReportTypeOK, Unseen
    <3> QED BY <2>0, <3>1, <3>2, <3>3 DEF ReportTypeOK, Ep
  <2>7. /\ s1.ep["mouse"] = ep["mouse"]
        /\ s2.ep["keyboard"] = s1.ep["keyboard"] /\ s3.ep["keyboard"] = s1.ep["keyboard"]
        /\ s1.ep["keyboard"] = ep["keyboard"]
           \/ s1.ep["keyboard"] \in {<<"normal", k>>, <<"normal", None>>}
    <3>1. s0.ep = ep BY DEF s0
    <3>2. s1.ep["mouse"] = s0.ep["mouse"] BY <2>1, <2>t, ReportedKeeps
    <3>3. s2.ep["keyboard"] = s1.ep["keyboard"] BY <2>2, <2>t, ReportedKeeps
    <3>4. s3.ep["keyboard"] = s2.ep["keyboard"] BY <2>3, <2>t, ReportedKeeps
    <3>5. s1.ep["keyboard"] = s0.ep["keyboard"]
          \/ s1.ep["keyboard"] \in {<<"normal", k>>, <<"normal", None>>}
      BY <2>1, <2>t, ReportedKeeps
    <3> QED BY <3>1, <3>2, <3>3, <3>4, <3>5
  <2> HIDE DEF s0, s1, s2, s3
  <2>8. ASSUME ~lost'
        PROVE  /\ ~lost /\ s3.ep["mouse"][1] # "mouse" /\ s2.ep["mouse"][1] # "mouse"
               /\ s1.ep["mouse"][1] # "mouse"
    <3>1. ~lost BY <2>0, <2>8
    <3>2. ep["mouse"][1] # "mouse"
      BY <3>1 DEF EndpointInv, Reports, Idle, None
    <3>3. s3.ep["mouse"][1] # "mouse" BY <2>0, <2>8, <3>2
    <3>4. Idle[1] # "mouse" BY DEF Idle
    <3>5. s2.ep["mouse"] = Idle \/ s2.ep["mouse"] = s3.ep["mouse"] BY <2>5, <2>t
    <3> QED BY <2>7, <3>1, <3>2, <3>3, <3>4, <3>5
  <2>9. EndpointInv'
    <3>1. ep' \in [Endpoint -> ((Types \cup {"mouse"}) \X (Key \cup {None})) \cup {Idle}]
      BY <2>6 DEF ReportTypeOK
    <3>2. ep'["keyboard"] \in Reports("normal") \cup {Idle}
      <4>1. CASE s1.ep["keyboard"] = ep["keyboard"]
        BY <2>0, <2>7, <4>1 DEF EndpointInv
      <4>2. CASE s1.ep["keyboard"] # ep["keyboard"]
        <5>1. ep["keyboard"] = Idle BY <2>5, <2>t, <4>2 DEF s0
        <5>2. s1.ep["keyboard"] \in {<<"normal", None>>, <<"normal", k>>} BY <2>7, <4>2
        <5>3. k \in Codes("normal") \/ s1.ep["keyboard"] = <<"normal", None>>
          <6>1. k \notin Codes("normal") => s1.ep["keyboard"] \in {<<"normal", None>>, ep["keyboard"]}
            BY <2>t, <2>1 DEF s1, s0, Reported, Sent, ReportState, Ep
          <6> QED BY <4>2, <6>1
        <5> QED BY <2>0, <2>7, <5>2, <5>3 DEF Reports
      <4> QED BY <4>1, <4>2
    <3>3. ASSUME ~lost' PROVE ep'["mouse"] \in Reports("sys") \cup Reports("media") \cup {Idle}
      <4>1. ep["mouse"] \in Reports("sys") \cup Reports("media") \cup {Idle}
        BY <2>8, <3>3 DEF EndpointInv
      <4>2. s2.ep["mouse"] \in {s1.ep["mouse"]} \cup Reports("sys")
        <5>1. s2.ep["mouse"] = s1.ep["mouse"]
              \/ s2.ep["mouse"] = Sent("sys", IF k \in Codes("sys") THEN k ELSE None, n)
          BY <2>t, <2>2 DEF s2, Reported, ReportState, Ep
        <5> QED BY <2>8, <3>3, <5>1 DEF Sent, Reports
      <4>3. s3.ep["mouse"] \in {s2.ep["mouse"]} \cup Reports("media")
        <5>1. s3.ep["mouse"] = s2.ep["mouse"]
              \/ s3.ep["mouse"] = Sent("media", IF k \in Codes("media") THEN k ELSE None, n)
          BY <2>t, <2>3 DEF s3, Reported, ReportState, Ep
        <5> QED BY <2>8, <3>3, <5>1 DEF Sent, Reports
      <4> QED BY <2>0, <2>7, <4>1, <4>2, <4>3
    <3> QED BY <3>1, <3>2, <3>3 DEF EndpointInv
  <2>10. ASSUME ~lost'
         PROVE  /\ \A t \in Types : FinalIn(s3.ep, t) # None => t \in s3.mask
                /\ ~s3.refused => \A t \in Types :
                     /\ FinalIn(s3.ep, t) = IF k \in Codes(t) THEN k ELSE None
                     /\ t \in s3.mask <=> k \in Codes(t)
    <3>1. Remembered(s0)
      BY <2>8, <2>10 DEF RememberedUntilReleased, Remembered, FinalIn, Final, s0
    <3>2. /\ Remembered(s1)
          /\ ~s1.refused => /\ FinalIn(s1.ep, "normal") = IF k \in Codes("normal") THEN k ELSE None
                            /\ "normal" \in s1.mask <=> k \in Codes("normal")
      BY <2>1, <2>8, <2>10, <2>t, <3>1, ReportedOwn DEF s1
    <3>3. /\ Remembered(s2)
          /\ ~s2.refused => /\ FinalIn(s2.ep, "sys") = IF k \in Codes("sys") THEN k ELSE None
                            /\ "sys" \in s2.mask <=> k \in Codes("sys")
      BY <2>2, <2>8, <2>10, <2>t, <3>2, ReportedOwn DEF s2
    <3>4. /\ Remembered(s3)
          /\ ~s3.refused => /\ FinalIn(s3.ep, "media") = IF k \in Codes("media") THEN k ELSE None
                            /\ "media" \in s3.mask <=> k \in Codes("media")
      BY <2>3, <2>8, <2>10, <2>t, <3>3, ReportedOwn DEF s3
    <3>5. /\ FinalIn(s2.ep, "normal") = FinalIn(s1.ep, "normal")
          /\ "normal" \in s2.mask <=> "normal" \in s1.mask
      <4>1. "normal" \in Types \ {"sys"} BY <2>t
      <4> QED BY <2>2, <2>t, <4>1, ReportedKeeps DEF s2
    <3>6. \A u \in {"normal", "sys"} : /\ FinalIn(s3.ep, u) = FinalIn(s2.ep, u)
                                       /\ u \in s3.mask <=> u \in s2.mask
      <4>1. \A u \in {"normal", "sys"} : u \in Types \ {"media"} BY <2>t
      <4> QED BY <2>3, <2>t, <4>1, ReportedKeeps DEF s3
    <3>7. Types = {"normal", "sys", "media"} BY DEF Types
    <3> QED BY <2>5, <3>2, <3>3, <3>4, <3>5, <3>6, <3>7 DEF Remembered
  <2>11. RememberedUntilReleased'
    BY <2>0, <2>10 DEF RememberedUntilReleased, Final, FinalIn
  <2>12. TakenInv'
    <3> SUFFICES ASSUME ~late', ~lost'
                 PROVE  /\ FollowsWhenTaken' /\ notReleased' = Pressed'
                        /\ cur' # None => lastData' = cur'
      BY DEF TakenInv
    <3>1. ~s3.refused BY <2>0
    <3>2. \A t \in Types : /\ FinalIn(s3.ep, t) = IF k \in Codes(t) THEN k ELSE None
                           /\ t \in s3.mask <=> k \in Codes(t)
      BY <2>10, <3>1
    <3>3. FollowsWhenTaken' BY <2>0, <3>2 DEF FollowsWhenTaken, Final, FinalIn
    <3>4. notReleased' = Pressed'
      <4>1. s3.mask \subseteq Types BY <2>4 DEF ReportState
      <4>2. Pressed' = {t \in Types : k \in Codes(t)} BY DEF Pressed, Codes
      <4> QED BY <2>0, <3>2, <4>1, <4>2
    <3> QED BY <2>0, <3>3, <3>4
  <2> QED BY <2>6, <2>9, <2>11, <2>12
<1> QED BY <1>1, <1>2

(* A poll changes nothing of what the host sees or is about to see.        *)
LEMMA PollKeeps == ASSUME ReportInv, NEW e \in Endpoint, Poll(e) PROVE ReportInv'
<1> USE DEF ReportInv
<1>1. ep' = [ep EXCEPT ![e] = Idle] /\ ep[e] # Idle
      /\ UNCHANGED <<notReleased, lastData, held, cur, late, lost>>
      /\ seen' = (IF ep[e][1] \in Types /\ ~lost THEN [seen EXCEPT ![ep[e][1]] = ep[e][2]] ELSE seen)
  BY DEF Poll
<1>2. ep[e] \in (Types \cup {"mouse"}) \X (Key \cup {None}) BY <1>1 DEF ReportTypeOK
<1>3. ReportTypeOK' BY <1>1, <1>2 DEF ReportTypeOK
<1>4. EndpointInv' BY <1>1 DEF EndpointInv, Endpoint
<1>5. ASSUME ~lost, NEW t \in Types PROVE Final(t)' = Final(t)
  <2>0. EndpointOf(t) \in Endpoint /\ EndpointOf(t)' = EndpointOf(t) BY KeyTypes DEF EndpointOf
  <2>1. CASE EndpointOf(t) = e
    <3>1. ep'[e] = Idle BY <1>1 DEF ReportTypeOK
    <3>2. Idle[1] # t BY DEF Idle, Types
    <3>3. Final(t)' = seen'[t] BY <2>0, <2>1, <3>1, <3>2 DEF Final
    <3> QED BY <1>1, <1>2, <1>5, <2>1, <3>3 DEF Final, ReportTypeOK
  <2>2. CASE EndpointOf(t) # e
    <3>1. ep[e][1] # t
      BY <1>1, <1>5, <2>0, <2>2 DEF EndpointInv, Reports, EndpointOf, Endpoint, Types
    <3>2. seen'[t] = seen[t] BY <1>1, <1>5, <3>1 DEF ReportTypeOK
    <3>3. ep'[EndpointOf(t)] = ep[EndpointOf(t)] BY <1>1, <2>0, <2>2 DEF ReportTypeOK
    <3> QED BY <2>0, <3>2, <3>3 DEF Final
  <2> QED BY <2>1, <2>2
<1>6. RememberedUntilReleased' BY <1>1, <1>5 DEF RememberedUntilReleased
<1>7. TakenInv'
  <2>1. Pressed' = Pressed BY <1>1 DEF Pressed, Codes
  <2> QED BY <1>1, <1>5, <2>1 DEF TakenInv, FollowsWhenTaken, Codes
<1> QED BY <1>3, <1>4, <1>6, <1>7

(* The mouse endpoint is emptied.                                          *)
LEMMA ClearKeeps == ASSUME ReportInv, ClearMouse PROVE ReportInv'
<1> USE DEF ReportInv
<1>1. /\ ep' = [ep EXCEPT !.mouse = Idle] /\ lost' = (lost \/ ep.mouse # Idle)
      /\ late' = (late /\ ~lost') /\ seen' = (IF lost' THEN Unseen ELSE seen)
      /\ UNCHANGED <<notReleased, lastData, held, cur>>
  BY DEF ClearMouse
<1>2. ReportTypeOK' BY <1>1 DEF ReportTypeOK, Unseen, Endpoint
<1>3. EndpointInv' BY <1>1 DEF EndpointInv, Endpoint
<1>4. ASSUME ~lost' PROVE ~lost /\ ep' = ep /\ seen' = seen
  BY <1>1, <1>4 DEF ReportTypeOK, Endpoint
<1>5. RememberedUntilReleased' BY <1>1, <1>4 DEF RememberedUntilReleased, Final
<1>6. TakenInv' BY <1>1, <1>4 DEF TakenInv, FollowsWhenTaken, Final, Pressed
<1> QED BY <1>2, <1>3, <1>5, <1>6

(* Everything is emptied, and the host starts anew.                        *)
LEMMA ResetKeeps == ASSUME ReportInv, ReportReset PROVE ReportInv'
<1> USE DEF ReportInv
<1>1. /\ ep' = [e \in Endpoint |-> Idle] /\ seen' = Unseen /\ ~lost'
      /\ late' = (cur # None \/ notReleased # {}) /\ lost' = FALSE
      /\ UNCHANGED <<notReleased, lastData, held, cur>>
  BY DEF ReportReset
<1>2. ReportTypeOK' BY <1>1 DEF ReportTypeOK, Unseen
<1>3. EndpointInv' BY <1>1 DEF EndpointInv, Endpoint
<1>4. \A t \in Types : Final(t)' = None
  BY <1>1, KeyTypes DEF Final, EndpointOf, Unseen, Idle, Types, Endpoint
<1>5. RememberedUntilReleased' BY <1>4 DEF RememberedUntilReleased
<1>6. ASSUME ~late' PROVE cur' = None /\ notReleased' = {} BY <1>1, <1>6
<1>7. TakenInv'
  <2>1. ASSUME ~late' PROVE \A t \in Types : cur' \notin Codes(t) BY <1>6, <2>1, KeyTypes
  <2>2. Pressed' = {t \in Types : cur' \in Codes(t)} BY DEF Pressed, Codes
  <2>3. FollowsWhenTaken' =
          (~late' /\ ~lost' => \A t \in Types : Final(t)' = IF cur' \in Codes(t) THEN cur' ELSE None)
    BY DEF FollowsWhenTaken, Codes
  <2> QED BY <1>4, <1>6, <2>1, <2>2, <2>3 DEF TakenInv
<1> QED BY <1>2, <1>3, <1>5, <1>7

LEMMA ReportInitInv == ReportInit => ReportInv
<1> SUFFICES ASSUME ReportInit PROVE ReportInv OBVIOUS
<1>1. ReportTypeOK BY DEF ReportInit, ReportTypeOK, Unseen
<1>2. EndpointInv BY DEF ReportInit, EndpointInv, Endpoint
<1>3. \A t \in Types : Final(t) = None
  BY KeyTypes DEF ReportInit, Final, EndpointOf, Unseen, Idle, Types, Endpoint
<1>4. RememberedUntilReleased BY <1>3 DEF RememberedUntilReleased
<1>5. TakenInv BY <1>3, KeyTypes DEF ReportInit, TakenInv, FollowsWhenTaken, Pressed
<1> QED BY <1>1, <1>2, <1>4, <1>5 DEF ReportInv

LEMMA ReportStutter == ReportInv /\ UNCHANGED reportVars => ReportInv'
BY DEF ReportInv, reportVars, ReportTypeOK, EndpointInv, RememberedUntilReleased, TakenInv,
   FollowsWhenTaken, Final, Pressed

LEMMA ReportStep == ReportInv /\ [Next]_vars => ReportInv'
<1> SUFFICES ASSUME ReportInv, [Next]_vars PROVE ReportInv' OBVIOUS
<1>1. CASE UsbSetup BY <1>1, ClearKeeps, ReportStutter DEF UsbSetup
<1>2. CASE Control BY <1>2, ReportStutter DEF Control
<1>3. CASE Keyboard
  <2>1. ASSUME NEW k \in Key \cup {None}, AttKeyboard(k, proto) PROVE ReportInv'
    BY <2>1, KeyboardKeeps DEF AttKeyboard
  <2>2. CASE HostAttDataClear(proto) BY <2>2, KeyboardKeeps DEF HostAttDataClear
  <2>3. ASSUME NEW e \in Endpoint, Poll(e) PROVE ReportInv' BY <2>3, PollKeeps
  <2> QED BY <1>3, <2>1, <2>2, <2>3 DEF Keyboard
<1>4. CASE UsbReset BY <1>4, ResetKeeps DEF UsbReset
<1>5. CASE UNCHANGED vars BY <1>5, ReportStutter DEF vars
<1> QED BY <1>1, <1>2, <1>3, <1>4, <1>5 DEF Next

-----------------------------------------------------------------------------
(* The control endpoint.  Which flags are up in a stage, and how the next  *)
(* one is answered: only a request that is not supported is stalled, as    *)
(* soon as its SETUP is handled.                                           *)
Under == phase \in {"data", "status", "wait"}
Stages ==
  /\ phase = "idle" => irq = {} /\ ctl = "nak"
  /\ phase = "setup" => irq = {"setup"} /\ ctl = "nak" /\ got = <<>>
  /\ phase = "data" => \/ irq = {} /\ ctl = IF g_stall THEN "dat_stall" ELSE "dat_ack"
                       \/ irq = {"data"} /\ ctl = "nak" /\ req \in Descriptor
  /\ phase = "status" => irq \subseteq {"data"} /\ ctl \in {"nak", "dat_ack"}
  /\ phase = "wait" => \/ irq \in {{"status"}, {"data", "status"}} /\ ctl \in {"nak", "dat_ack"}
                       \/ irq = {} /\ ctl = "sta_ack"
  /\ phase # "idle" => req \in Request /\ want \in WLength
  /\ Under => (g_stall <=> req \in Unsupported)
  /\ Under /\ req \in Unsupported => phase = "data" /\ irq = {}

(* Bytes a + 1 to a + n of a descriptor.                                   *)
Part(r, a, n) == [k \in 1 .. n |-> <<r, a + k>>]

(* A descriptor is sent from its first byte on: what the host has got,     *)
(* what the buffer holds, and what g_response still has make it up.        *)
Total == Min({Size[req], want})
InBuf == IF phase = "data" /\ ctl = "dat_ack" THEN Min({Total - Len(got), Packet}) ELSE 0
DescriptorSent ==
  Under /\ req \in DOMAIN Size =>
    /\ Len(got) <= Total /\ got = Part(req, 0, Len(got))
    /\ ctl = "dat_ack" /\ phase = "data" => buf = Part(req, Len(got), InBuf)
    /\ g_response = [of |-> req, pos |-> Len(got) + InBuf, len |-> Total - Len(got) - InBuf]
    /\ phase # "data" => Len(got) = Total

ProtocolSent ==
  Under /\ req = "getProtocol" =>
    IF phase = "data" THEN got = <<>> /\ buf = << <<"proto", proto>> >>
    ELSE got = << <<"proto", proto>> >>

FeatureTaken ==
  Under /\ phase # "data" /\ req = "feature" =>
    IF "data" \in irq
      THEN /\ phase = "status" /\ ctl = "nak" /\ buf = got
           /\ \E v \in {0, 1} : got = << <<"leds", v>> >>
      ELSE got = << <<"leds", leds>> >>

ProtocolSet ==
  Under /\ req \in DOMAIN SetProtocol =>
    phase # "data" /\ "data" \notin irq /\ proto = SetProtocol[req]

ResponseType ==
  g_response \in [of : {"none", "device", "hid"}, pos : 0 .. Size.device, len : 0 .. Size.device]

ControlInv ==
  /\ ControlTypeOK /\ ResponseType /\ Stages
  /\ DescriptorSent /\ ProtocolSent /\ FeatureTaken /\ ProtocolSet

-----------------------------------------------------------------------------
LEMMA LeastOfTwo ==
  ASSUME NEW a \in Nat, NEW b \in Nat PROVE Min({a, b}) = IF a <= b THEN a ELSE b
<1>1. \E x \in {a, b} : \A y \in {a, b} : x <= y BY SMT
<1>2. Min({a, b}) \in {a, b} /\ \A y \in {a, b} : Min({a, b}) <= y BY <1>1 DEF Min
<1> QED BY <1>2, SMT

(* Consecutive parts of a descriptor make up a part of it.                 *)
LEMMA PartLen ==
  ASSUME NEW r, NEW a \in Nat, NEW n \in Nat
  PROVE  Part(r, a, n) \in Seq({r} \X Nat) /\ Len(Part(r, a, n)) = n
<1>1. \A k \in 1 .. n : <<r, a + k>> \in {r} \X Nat BY SMT
<1> QED BY <1>1 DEF Part

LEMMA PartsJoin ==
  ASSUME NEW r, NEW a \in Nat, NEW n \in Nat
  PROVE  Part(r, 0, a) \o Part(r, a, n) = Part(r, 0, a + n)
<1> DEFINE s == Part(r, 0, a)
           u == Part(r, a, n)
           w == Part(r, 0, a + n)
<1>1. s \in Seq({r} \X Nat) /\ Len(s) = a /\ u \in Seq({r} \X Nat) /\ Len(u) = n
      /\ w \in Seq({r} \X Nat) /\ Len(w) = a + n
  BY PartLen
<1>2. s \o u \in Seq({r} \X Nat) /\ Len(s \o u) = a + n
  <2> HIDE DEF s, u
  <2> QED BY <1>1, ConcatProperties
<1>3. ASSUME NEW k \in 1 .. a + n PROVE (s \o u)[k] = w[k]
  <2>1. (s \o u)[k] = IF k <= a THEN s[k] ELSE u[k - a]
    <3> HIDE DEF s, u
    <3> QED BY <1>1, ConcatProperties
  <2>2. w[k] = <<r, k>> BY DEF Part
  <2>3. k <= a => s[k] = <<r, k>> BY DEF Part
  <2>4. ~(k <= a) => u[k - a] = <<r, k>>
    <3>1. ~(k <= a) => k - a \in 1 .. n /\ a + (k - a) = k OBVIOUS
    <3> QED BY <3>1 DEF Part
  <2> QED BY <2>1, <2>2, <2>3, <2>4
<1> DEFINE su == s \o u
<1>4. su = w
  <2>1. su \in Seq({r} \X Nat) /\ w \in Seq({r} \X Nat) /\ Len(su) = Len(w)
        /\ \A k \in 1 .. Len(su) : su[k] = w[k]
    <3> HIDE DEF s, u, w
    <3> QED BY <1>1, <1>2, <1>3
  <2> HIDE DEF su, s, u, w
  <2> QED BY <2>1, SeqEqual
<1> QED BY <1>4

(* usb_send_response sends the first bytes of what is left, at most eight. *)
LEMMA SendsPart ==
  ASSUME NEW r \in [of : {"none", "device", "hid"}, pos : Nat, len : Nat],
         r.pos + r.len <= Size.device, UsbSendResponse(r)
  PROVE  /\ Min({r.len, Packet}) \in 0 .. Packet /\ Min({r.len, Packet}) <= r.len
         /\ buf' = Part(r.of, r.pos, Min({r.len, Packet}))
         /\ buf' \in Seq(Byte) /\ Len(buf') = Min({r.len, Packet})
         /\ g_response' = [of |-> r.of, pos |-> r.pos + Min({r.len, Packet}),
                           len |-> r.len - Min({r.len, Packet})]
         /\ ResponseType' /\ g_response'.pos + g_response'.len <= Size.device
<1> DEFINE n == Min({r.len, Packet})
<1>1. n \in 0 .. Packet /\ n <= r.len BY LeastOfTwo DEF Packet
<1>2. buf' = Part(r.of, r.pos, n)
      /\ g_response' = [r EXCEPT !.pos = @ + n, !.len = @ - n]
  BY DEF UsbSendResponse, Part
<1> HIDE DEF n
<1>3. g_response' = [of |-> r.of, pos |-> r.pos + n, len |-> r.len - n] BY <1>2
<1>4. Len(buf') = n /\ buf' \in Seq({r.of} \X Nat) BY <1>1, <1>2, PartLen
<1>5. buf' \in Seq(Byte)
  <2>1. {r.of} \X Nat \subseteq Byte BY DEF Byte
  <2> QED BY <1>4, <2>1
<1>6. ResponseType' /\ g_response'.pos + g_response'.len <= Size.device
  <2>1. r.pos + n \in 0 .. 18 /\ r.len - n \in 0 .. 18 /\ r.of \in {"none", "device", "hid"}
        /\ (r.pos + n) + (r.len - n) <= 18
    BY <1>1 DEF Size, Packet
  <2> QED BY <1>3, <2>1 DEF ResponseType, Size
<1> QED BY <1>1, <1>2, <1>3, <1>4, <1>5, <1>6 DEF n

LEMMA TotalType ==
  ASSUME ControlInv, req \in DOMAIN Size, phase # "idle"
  PROVE  want \in Nat /\ Total \in Nat /\ Total <= want /\ Total <= Size[req] /\ Size[req] \in 0 .. 18
<1>1. want \in Nat BY UsbControlAssumption DEF ControlInv, Stages
<1>2. Size[req] \in Nat /\ Size[req] \in 0 .. 18 BY DEF Size
<1> QED BY <1>1, <1>2, LeastOfTwo DEF Total

(* Before and between transfers there is nothing more to keep.             *)
LEMMA Between ==
  ASSUME ControlTypeOK, ResponseType, Stages, ~Under PROVE ControlInv
BY DEF ControlInv, DescriptorSent, ProtocolSent, FeatureTaken, ProtocolSet

LEMMA ControlInitInv == ControlInit => ControlInv
<1> SUFFICES ASSUME ControlInit PROVE ControlInv OBVIOUS
<1>1. ControlTypeOK
  <2>1. got \in Seq(Byte) /\ buf \in Seq(Byte) /\ Len(buf) = 0 BY DEF ControlInit
  <2>2. g_response.len = 0 /\ g_response.pos = 0 BY DEF ControlInit
  <2>3. Len(buf) <= Packet BY <2>1 DEF Packet
  <2>4. g_response.len \in 0 .. Size.device /\ g_response.pos + g_response.len <= Size.device
    BY <2>2 DEF Size
  <2> QED BY <2>1, <2>3, <2>4 DEF ControlInit, ControlTypeOK
<1>2. ResponseType BY DEF ControlInit, ResponseType, Size
<1>3. Stages /\ ~Under BY DEF ControlInit, Stages, Under
<1> QED BY <1>1, <1>2, <1>3, Between

LEMMA SetupKeeps ==
  ASSUME ControlInv, NEW r \in Request, NEW n \in WLength, Setup(r, n) PROVE ControlInv'
<1>1. /\ phase' = "setup" /\ req' = r /\ want' = n /\ got' = <<>> /\ irq' = {"setup"}
      /\ buf' = <<>> /\ ctl' = "nak" /\ UNCHANGED <<g_response, g_stall, proto, leds>>
  BY DEF Setup, firmware
<1>2. ControlTypeOK' BY <1>1 DEF ControlInv, ControlTypeOK, Packet
<1>3. ResponseType' BY <1>1 DEF ControlInv, ResponseType
<1>4. Stages' /\ ~Under' BY <1>1 DEF Stages, Under
<1> QED BY <1>2, <1>3, <1>4 DEF ControlInv, DescriptorSent, ProtocolSent, FeatureTaken, ProtocolSet

LEMMA DoneKeeps == ASSUME ControlInv, Done PROVE ControlInv'
<1>1. /\ phase' = "idle" /\ req' = "none" /\ want' = 0 /\ got' = <<>> /\ irq' = irq
      /\ buf' = <<>> /\ ctl' = "nak" /\ UNCHANGED <<g_response, g_stall, proto, leds>>
  BY DEF Done, firmware
<1>2. ControlTypeOK' BY <1>1 DEF ControlInv, ControlTypeOK, Packet
<1>3. ResponseType' BY <1>1 DEF ControlInv, ResponseType
<1>4. irq = {} BY DEF Done, Completed, Stalled, ControlInv, ControlTypeOK, Stages
<1>5. Stages' /\ ~Under' BY <1>1, <1>4 DEF Stages, Under
<1> QED BY <1>2, <1>3, <1>5 DEF ControlInv, DescriptorSent, ProtocolSent, FeatureTaken, ProtocolSet

LEMMA ControlResetKeeps == ASSUME ControlInv, ControlReset PROVE ControlInv'
<1>1. /\ phase' = "idle" /\ req' = "none" /\ want' = 0 /\ got' = <<>> /\ irq' = {}
      /\ buf' = <<>> /\ ctl' = "nak" /\ proto' = 1 /\ UNCHANGED <<g_response, g_stall, leds>>
  BY DEF ControlReset
<1>2. ControlTypeOK' BY <1>1 DEF ControlInv, ControlTypeOK, Packet
<1>3. ResponseType' BY <1>1 DEF ControlInv, ResponseType
<1>4. Stages' /\ ~Under' BY <1>1 DEF Stages, Under
<1> QED BY <1>2, <1>3, <1>4 DEF ControlInv, DescriptorSent, ProtocolSent, FeatureTaken, ProtocolSet

LEMMA StatusKeeps == ASSUME ControlInv, Status PROVE ControlInv'
<1> USE DEF ControlInv
<1>1. /\ phase = "status" /\ (req \in Reads \/ ctl = "dat_ack")
      /\ phase' = "wait" /\ irq' = irq \cup {"status"}
      /\ UNCHANGED <<req, want, got, buf, ctl, g_response, g_stall, proto, leds>>
  BY DEF Status, firmware
<1>2. irq \subseteq {"data"} /\ ctl \in {"nak", "dat_ack"} BY <1>1 DEF Stages
<1>3. ControlTypeOK' BY <1>1 DEF ControlTypeOK
<1>4. ResponseType' BY <1>1 DEF ResponseType
<1>5. Stages' BY <1>1, <1>2 DEF Stages, Under
<1>6. Under /\ Under' BY <1>1 DEF Under
<1>7. Total' = Total /\ InBuf' = 0 /\ InBuf = 0 BY <1>1 DEF Total, InBuf
<1>8. DescriptorSent' BY <1>1, <1>6, <1>7 DEF DescriptorSent, Part
<1>9. ProtocolSent' BY <1>1, <1>6 DEF ProtocolSent
<1>10. FeatureTaken'
  <2>1. req = "feature" => "data" \notin irq
    BY <1>1, <1>6 DEF FeatureTaken, Reads, Descriptor
  <2> QED BY <1>1, <1>6, <2>1 DEF FeatureTaken
<1>11. ProtocolSet' BY <1>1, <1>6 DEF ProtocolSet
<1> QED BY <1>3, <1>4, <1>5, <1>8, <1>9, <1>10, <1>11

LEMMA HandleStatusKeeps == ASSUME ControlInv, HandleStatus PROVE ControlInv'
<1> USE DEF ControlInv
<1>1. /\ irq = {"status"} /\ irq' = {} /\ ctl' = (IF g_stall THEN "sta_stall" ELSE "sta_ack")
      /\ UNCHANGED <<phase, req, want, got, buf, g_response, g_stall, proto, leds>>
  BY DEF HandleStatus, firmware, hostVars
<1>2. phase = "wait" /\ Under /\ Under' BY <1>1 DEF ControlTypeOK, Stages, Under
<1>3. ~g_stall /\ ctl' = "sta_ack" BY <1>1, <1>2 DEF Stages
<1>4. ControlTypeOK' BY <1>1 DEF ControlTypeOK
<1>5. ResponseType' BY <1>1 DEF ResponseType
<1>6. Stages' BY <1>1, <1>2, <1>3 DEF Stages, Under
<1>7. Total' = Total /\ InBuf' = 0 /\ InBuf = 0 BY <1>1, <1>2 DEF Total, InBuf
<1>8. DescriptorSent' BY <1>1, <1>2, <1>7 DEF DescriptorSent, Part
<1>9. ProtocolSent' BY <1>1, <1>2 DEF ProtocolSent
<1>10. FeatureTaken' BY <1>1, <1>2 DEF FeatureTaken
<1>11. ProtocolSet' BY <1>1, <1>2 DEF ProtocolSet
<1> QED BY <1>4, <1>5, <1>6, <1>8, <1>9, <1>10, <1>11

LEMMA DataOutKeeps == ASSUME ControlInv, NEW v \in {0, 1}, DataOut(v) PROVE ControlInv'
<1> USE DEF ControlInv
<1>1. /\ phase = "data" /\ req \in Writes /\ ctl = "dat_ack"
      /\ buf' = << <<"leds", v>> >> /\ got' = buf'
      /\ phase' = "status" /\ irq' = irq \cup {"data"} /\ ctl' = "nak"
      /\ UNCHANGED <<req, want, g_response, g_stall, proto, leds>>
  BY DEF DataOut, firmware
<1>2. Under /\ Under' BY <1>1 DEF Under
<1>3. irq = {} /\ ~g_stall /\ req = "feature"
  BY <1>1, <1>2 DEF Stages, Unsupported, Writes, Descriptor
<1>4. ControlTypeOK'
  <2>1. <<"leds", v>> \in Byte BY DEF Byte
  <2>2. buf' \in Seq(Byte) /\ Len(buf') = 1 BY <1>1, <2>1
  <2> QED BY <1>1, <2>2 DEF ControlTypeOK, Packet
<1>5. ResponseType' BY <1>1 DEF ResponseType
<1>6. Stages' BY <1>1, <1>2, <1>3 DEF Stages, Under, Unsupported
<1>7. DescriptorSent' /\ ProtocolSent' /\ ProtocolSet'
  BY <1>1, <1>3 DEF DescriptorSent, ProtocolSent, ProtocolSet, Size, SetProtocol
<1>8. FeatureTaken' BY <1>1, <1>3 DEF FeatureTaken
<1> QED BY <1>4, <1>5, <1>6, <1>7, <1>8

(* The host reads a packet: either there is more of the descriptor to      *)
(* send, or all of it has been moved.                                      *)
LEMMA DataInKeeps == ASSUME ControlInv, DataIn PROVE ControlInv'
<1> USE DEF ControlInv
<1>1. /\ phase = "data" /\ req \in Reads /\ ctl = "dat_ack" /\ got' = got \o buf
      /\ buf' = <<>> /\ ctl' = "nak"
      /\ UNCHANGED <<req, want, g_response, g_stall, proto, leds>>
  BY DEF DataIn, firmware
<1>2. \/ /\ Len(buf) < Packet \/ Len(got') >= want
         /\ phase' = "status" /\ irq' \in {irq, irq \cup {"data"}}
      \/ /\ Len(buf) = Packet /\ Len(got') < want
         /\ phase' = "data" /\ irq' = irq \cup {"data"}
  BY DEF DataIn
<1>3. Under /\ Under' BY <1>1, <1>2 DEF Under
<1>4. irq = {} /\ ~g_stall /\ req \notin Unsupported BY <1>1, <1>3 DEF Stages
<1>5. req = "getProtocol" => phase' = "status" /\ got' = << <<"proto", proto>> >>
  <2> SUFFICES ASSUME req = "getProtocol" PROVE phase' = "status" /\ got' = << <<"proto", proto>> >>
    OBVIOUS
  <2>1. got = <<>> /\ buf = << <<"proto", proto>> >> BY <1>1, <1>3 DEF ProtocolSent
  <2>2. Len(buf) = 1 BY <2>1
  <2>3. got' = << <<"proto", proto>> >> BY <1>1, <2>1
  <2> QED BY <1>2, <2>2, <2>3 DEF Packet
<1>6. ControlTypeOK'
  <2>1. got' \in Seq(Byte) BY <1>1 DEF ControlTypeOK
  <2>2. buf' \in Seq(Byte) /\ Len(buf') = 0 BY <1>1
  <2>3. irq' \subseteq {"setup", "data", "status"} BY <1>2 DEF ControlTypeOK
  <2> QED BY <1>1, <1>2, <2>1, <2>2, <2>3 DEF ControlTypeOK, Packet
<1>7. ResponseType' BY <1>1 DEF ResponseType
<1>8. Stages'
  BY <1>1, <1>2, <1>3, <1>4, <1>5 DEF Stages, Under, Reads
<1>9. DescriptorSent'
  <2> SUFFICES ASSUME req \in DOMAIN Size PROVE DescriptorSent' BY <1>1 DEF DescriptorSent
  <2> DEFINE m == Len(got)
             n == Min({Total - Len(got), Packet})
  <2>1. want \in Nat /\ Total \in Nat /\ Total <= want BY <1>1, TotalType
  <2>2. m \in Nat /\ m <= Total /\ got = Part(req, 0, m) /\ buf = Part(req, m, n)
        /\ g_response = [of |-> req, pos |-> m + n, len |-> Total - m - n]
    BY <1>1, <1>3 DEF DescriptorSent, InBuf, ControlTypeOK
  <2>3. n = (IF Total - m <= Packet THEN Total - m ELSE Packet) /\ n \in Nat /\ n <= Total - m
    BY <2>1, <2>2, LeastOfTwo DEF Packet
  <2>4. got' = Part(req, 0, m + n) /\ Len(got') = m + n /\ Len(buf) = n
    <3> HIDE DEF m, n
    <3>1. got' = Part(req, 0, m + n) BY <1>1, <2>2, <2>3, PartsJoin
    <3>2. m + n \in Nat BY <2>2, <2>3
    <3>3. Len(Part(req, 0, m + n)) = m + n BY <3>2, PartLen
    <3>4. Len(Part(req, m, n)) = n BY <2>2, <2>3, PartLen
    <3> QED BY <2>2, <3>1, <3>3, <3>4
  <2>5. Total' = Total /\ InBuf' = 0 BY <1>1 DEF Total, InBuf
  <2> HIDE DEF m, n
  <2>6. phase' # "data" => m + n = Total
    BY <1>2, <2>1, <2>2, <2>3, <2>4 DEF Packet
  <2>7. m + n <= Total BY <2>1, <2>2, <2>3
  <2>8. g_response' = [of |-> req', pos |-> Len(got') + InBuf', len |-> Total' - Len(got') - InBuf']
    <3>1. m + n + 0 = m + n /\ Total - (m + n) - 0 = Total - m - n BY <2>1, <2>2, <2>3
    <3> QED BY <1>1, <2>2, <2>4, <2>5, <3>1
  <2> QED BY <1>1, <2>4, <2>5, <2>6, <2>7, <2>8 DEF DescriptorSent, Part
<1>10. ProtocolSent' BY <1>1, <1>5 DEF ProtocolSent
<1>11. FeatureTaken' /\ ProtocolSet'
  BY <1>1 DEF FeatureTaken, ProtocolSet, Reads, Descriptor, SetProtocol
<1> QED BY <1>6, <1>7, <1>8, <1>9, <1>10, <1>11

-----------------------------------------------------------------------------
(* The handler of a request, for its SETUP or for a packet of its data.    *)
LEMMA DescriptorHandled ==
  ASSUME ControlInv, req \in Descriptor, phase # "idle", NEW b \in BOOLEAN, GetDescriptor(req, want, b)
  PROVE  /\ buf' \in Seq(Byte) /\ Len(buf') <= Packet /\ ResponseType'
         /\ g_response'.len \in 0 .. Size.device
         /\ g_response'.pos + g_response'.len <= Size.device
         /\ g_stall' = (b /\ req = "unknown") /\ UNCHANGED <<proto, leds>>
<1> DEFINE r == IF b THEN Prepared(req, want) ELSE g_response
<1>1. UsbSendResponse(r) /\ g_stall' = (b /\ req = "unknown") /\ UNCHANGED <<proto, leds>>
  BY DEF GetDescriptor
<1>2. g_response \in [of : {"none", "device", "hid"}, pos : 0 .. 18, len : 0 .. 18]
      /\ g_response.pos + g_response.len <= 18
  BY DEF ControlInv, ControlTypeOK, ResponseType, Size
<1>3. want \in Nat BY UsbControlAssumption DEF ControlInv, Stages
<1>4. r \in [of : {"none", "device", "hid"}, pos : Nat, len : Nat] /\ r.pos + r.len <= 18
  <2>1. CASE ~b BY <1>2, <2>1
  <2>2. CASE b /\ req \in DOMAIN Size
    <3>1. Size[req] \in 0 .. 18 /\ req \in {"device", "hid"} BY <2>2 DEF Size
    <3>2. Min({Size[req], want}) \in 0 .. 18 BY <1>3, <3>1, LeastOfTwo
    <3>3. r = [of |-> req, pos |-> 0, len |-> Min({Size[req], want})]
      BY <2>2, <3>1 DEF Prepared
    <3> QED BY <3>1, <3>2, <3>3
  <2>3. CASE b /\ req = "unknown"
    <3>1. Min({0, want}) = 0 BY <1>3, LeastOfTwo
    <3>2. r = [of |-> "none", pos |-> 0, len |-> Min({0, want})]
      BY <2>3 DEF Prepared, Size
    <3> HIDE DEF r
    <3> QED BY <3>1, <3>2
  <2>4. CASE b /\ req = "hidOther"
    <3>1. Min({g_response.len, want}) \in 0 .. 18 /\ Min({g_response.len, want}) <= g_response.len
      BY <1>2, <1>3, LeastOfTwo
    <3>2. r = [g_response EXCEPT !.len = Min({g_response.len, want})]
      BY <2>4 DEF Prepared, Size
    <3>3. r = [of |-> g_response.of, pos |-> g_response.pos, len |-> Min({g_response.len, want})]
      BY <1>2, <3>2
    <3> HIDE DEF r
    <3> QED BY <1>2, <3>1, <3>3
  <2> QED BY <2>1, <2>2, <2>3, <2>4 DEF Descriptor, Size
<1> HIDE DEF r
<1>5. r.pos + r.len <= Size.device BY <1>4 DEF Size
<1>6. /\ buf' \in Seq(Byte) /\ Len(buf') \in 0 .. Packet
      /\ ResponseType' /\ g_response'.pos + g_response'.len <= Size.device
  BY <1>1, <1>4, <1>5, SendsPart
<1>7. g_response'.len \in 0 .. Size.device BY <1>6 DEF ResponseType
<1>8. Len(buf') <= Packet
  <2>1. Len(buf') \in 0 .. 8 BY <1>6 DEF Packet
  <2>2. \A i \in 0 .. 8 : i <= 8 OBVIOUS
  <2> QED BY <2>1, <2>2 DEF Packet
<1> QED BY <1>1, <1>6, <1>7, <1>8

(* What the handler leaves is well typed, and it stalls what it does not   *)
(* support.                                                                *)
LEMMA RequestHandled ==
  ASSUME ControlInv, phase # "idle", NEW b \in BOOLEAN, UsbHandleRequest(req, want, b),
         ~b => Under /\ "data" \in irq
  PROVE  /\ buf' \in Seq(Byte) /\ Len(buf') <= Packet /\ ResponseType'
         /\ g_response'.len \in 0 .. Size.device
         /\ g_response'.pos + g_response'.len <= Size.device
         /\ g_stall' \in BOOLEAN /\ proto' \in {0, 1} /\ leds' \in {0, 1}
         /\ g_stall' <=> req \in Unsupported
<1> USE DEF ControlInv
<1>1. CASE req \in Descriptor
  <2>1. GetDescriptor(req, want, b)
    BY <1>1 DEF UsbHandleRequest, Descriptor, Writes, SetProtocol
  <2>2. ~b => req \notin Unsupported
    BY DEF Stages
  <2>3. req \in Unsupported <=> req = "unknown" BY <1>1 DEF Unsupported, Descriptor
  <2> QED BY <1>1, <2>1, <2>2, <2>3, DescriptorHandled DEF ControlTypeOK
<1>2. CASE req = "getProtocol"
  <2>1. GetProtocol BY <1>2 DEF UsbHandleRequest, Descriptor, Writes, SetProtocol
  <2>2. <<"proto", proto>> \in Byte BY DEF ControlTypeOK, Byte
  <2>3. buf' \in Seq(Byte) /\ Len(buf') <= Packet BY <2>1, <2>2 DEF GetProtocol, Packet
  <2> QED BY <1>2, <2>1, <2>3 DEF GetProtocol, ControlTypeOK, ResponseType, Unsupported
<1>3. CASE req \in Writes \cup DOMAIN SetProtocol
  <2>1. OutClass(req, b) BY <1>3 DEF UsbHandleRequest, Descriptor, Writes, SetProtocol
  <2>2. proto' \in {0, 1} BY <2>1 DEF OutClass, ControlTypeOK, SetProtocol
  <2>3. leds' \in {0, 1}
    <3>1. CASE req = "feature" /\ ~b
      <4>1. phase # "data" BY <3>1 DEF Stages, Descriptor
      <4>2. PICK v \in {0, 1} : buf = << <<"leds", v>> >>
        BY <3>1, <4>1 DEF FeatureTaken
      <4>3. leds' = v BY <2>1, <3>1, <4>2 DEF OutClass
      <4> QED BY <4>3
    <3>2. CASE ~(req = "feature" /\ ~b)
      BY <2>1, <3>2 DEF OutClass, ControlTypeOK
    <3> QED BY <3>1, <3>2
  <2>4. g_stall' = (req = "badReport") /\ UNCHANGED <<buf, g_response>> BY <2>1 DEF OutClass
  <2> QED BY <1>3, <2>2, <2>3, <2>4 DEF ControlTypeOK, ResponseType, Unsupported, Writes, SetProtocol
<1> QED BY <1>1, <1>2, <1>3 DEF UsbHandleRequest

(* The SETUP: the answer begins with the first byte.                       *)
LEMMA HandleSetupKeeps == ASSUME ControlInv, HandleSetup PROVE ControlInv'
<1> USE DEF ControlInv
<1>1. /\ "setup" \in irq /\ irq' = irq \ {"setup"} /\ UsbHandleRequest(req, want, TRUE)
      /\ ctl' = (IF g_stall' THEN "dat_stall" ELSE "dat_ack")
      /\ phase' = (IF req \in DOMAIN SetProtocol THEN "status" ELSE "data")
      /\ UNCHANGED <<req, want, got>>
  BY DEF HandleSetup, DatAnswer
<1>2. phase = "setup" /\ irq' = {} /\ got = <<>> /\ req \in Request /\ want \in WLength
  BY <1>1 DEF Stages, ControlTypeOK
<1>3. /\ buf' \in Seq(Byte) /\ Len(buf') <= Packet /\ ResponseType'
      /\ g_response'.len \in 0 .. Size.device /\ g_response'.pos + g_response'.len <= Size.device
      /\ g_stall' \in BOOLEAN /\ proto' \in {0, 1} /\ leds' \in {0, 1}
      /\ g_stall' <=> req \in Unsupported
  BY <1>1, <1>2, RequestHandled
<1>4. ControlTypeOK' BY <1>1, <1>2, <1>3 DEF ControlTypeOK
<1>5. Under' BY <1>1 DEF Under
<1>6. Stages'
  BY <1>1, <1>2, <1>3 DEF Stages, Under, Unsupported, SetProtocol
<1>7. DescriptorSent'
  <2> SUFFICES ASSUME req \in DOMAIN Size PROVE DescriptorSent' BY <1>1 DEF DescriptorSent
  <2>0. req \in {"device", "hid"} BY DEF Size
  <2>1. want \in Nat /\ Total \in Nat /\ Total <= Size[req] /\ Size[req] \in 0 .. 18
    BY <1>2, TotalType
  <2>2. GetDescriptor(req, want, TRUE)
    BY <1>1, <2>0 DEF UsbHandleRequest, Descriptor, Writes, SetProtocol
  <2>3. Prepared(req, want) = [of |-> req, pos |-> 0, len |-> Total] BY DEF Prepared, Total
  <2>4. UsbSendResponse([of |-> req, pos |-> 0, len |-> Total]) BY <2>2, <2>3 DEF GetDescriptor
  <2>5. Total <= Size.device BY <2>1 DEF Size
  <2> DEFINE n == Min({Total, Packet})
  <2>6. /\ n \in 0 .. Packet /\ n <= Total /\ buf' = Part(req, 0, n)
        /\ g_response' = [of |-> req, pos |-> 0 + n, len |-> Total - n]
    BY <2>0, <2>1, <2>4, <2>5, SendsPart
  <2>7. ctl' = "dat_ack" /\ phase' = "data"
    BY <1>1, <1>3, <2>0 DEF Unsupported, SetProtocol
  <2>8. Total' = Total /\ Len(got') = 0 BY <1>1, <1>2 DEF Total
  <2>9. InBuf' = n
    <3>1. Total - 0 = Total BY <2>1
    <3> QED BY <2>7, <2>8, <3>1 DEF InBuf
  <2>10. got' = Part(req, 0, 0) BY <1>1, <1>2 DEF Part
  <2> HIDE DEF n
  <2>11. Total - 0 - n = Total - n /\ 0 <= Total BY <2>1, <2>6 DEF Packet
  <2> QED BY <1>1, <2>6, <2>7, <2>8, <2>9, <2>10, <2>11 DEF DescriptorSent, Part
<1>8. ProtocolSent'
  <2> SUFFICES ASSUME req = "getProtocol" PROVE ProtocolSent' BY <1>1 DEF ProtocolSent
  <2>1. GetProtocol BY <1>1 DEF UsbHandleRequest, Descriptor, Writes, SetProtocol
  <2> QED BY <1>1, <1>2, <2>1 DEF ProtocolSent, GetProtocol, SetProtocol
<1>9. FeatureTaken' BY <1>1 DEF FeatureTaken, SetProtocol
<1>10. ProtocolSet'
  <2> SUFFICES ASSUME req \in DOMAIN SetProtocol PROVE ProtocolSet' BY <1>1 DEF ProtocolSet
  <2>1. OutClass(req, TRUE) BY <1>1 DEF UsbHandleRequest, Descriptor, SetProtocol
  <2> QED BY <1>1, <1>2, <2>1 DEF ProtocolSet, OutClass
<1> QED BY <1>3, <1>4, <1>6, <1>7, <1>8, <1>9, <1>10

(* A packet of data: the answer goes on where it was.                      *)
LEMMA HandleDataKeeps == ASSUME ControlInv, HandleData PROVE ControlInv'
<1> USE DEF ControlInv
<1>1. /\ "data" \in irq /\ "setup" \notin irq /\ irq' = irq \ {"data"}
      /\ UsbHandleRequest(req, want, FALSE)
      /\ ctl' = (IF g_stall' THEN "dat_stall" ELSE "dat_ack")
      /\ UNCHANGED <<phase, req, want, got>>
  BY DEF HandleData, DatAnswer, hostVars
<1>2. Under /\ Under' /\ phase # "idle" BY <1>1 DEF Stages, Under, ControlTypeOK
<1>3. /\ buf' \in Seq(Byte) /\ Len(buf') <= Packet /\ ResponseType'
      /\ g_response'.len \in 0 .. Size.device /\ g_response'.pos + g_response'.len <= Size.device
      /\ g_stall' \in BOOLEAN /\ proto' \in {0, 1} /\ leds' \in {0, 1}
      /\ g_stall' <=> req \in Unsupported
  BY <1>1, <1>2, RequestHandled
<1>4. ControlTypeOK' BY <1>1, <1>3 DEF ControlTypeOK
<1>5. req \notin Unsupported BY <1>1, <1>2 DEF Stages
<1>6. Stages'
  BY <1>1, <1>2, <1>3, <1>5 DEF Stages, Under
<1>7. DescriptorSent'
  <2> SUFFICES ASSUME req \in DOMAIN Size PROVE DescriptorSent' BY <1>1 DEF DescriptorSent
  <2>0. req \in {"device", "hid"} BY DEF Size
  <2> DEFINE m == Len(got)
  <2>1. want \in Nat /\ Total \in Nat /\ Total <= Size[req] /\ Size[req] \in 0 .. 18
    BY <1>2, TotalType
  <2>2. InBuf = 0 BY <1>1 DEF InBuf, Stages
  <2>3. m \in Nat /\ m <= Total /\ got = Part(req, 0, m) /\ (phase # "data" => m = Total)
    BY <1>2 DEF DescriptorSent, ControlTypeOK
  <2>4. g_response = [of |-> req, pos |-> m, len |-> Total - m]
    <3>1. m + 0 = m /\ Total - m - 0 = Total - m BY <2>1, <2>3
    <3> QED BY <1>2, <2>2, <3>1 DEF DescriptorSent
  <2>5. UsbSendResponse(g_response)
    BY <1>1, <2>0 DEF UsbHandleRequest, Descriptor, Writes, SetProtocol, GetDescriptor
  <2> DEFINE n == Min({Total - m, Packet})
  <2> HIDE DEF m
  <2>6. /\ n \in 0 .. Packet /\ n <= Total - m /\ buf' = Part(req, m, n)
        /\ g_response' = [of |-> req, pos |-> m + n, len |-> Total - m - n]
    <3>1. [of |-> req, pos |-> m, len |-> Total - m] \in [of : {"none", "device", "hid"}, pos : Nat, len : Nat]
      BY <2>0, <2>1, <2>3
    <3>2. m + (Total - m) <= Size.device BY <2>1, <2>3 DEF Size
    <3> QED BY <2>4, <2>5, <3>1, <3>2, SendsPart
  <2>7. ctl' = "dat_ack" BY <1>1, <1>3, <1>5
  <2>8. Total' = Total /\ Len(got') = m BY <1>1 DEF Total, m
  <2>9. InBuf' = n
    <3>1. CASE phase = "data" BY <1>1, <2>7, <2>8, <3>1 DEF InBuf
    <3>2. CASE phase # "data"
      <4>1. Total - m = 0 BY <2>1, <2>3, <3>2
      <4>2. n = 0 BY <4>1, LeastOfTwo DEF Packet
      <4> QED BY <1>1, <3>2, <4>2 DEF InBuf
    <3> QED BY <3>1, <3>2
  <2> HIDE DEF n
  <2> QED BY <1>1, <2>3, <2>6, <2>8, <2>9 DEF DescriptorSent, Part
<1>8. ProtocolSent'
  <2> SUFFICES ASSUME req = "getProtocol" PROVE ProtocolSent' BY <1>1 DEF ProtocolSent
  <2>1. GetProtocol BY <1>1 DEF UsbHandleRequest, Descriptor, Writes, SetProtocol
  <2> QED BY <1>1, <1>2, <2>1 DEF ProtocolSent, GetProtocol
<1>9. FeatureTaken'
  <2> SUFFICES ASSUME req = "feature", phase # "data" PROVE FeatureTaken' BY <1>1 DEF FeatureTaken
  <2>1. OutClass(req, FALSE)
    BY <1>1 DEF UsbHandleRequest, Descriptor
  <2>2. PICK v \in {0, 1} : got = << <<"leds", v>> >> /\ buf = got
    BY <1>1, <1>2 DEF FeatureTaken
  <2>3. leds' = v BY <2>1, <2>2 DEF OutClass
  <2> QED BY <1>1, <2>2, <2>3 DEF FeatureTaken
<1>10. ProtocolSet' BY <1>1, <1>2 DEF ProtocolSet
<1> QED BY <1>3, <1>4, <1>6, <1>7, <1>8, <1>9, <1>10

LEMMA ControlStutter == ControlInv /\ UNCHANGED controlVars => ControlInv'
<1> SUFFICES ASSUME ControlInv, UNCHANGED controlVars PROVE ControlInv' OBVIOUS
<1>1. UNCHANGED <<phase, req, want, got, irq, buf, ctl, g_response, g_stall, proto, leds>>
  BY DEF controlVars, hostVars, endpoint, firmware
<1>2. Total' = Total /\ InBuf' = InBuf BY <1>1 DEF Total, InBuf
<1> QED BY <1>1, <1>2 DEF ControlInv, ControlTypeOK, ResponseType, Stages, Under, DescriptorSent,
       ProtocolSent, FeatureTaken, ProtocolSet, Part

LEMMA ControlStep == ControlInv /\ [Next]_vars => ControlInv'
<1> SUFFICES ASSUME ControlInv, [Next]_vars PROVE ControlInv' OBVIOUS
<1>1. CASE UsbSetup BY <1>1, HandleSetupKeeps DEF UsbSetup
<1>2. CASE Control
  BY <1>2, SetupKeeps, DataInKeeps, DataOutKeeps, StatusKeeps, DoneKeeps, HandleDataKeeps,
     HandleStatusKeeps DEF Control
<1>3. CASE Keyboard BY <1>3, ControlStutter DEF Keyboard
<1>4. CASE UsbReset BY <1>4, ControlResetKeeps DEF UsbReset
<1>5. CASE UNCHANGED vars BY <1>5, ControlStutter DEF vars
<1> QED BY <1>1, <1>2, <1>3, <1>4, <1>5 DEF Next

(* What makes up the answer when a transfer completes.                     *)
LEMMA ControlAnswers == ControlInv => AnswersOwnRequest
<1> SUFFICES ASSUME ControlInv PROVE AnswersOwnRequest OBVIOUS
<1> USE DEF ControlInv
<1>1. ASSUME req # "hidOther", Completed PROVE Answer
  <2>1. phase = "wait" /\ ctl = "sta_ack" /\ irq = {} /\ Under /\ req \in Request /\ req \notin Unsupported
    BY <1>1 DEF Completed, Stages, Under
  <2>2. req \in DOMAIN Size => got = Part(req, 0, Total)
    BY <2>1 DEF DescriptorSent
  <2>3. Total \in Nat => Part(req, 0, Total) = [k \in 1 .. Total |-> <<req, k>>] BY DEF Part
  <2>4. req \in DOMAIN Size => Total \in Nat BY <2>1, TotalType
  <2>5. req = "getProtocol" => got = << <<"proto", proto>> >> BY <2>1 DEF ProtocolSent
  <2>6. req = "feature" => got = << <<"leds", leds>> >> BY <2>1 DEF FeatureTaken
  <2>7. req \in DOMAIN SetProtocol => proto = SetProtocol[req] BY <2>1 DEF ProtocolSet
  <2>8. req \in DOMAIN Size \cup {"getProtocol", "feature"} \cup DOMAIN SetProtocol
    BY <1>1, <2>1 DEF Request, Reads, Writes, Descriptor, Unsupported, Size
  <2> QED BY <2>2, <2>3, <2>4, <2>5, <2>6, <2>7, <2>8 DEF Answer, Total
<1>2. ASSUME phase # "idle", Stalled PROVE req \in Unsupported
  BY <1>2 DEF Stalled, Stages, Under, ControlTypeOK
<1> QED BY <1>1, <1>2 DEF AnswersOwnRequest

-----------------------------------------------------------------------------
LEMMA AllSteps == Spec => [](ControlInv /\ ReportInv)
<1>1. Init => ControlInv /\ ReportInv BY ControlInitInv, ReportInitInv DEF Init
<1>2. ControlInv /\ ReportInv /\ [Next]_vars => (ControlInv /\ ReportInv)'
  BY ControlStep, ReportStep
<1> QED BY <1>1, <1>2, PTL DEF Spec

(* Types, and usbkb.c:97-122, 204-242: whatever reports are refused, a key *)
(* the host sees or is about to see pressed is marked to be released.      *)
THEOREM TypesAndReleases == Spec => []UsbInv
<1>1. ControlInv /\ ReportInv => UsbInv BY DEF ControlInv, ReportInv, UsbInv
<1> QED BY <1>1, AllSteps, PTL

(* usbkb.c:284-299: for any keys, one report taken whole makes up for all  *)
(* that were refused before it.                                            *)
THEOREM OneReportMakesUp == Spec => []FollowsWhenTaken
<1>1. ReportInv => FollowsWhenTaken
  BY DEF ReportInv, TakenInv, FollowsWhenTaken
<1> QED BY <1>1, AllSteps, PTL

(* usb.c:66-83, 560-585, 646-676: for any wLength, a transfer that         *)
(* completes has moved what its own request asks for, whole and in order,  *)
(* and only a request that is not supported is stalled.                    *)
THEOREM OwnRequestAnswered == Spec => []AnswersOwnRequest
<1>1. ControlInv => AnswersOwnRequest BY ControlAnswers
<1> QED BY <1>1, AllSteps, PTL
=============================================================================
