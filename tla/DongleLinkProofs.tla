-------------------------- MODULE DongleLinkProofs ---------------------------
(***************************************************************************)
(* Proofs about the host of the dongle, for any slaves, any discovery, any *)
(* bond table and any number of events on their way to the host.           *)
(***************************************************************************)
EXTENDS DongleLink, SequenceTheorems, TLAPS

-----------------------------------------------------------------------------
(* The events on their way: a connection is reported first, its end last.  *)
Event == {"establish", "disconnect", "answer", "stray"} \cup Key
Shape(q) == \A i \in 1 .. Len(q) : /\ q[i] = "establish" => i = 1
                                   /\ q[i] = "disconnect" => i = Len(q)
Opens(q) == q # <<>> /\ q[1] = "establish"
Ends(q) == q # <<>> /\ q[Len(q)] = "disconnect"
HasAnswer(q) == \E i \in 1 .. Len(q) : q[i] = "answer"

(* What the host takes for the connection is the one the events are of.    *)
EvtInv ==
  /\ Shape(evt)
  /\ link \in {"scan", "init", "up"} => evt = <<>> /\ ~conn
  /\ link = "idle" <=> Ends(evt)
  /\ link = "conn" => Len(evt) <= MaxEvt /\ (conn \/ Opens(evt))
  /\ conn => ~Opens(evt) /\ cur = peer
  /\ ~conn /\ ~Opens(evt) => Len(evt) <= 1
  /\ ask => link = "conn" /\ conn
  /\ HasAnswer(evt) => conn
  /\ link # "scan" => peer \in Slave

(* The link that is being made is one the host asked for, to a slave that  *)
(* is or will be in the table; a disconnection is over before the next.    *)
BondInv ==
  /\ ConnectedIsBonded /\ HeldByPeer /\ DisconnectingThisLink
  /\ link \in {"init", "up", "conn"} /\ ~conn =>
       /\ manual \/ auto
       /\ auto => peer \in Range(bonds)
  /\ disconnecting /\ link = "scan" => at \in {"button", "unpair"}
  /\ link = "init" => ~disconnecting

(* An answer can still come: only to a discovery of this connection, while *)
(* one is pending.  One whose link is gone never has its answer: it ends   *)
(* on its timeout, or goes on with a response nobody asked for.            *)
Awaited == ask \/ HasAnswer(evt)
SdpInv ==
  /\ PendingIsServed /\ HandlesOfKnown
  /\ Awaited /\ pending = SDP_PENDING => disc.on
  /\ disc.on /\ Awaited => disc.got \subseteq {cur} \/ 0 \in disc.got
  /\ disc.on /\ ~busy => /\ disc.got = {cur} \/ 0 \in disc.got
                         /\ conn \/ (link = "scan" /\ at # "sdk")

DongleInv == TypeOK /\ EvtInv /\ BondInv /\ SdpInv
-----------------------------------------------------------------------------
(* One event less at the head of the queue, and one more at its end.       *)
LEMMA Popped ==
  ASSUME NEW q \in Seq(Event), q # <<>>, Shape(q)
  PROVE  /\ Tail(q) \in Seq(Event) /\ Len(Tail(q)) = Len(q) - 1 /\ Len(q) >= 1 /\ Head(q) \in Event
         /\ Shape(Tail(q)) /\ ~Opens(Tail(q))
         /\ HasAnswer(Tail(q)) => HasAnswer(q)
         /\ Head(q) = "answer" => HasAnswer(q)
         /\ Head(q) = "establish" <=> Opens(q)
         /\ Head(q) = "disconnect" => Ends(q) /\ Tail(q) = <<>>
         /\ Head(q) # "disconnect" => (Ends(Tail(q)) <=> Ends(q))
         /\ ~HasAnswer(<<>>) /\ ~Ends(<<>>) /\ ~Opens(<<>>)
<1> DEFINE t == Tail(q)
           n == Len(q)
<1>1. /\ n \in Nat /\ n >= 1 /\ t \in Seq(Event) /\ Len(t) = n - 1
      /\ Head(q) = q[1] /\ q[1] \in Event
      /\ \A i \in 1 .. (n - 1) : t[i] = q[i + 1]
  OBVIOUS
<1>2. \A i \in 1 .. n : (q[i] = "establish" => i = 1) /\ (q[i] = "disconnect" => i = n)
  BY DEF Shape
<1>3. \A i \in 1 .. (n - 1) : i + 1 \in 1 .. n /\ i + 1 # 1
  BY <1>1
<1> HIDE DEF t, n
<1>4. Shape(t)
  <2>1. ASSUME NEW i \in 1 .. (n - 1)
        PROVE  t[i] # "establish" /\ (t[i] = "disconnect" => i = n - 1)
    <3>1. i + 1 \in 1 .. n /\ i + 1 # 1 /\ t[i] = q[i + 1]
      BY <1>1, <1>3
    <3>2. (q[i + 1] = "establish" => i + 1 = 1) /\ (q[i + 1] = "disconnect" => i + 1 = n)
      BY <1>2, <3>1, Zenon
    <3>3. i + 1 = n => i = n - 1
      BY <1>1
    <3> QED BY <3>1, <3>2, <3>3, Zenon
  <2> QED BY <1>1, <2>1 DEF Shape
<1>5. ~Opens(t)
  <2>1. SUFFICES ASSUME t # <<>>, t[1] = "establish" PROVE FALSE
    BY DEF Opens
  <2>2. Len(t) # 0
    BY <1>1, <2>1, EmptySeq
  <2>3. 1 \in 1 .. (n - 1)
    BY <1>1, <2>2
  <2> QED BY <1>1, <1>2, <1>3, <2>1, <2>3
<1>6. HasAnswer(t) => HasAnswer(q)
  BY <1>1, <1>3 DEF HasAnswer, n
<1>7. Head(q) = "answer" => HasAnswer(q)
  <2>1. 1 \in 1 .. Len(q)
    BY <1>1 DEF n
  <2> QED BY <1>1, <2>1 DEF HasAnswer
<1>8. Head(q) = "establish" <=> Opens(q)
  BY <1>1 DEF Opens
<1>9. Head(q) = "disconnect" => Ends(q) /\ t = <<>>
  <2>1. SUFFICES ASSUME q[1] = "disconnect" PROVE Ends(q) /\ t = <<>>
    BY <1>1
  <2>2. n = 1
    BY <1>1, <1>2, <2>1
  <2>3. t = <<>>
    BY <1>1, <2>2, EmptySeq
  <2> QED BY <2>1, <2>2, <2>3 DEF Ends, n
<1>10. ASSUME Head(q) # "disconnect" PROVE Ends(t) <=> Ends(q)
  <2>1. CASE n = 1
    <3>1. t = <<>>
      BY <1>1, <2>1, EmptySeq
    <3> QED BY <1>1, <1>10, <2>1, <3>1 DEF Ends, n
  <2>2. CASE n # 1
    <3>1. n - 1 \in 1 .. (n - 1) /\ (n - 1) + 1 = n /\ Len(t) # 0
      BY <1>1, <2>2
    <3>2. t[n - 1] = q[n]
      BY <1>1, <3>1
    <3>3. t # <<>>
      BY <3>1, EmptySeq
    <3> QED BY <1>1, <3>2, <3>3 DEF Ends, n
  <2> QED BY <2>1, <2>2
<1>11. ~HasAnswer(<<>>) /\ ~Ends(<<>>) /\ ~Opens(<<>>)
  BY DEF HasAnswer, Ends, Opens
<1> QED BY <1>1, <1>4, <1>5, <1>6, <1>7, <1>8, <1>9, <1>10, <1>11 DEF t, n

LEMMA Pushed ==
  ASSUME NEW q \in Seq(Event), Shape(q), ~Ends(q), NEW e \in Event,
         e = "establish" => q = <<>>
  PROVE  /\ Append(q, e) \in Seq(Event) /\ Len(Append(q, e)) = Len(q) + 1
         /\ Shape(Append(q, e))
         /\ HasAnswer(Append(q, e)) => HasAnswer(q) \/ e = "answer"
         /\ Ends(Append(q, e)) <=> e = "disconnect"
         /\ Opens(q) => Opens(Append(q, e))
         /\ Opens(Append(q, e)) => Opens(q) \/ e = "establish"
         /\ e = "establish" => Opens(Append(q, e))
<1> DEFINE t == Append(q, e)
           n == Len(q)
<1>1. /\ n \in Nat /\ t \in Seq(Event) /\ Len(t) = n + 1 /\ t[n + 1] = e
      /\ \A i \in 1 .. n : t[i] = q[i]
  OBVIOUS
<1>2. \A i \in 1 .. n : (q[i] = "establish" => i = 1) /\ (q[i] = "disconnect" => i = n)
  BY DEF Shape
<1>3. \A i \in 1 .. (n + 1) : i \in 1 .. n \/ i = n + 1
  BY <1>1
<1>4. \A i \in 1 .. n : q[i] # "disconnect"
  <2>1. ASSUME NEW i \in 1 .. n, q[i] = "disconnect" PROVE FALSE
    <3>1. i = n /\ n # 0
      BY <1>1, <1>2, <2>1
    <3>2. q # <<>>
      BY <3>1
    <3> QED BY <2>1, <3>1, <3>2 DEF Ends
  <2> QED BY <2>1
<1>5. e = "establish" => n = 0
  OBVIOUS
<1>6. q # <<>> => 1 \in 1 .. n
  BY <1>1, EmptySeq
<1>7. q = <<>> => n = 0
  OBVIOUS
<1>8. t # <<>>
  <2>1. Len(t) # 0
    BY <1>1
  <2> QED BY <2>1
<1> HIDE DEF t, n
<1>9. Shape(t)
  <2>1. ASSUME NEW i \in 1 .. (n + 1)
        PROVE  (t[i] = "establish" => i = 1) /\ (t[i] = "disconnect" => i = n + 1)
    BY <1>1, <1>2, <1>3, <1>4, <1>5
  <2> QED BY <1>1, <2>1 DEF Shape
<1>10. HasAnswer(t) => HasAnswer(q) \/ e = "answer"
  <2>1. ASSUME NEW i \in 1 .. (n + 1), t[i] = "answer" PROVE HasAnswer(q) \/ e = "answer"
    <3>1. CASE i \in 1 .. n
      BY <1>1, <2>1, <3>1 DEF HasAnswer, n
    <3>2. CASE i = n + 1
      BY <1>1, <2>1, <3>2
    <3> QED BY <1>3, <3>1, <3>2
  <2> QED BY <1>1, <2>1 DEF HasAnswer
<1>11. Ends(t) <=> e = "disconnect"
  BY <1>1, <1>8 DEF Ends
<1>12. q # <<>> => t[1] = q[1]
  BY <1>1, <1>6
<1>13. q = <<>> => t[1] = e
  BY <1>1, <1>7
<1>14. /\ Opens(q) => Opens(t)
       /\ Opens(t) => Opens(q) \/ e = "establish"
       /\ e = "establish" => Opens(t)
  BY <1>8, <1>12, <1>13 DEF Opens
<1> QED BY <1>1, <1>9, <1>10, <1>11, <1>14 DEF t, n

(* The table keeps its size, and the slave that is added is in it.         *)
LEMMA BondAdded ==
  ASSUME NEW b \in Seq(Slave), Len(b) <= MaxBonds, NEW s \in Slave
  PROVE  BondAdd(b, s) \in Seq(Slave) /\ Len(BondAdd(b, s)) <= MaxBonds /\ s \in Range(BondAdd(b, s))
<1> DEFINE c == IF Len(b) >= MaxBonds THEN Tail(b) ELSE b
<1>1. c \in Seq(Slave) /\ Len(c) + 1 <= MaxBonds
  <2>1. Len(b) \in Nat /\ MaxBonds \in Nat /\ MaxBonds >= 1
    BY BoundAssumption
  <2>2. CASE Len(b) >= MaxBonds
    <3>1. b # <<>>
      BY <2>1, <2>2
    <3>2. Tail(b) \in Seq(Slave) /\ Len(Tail(b)) = Len(b) - 1
      BY <3>1, HeadTailProperties
    <3> QED BY <2>1, <2>2, <3>2
  <2>3. CASE ~(Len(b) >= MaxBonds)
    BY <2>1, <2>3
  <2> QED BY <2>2, <2>3
<1>2. BondAdd(b, s) = Append(c, s)
  BY DEF BondAdd
<1> HIDE DEF c
<1>3. /\ Append(c, s) \in Seq(Slave) /\ Len(Append(c, s)) = Len(c) + 1
      /\ Append(c, s)[Len(c) + 1] = s /\ Len(c) + 1 \in 1 .. Len(Append(c, s))
  BY <1>1
<1>4. DOMAIN Append(c, s) = 1 .. Len(Append(c, s))
  BY <1>3
<1>5. s \in Range(Append(c, s))
  BY <1>3, <1>4 DEF Range
<1> QED BY <1>1, <1>2, <1>3, <1>5
-----------------------------------------------------------------------------
(* Types.                                                                  *)
LEMMA TypeFacts ==
  ASSUME TypeOK
  PROVE  /\ evt \in Seq(Event) /\ Len(evt) \in Nat /\ MaxEvt \in Nat /\ MaxEvt >= 1
         /\ <<>> \in Seq(Event) /\ Len(<<>>) = 0
         /\ link \in {"idle", "scan", "init", "up", "conn"}
BY BoundAssumption DEF TypeOK, Event

(* What comes from a slave comes on the connection the host knows.         *)
LEMMA HeadIsConnected ==
  ASSUME TypeOK, EvtInv, evt # <<>>, Head(evt) \in {"answer", "stray"} \cup Key
  PROVE  conn /\ cur = peer /\ peer \in Slave
<1>0. evt \in Seq(Event) /\ Shape(evt) /\ link \in {"idle", "scan", "init", "up", "conn"}
  BY TypeFacts DEF EvtInv
<1>1. /\ Head(evt) = evt[1] /\ ~Opens(evt) /\ Len(evt) \in Nat
      /\ evt[1] # "disconnect" /\ evt[1] # "establish"
  BY <1>0, Popped DEF Key
<1>2. CASE link = "idle" /\ ~conn
  <2>1. Len(evt) = 1 /\ evt[Len(evt)] = "disconnect"
    BY <1>0, <1>1, <1>2, EmptySeq DEF EvtInv, Ends
  <2> QED BY <1>1, <2>1
<1>3. CASE link # "idle" \/ conn
  BY <1>0, <1>1, <1>3 DEF EvtInv
<1> QED BY <1>2, <1>3

LEMMA EvtStep == ASSUME TypeOK, EvtInv, SdpInv, Next PROVE EvtInv' /\ evt' \in Seq(Event) /\ Len(evt') <= MaxEvt + 1
<1>0. /\ evt \in Seq(Event) /\ Len(evt) \in Nat /\ MaxEvt \in Nat /\ MaxEvt >= 1 /\ Len(evt) <= MaxEvt + 1
      /\ <<>> \in Seq(Event) /\ Len(<<>>) = 0
      /\ link \in {"idle", "scan", "init", "up", "conn"} /\ peer \in Slave \cup {0}
  BY TypeFacts DEF TypeOK
<1>00. /\ Shape(evt)
       /\ link \in {"scan", "init", "up"} => evt = <<>> /\ ~conn
       /\ link = "idle" <=> Ends(evt)
       /\ link = "conn" => Len(evt) <= MaxEvt /\ (conn \/ Opens(evt))
       /\ conn => ~Opens(evt) /\ cur = peer
       /\ ~conn /\ ~Opens(evt) => Len(evt) <= 1
       /\ ask => link = "conn" /\ conn
       /\ HasAnswer(evt) => conn
       /\ link # "scan" => peer \in Slave
  BY DEF EvtInv
<1>000. Shape(<<>>) /\ ~HasAnswer(<<>>) /\ ~Ends(<<>>) /\ ~Opens(<<>>)
  BY DEF Shape, HasAnswer, Ends, Opens
<1>1. CASE \/ SdkReturn \/ ProcButton \/ HostUnpair \/ NoService \/ SdpNoLink \/ SdpTimeout
           \/ SdpIdle \/ SdpDone
  <2>1. UNCHANGED <<link, peer, evt, ask, conn, cur>>
    BY <1>1 DEF SdkReturn, ProcButton, HostUnpair, NoService, SdpNoLink, SdpTimeout, SdpIdle, SdpDone, linkVars
  <2> QED BY <1>0, <1>00, <2>1 DEF EvtInv
<1>2. CASE SdpBegin \/ SdpNext
  <2>1. UNCHANGED <<link, peer, evt, conn, cur>> /\ ask' = InConn
    BY <1>2 DEF SdpBegin, SdpNext, Push
  <2>2. conn \/ link = "scan"
    BY <1>2 DEF SdpBegin, SdpNext, SdpInv
  <2>3. ask' => link = "conn" /\ conn
    BY <1>00, <2>1, <2>2 DEF InConn
  <2> QED BY <1>0, <1>00, <2>1, <2>3 DEF EvtInv
<1>3. CASE EventEstablish \/ AttResponse \/ \E k \in Key : AttKey(k)
  <2> DEFINE t == Tail(evt)
  <2>1. /\ evt # <<>> /\ Head(evt) # "disconnect" /\ evt' = t /\ UNCHANGED <<link, peer, ask>>
    BY <1>3 DEF EventEstablish, AttResponse, AttKey, Take, Key
  <2>2. /\ t \in Seq(Event) /\ Len(t) = Len(evt) - 1 /\ Len(evt) >= 1
        /\ Shape(t) /\ ~Opens(t)
        /\ HasAnswer(t) => HasAnswer(evt)
        /\ Head(evt) = "establish" <=> Opens(evt)
        /\ Ends(t) <=> Ends(evt)
    BY <1>0, <1>00, <2>1, Popped
  <2>3. /\ conn' => cur' = peer
        /\ Head(evt) = "establish" => conn'
        /\ Head(evt) # "establish" => conn' = conn
        /\ conn => conn'
    BY <1>00, <1>3, <2>2 DEF EventEstablish, AttResponse, AttKey, Take, Key
  <2>4. link \notin {"scan", "init", "up"}
    BY <1>00, <2>1
  <2>5. ~conn /\ Head(evt) # "establish" => Len(t) <= 1
    BY <1>0, <1>00, <2>2
  <2> HIDE DEF t
  <2>6. link = "conn" => Len(evt') <= MaxEvt /\ conn'
    BY <1>0, <1>00, <2>1, <2>2, <2>3
  <2>7. ~conn' => Len(evt') <= 1
    BY <2>1, <2>3, <2>5
  <2>8. HasAnswer(evt') => conn'
    BY <1>00, <2>1, <2>2, <2>3
  <2> QED BY <1>0, <1>00, <2>1, <2>2, <2>3, <2>4, <2>6, <2>7, <2>8 DEF EvtInv
<1>4. CASE EventDisconnect
  <2>1. evt # <<>> /\ Head(evt) = "disconnect" /\ evt' = Tail(evt) /\ link' = "scan" /\ conn' = FALSE
        /\ UNCHANGED <<ask, cur>>
    BY <1>4 DEF EventDisconnect, Take
  <2>2. Ends(evt) /\ evt' = <<>>
    BY <1>0, <1>00, <2>1, Popped
  <2>3. ~ask' /\ ~conn'
    BY <1>00, <2>1, <2>2
  <2>4. Len(evt') <= MaxEvt + 1 /\ evt' \in Seq(Event)
    BY <1>0, <2>2
  <2>5. Shape(evt') /\ ~HasAnswer(evt') /\ ~Ends(evt') /\ ~Opens(evt')
    BY <1>000, <2>2
  <2>6. link' = "scan" /\ evt' = <<>> /\ Len(evt') = 0
    BY <1>0, <2>1, <2>2, EmptySeq
  <2>7. EvtInv'
    BY <2>3, <2>5, <2>6 DEF EvtInv
  <2> QED BY <2>4, <2>7
<1>5. CASE Scan
  <2>1. PICK s \in Slave, near \in BOOLEAN, trigger \in BOOLEAN : EventAdvReport(s, near, trigger)
    BY <1>5 DEF Scan
  <2>2. /\ link = "scan" /\ UNCHANGED <<evt, ask, conn, cur>>
        /\ \/ link' = "init" /\ peer' \in Slave
           \/ UNCHANGED <<link, peer>>
    BY <2>1 DEF EventAdvReport
  <2> QED BY <1>0, <1>00, <1>000, <2>2 DEF EvtInv
<1>6. CASE Connect
  <2>1. link = "init" /\ link' = "up" /\ UNCHANGED <<peer, evt, ask, conn, cur>>
    BY <1>6 DEF Connect, hostVars
  <2> QED BY <1>0, <1>00, <1>000, <2>1 DEF EvtInv
<1>7. CASE Establish
  <2>1. /\ link = "up" /\ link' = "conn" /\ evt' = Append(evt, "establish")
        /\ UNCHANGED <<peer, ask, conn, cur>>
    BY <1>7 DEF Establish, hostVars
  <2>2. evt = <<>> /\ ~conn /\ "establish" \in Event
    BY <1>00, <2>1 DEF Event
  <2>3. /\ evt' \in Seq(Event) /\ Len(evt') = 1 /\ Shape(evt') /\ ~HasAnswer(evt')
        /\ ~Ends(evt') /\ Opens(evt')
    <3>1. ~Ends(evt) /\ Len(evt) = 0 /\ ~HasAnswer(evt) /\ ("establish" = "establish" => evt = <<>>)
      BY <1>0, <1>00, <1>000, <2>2
    <3>2. /\ Append(evt, "establish") \in Seq(Event)
          /\ Len(Append(evt, "establish")) = Len(evt) + 1
          /\ Shape(Append(evt, "establish"))
          /\ HasAnswer(Append(evt, "establish")) => HasAnswer(evt) \/ "establish" = "answer"
          /\ Ends(Append(evt, "establish")) <=> "establish" = "disconnect"
          /\ "establish" = "establish" => Opens(Append(evt, "establish"))
      BY <1>0, <1>00, <2>2, <3>1, Pushed
    <3> QED BY <2>1, <3>1, <3>2
  <2> QED BY <1>0, <1>00, <2>1, <2>2, <2>3 DEF EvtInv
<1>8. CASE Drop
  <2>1. /\ link \in {"up", "conn"} /\ link' = "idle" /\ evt' = Append(evt, "disconnect") /\ ask' = FALSE
        /\ UNCHANGED <<peer, conn, cur>>
    BY <1>8 DEF Drop, hostVars, InConn
  <2>2. ~Ends(evt) /\ "disconnect" \in Event
    BY <1>00, <2>1 DEF Event
  <2>3. /\ evt' \in Seq(Event) /\ Len(evt') = Len(evt) + 1 /\ Shape(evt')
        /\ HasAnswer(evt') => HasAnswer(evt)
        /\ Ends(evt')
        /\ Opens(evt) <=> Opens(evt')
    BY <1>0, <1>00, <2>1, <2>2, Pushed
  <2>4. Len(evt) <= MaxEvt
    BY <1>0, <1>00, <2>1
  <2>5. ~conn /\ ~Opens(evt) => evt = <<>>
    BY <1>00, <2>1
  <2> QED BY <1>0, <1>00, <2>1, <2>3, <2>4, <2>5 DEF EvtInv
<1>9. CASE Answer \/ Stray \/ \E k \in Key : Notify(k)
  <2>1. PICK e \in Event : evt' = Append(evt, e) /\ e # "establish" /\ e # "disconnect"
                           /\ (e = "answer" => ask)
    BY <1>9 DEF Answer, Stray, Notify, Event, Key
  <2>2. /\ link = "conn" /\ Len(evt) < MaxEvt /\ (ask' => ask)
        /\ UNCHANGED <<link, peer, conn, cur>>
    BY <1>9 DEF Answer, Stray, Notify, hostVars
  <2>3. /\ evt' \in Seq(Event) /\ Len(evt') = Len(evt) + 1 /\ Shape(evt')
        /\ HasAnswer(evt') => HasAnswer(evt) \/ ask
        /\ ~Ends(evt')
        /\ Opens(evt) <=> Opens(evt')
    BY <1>0, <1>00, <2>1, <2>2, Pushed
  <2> QED BY <1>0, <1>00, <2>1, <2>2, <2>3 DEF EvtInv
<1>10. CASE Replug
  <2>1. evt' = <<>> /\ link' = "scan" /\ ~conn' /\ ~ask'
    BY <1>10 DEF Replug
  <2>2. evt' \in Seq(Event) /\ Len(evt') = 0 /\ Len(evt') <= MaxEvt + 1
    BY <1>0, <2>1
  <2>3. Shape(evt') /\ ~HasAnswer(evt') /\ ~Ends(evt') /\ ~Opens(evt')
    BY <1>000, <2>1
  <2> QED BY <2>1, <2>2, <2>3 DEF EvtInv
<1> QED BY <1>1, <1>2, <1>3, <1>4, <1>5, <1>6, <1>7, <1>8, <1>9, <1>10 DEF Next, MainLoop, Deliver
-----------------------------------------------------------------------------
(* The discovery.                                                          *)
LEMMA SdpStep == ASSUME TypeOK, EvtInv, SdpInv, Next PROVE SdpInv'
<1>0. /\ evt \in Seq(Event) /\ Shape(evt) /\ busy \in BOOLEAN
      /\ disc \in [on : BOOLEAN, left : 0 .. Requests, got : SUBSET (Slave \cup {0})]
      /\ pending \in {0, SDP_PENDING} /\ SDP_PENDING = 2
  BY TypeFacts DEF TypeOK, EvtInv, SDP_PENDING
<1>00. /\ pending = SDP_PENDING => service \/ disc.on
       /\ known # 0 => handles = {known} \/ 0 \in handles
       /\ (ask \/ HasAnswer(evt)) /\ pending = SDP_PENDING => disc.on
       /\ disc.on /\ (ask \/ HasAnswer(evt)) => disc.got \subseteq {cur} \/ 0 \in disc.got
       /\ disc.on /\ ~busy => disc.got = {cur} \/ 0 \in disc.got
       /\ disc.on /\ ~busy => conn \/ (link = "scan" /\ at # "sdk")
  BY DEF SdpInv, Awaited, PendingIsServed, HandlesOfKnown
<1>1. CASE \/ SdkReturn \/ ProcButton \/ HostUnpair \/ NoService \/ SdpIdle
  <2>1. UNCHANGED <<link, evt, ask, conn, cur, sdpVars>>
    BY <1>1 DEF SdkReturn, ProcButton, HostUnpair, NoService, SdpIdle, linkVars
  <2>2. at' # "sdk" \/ ~disc.on \/ busy
    BY <1>1 DEF SdkReturn, ProcButton, HostUnpair, NoService, SdpIdle
  <2> QED BY <1>00, <2>1, <2>2 DEF SdpInv, Awaited, PendingIsServed, HandlesOfKnown, sdpVars
<1>2. CASE SdpNoLink \/ SdpTimeout \/ SdpDone
  <2>1. UNCHANGED <<link, evt, ask, conn, cur>> /\ pending' = 0 /\ disc' = NoDisc
    BY <1>2 DEF SdpNoLink, SdpTimeout, SdpDone, SdpEnd, linkVars
  <2>2. \/ UNCHANGED <<known, handles>>
        \/ known' = cur /\ (handles' = {cur} \/ 0 \in handles')
    BY <1>00, <1>2 DEF SdpNoLink, SdpTimeout, SdpDone
  <2>3. ~disc'.on
    BY <2>1 DEF NoDisc
  <2>4. pending' # SDP_PENDING
    BY <1>0, <2>1
  <2> QED BY <1>00, <2>2, <2>3, <2>4 DEF SdpInv, Awaited, PendingIsServed, HandlesOfKnown
<1>3. CASE SdpBegin
  <2>1. disc' = [on |-> TRUE, left |-> Requests, got |-> {}] /\ busy' = TRUE
        /\ UNCHANGED <<known, handles>>
    BY <1>3 DEF SdpBegin, Push
  <2>2. disc'.on /\ disc'.got = {} /\ busy'
    BY <2>1
  <2> QED BY <1>00, <2>1, <2>2 DEF SdpInv, Awaited, PendingIsServed, HandlesOfKnown
<1>4. CASE SdpNext
  <2>1. disc.on /\ ~busy /\ disc' = [disc EXCEPT !.left = disc.left - 1] /\ busy' = TRUE
        /\ UNCHANGED <<known, handles, cur>>
    BY <1>4 DEF SdpNext, Push
  <2>2. disc'.on /\ disc'.got = disc.got /\ busy'
    BY <1>0, <2>1
  <2>3. disc'.got = {cur'} \/ 0 \in disc'.got
    BY <1>00, <2>1, <2>2
  <2> QED BY <1>00, <2>1, <2>2, <2>3 DEF SdpInv, Awaited, PendingIsServed, HandlesOfKnown
<1>5. CASE EventEstablish
  <2>1. /\ at = "sdk" /\ at' = at /\ evt # <<>> /\ Head(evt) = "establish" /\ evt' = Tail(evt)
        /\ pending' = 0 \/ (service' = TRUE /\ pending' = SDP_PENDING)
        /\ UNCHANGED <<link, ask, known, handles, disc, busy>>
    BY <1>5 DEF EventEstablish, Take
  <2>2. Opens(evt) /\ (HasAnswer(Tail(evt)) => HasAnswer(evt))
    BY <1>0, <2>1, Popped
  <2>3. ~conn /\ ~ask /\ ~HasAnswer(evt)
    BY <2>2 DEF EvtInv
  <2>4. ~Awaited'
    BY <2>1, <2>2, <2>3 DEF Awaited
  <2>5. disc'.on => busy'
    BY <1>00, <2>1, <2>3
  <2>6. PendingIsServed' /\ HandlesOfKnown'
    BY <1>0, <1>00, <2>1 DEF PendingIsServed, HandlesOfKnown
  <2> QED BY <2>4, <2>5, <2>6 DEF SdpInv
<1>6. CASE EventDisconnect
  <2>1. /\ evt # <<>> /\ Head(evt) = "disconnect" /\ evt' = Tail(evt)
        /\ at' = "button" /\ link' = "scan" /\ pending' = 0
        /\ UNCHANGED <<ask, cur, known, handles, disc, busy>>
    BY <1>6 DEF EventDisconnect, Take
  <2>2. Ends(evt) /\ evt' = <<>> /\ ~HasAnswer(<<>>)
    BY <1>0, <2>1, Popped
  <2>3. ~ask
    BY <2>2 DEF EvtInv
  <2>4. ~Awaited'
    BY <2>1, <2>2, <2>3 DEF Awaited
  <2>5. PendingIsServed' /\ HandlesOfKnown'
    BY <1>0, <1>00, <2>1 DEF PendingIsServed, HandlesOfKnown
  <2>6. disc'.on /\ ~busy' => /\ disc'.got = {cur'} \/ 0 \in disc'.got
                             /\ link' = "scan" /\ at' # "sdk"
    BY <1>00, <2>1
  <2> QED BY <2>4, <2>5, <2>6 DEF SdpInv
<1>7. CASE AttResponse
  <2>1. /\ at = "sdk" /\ evt # <<>> /\ Head(evt) \in {"answer", "stray"} /\ evt' = Tail(evt)
        /\ UNCHANGED <<link, ask, conn, cur, pending, service, known, handles>>
    BY <1>7 DEF AttResponse, Take
  <2>2. /\ HasAnswer(Tail(evt)) => HasAnswer(evt)
        /\ Head(evt) = "answer" => HasAnswer(evt)
    BY <1>0, <2>1, Popped
  <2>3. conn /\ cur = peer /\ peer \in Slave
    BY <2>1, HeadIsConnected DEF Key
  <2>4. HandlesOfKnown'
    BY <1>00, <2>1 DEF HandlesOfKnown
  <2>5. ASSUME NEW error \in BOOLEAN, Accepted(error), Copied(IF Head(evt) = "answer" THEN peer ELSE 0)
        PROVE  SdpInv'
    <3>1. pending = SDP_PENDING
      BY <2>5 DEF Accepted
    <3>2. CASE disc.on /\ Head(evt) = "answer"
      <4>1. disc.got \subseteq {cur} \/ 0 \in disc.got
        BY <1>00, <2>2, <3>2
      <4>2. disc'.on /\ disc'.got = Mixed(disc.got \cup {peer}) /\ ~busy' /\ at' = at
        BY <1>0, <2>5, <3>2 DEF Copied
      <4>3. disc'.got = {cur'} \/ 0 \in disc'.got
        BY <2>1, <2>3, <4>1, <4>2 DEF Mixed
      <4> QED BY <2>1, <2>3, <2>4, <4>2, <4>3 DEF SdpInv, PendingIsServed
    <3>3. CASE disc.on /\ Head(evt) = "stray"
      <4>1. disc'.on /\ disc'.got = Mixed(disc.got \cup {0}) /\ ~busy' /\ at' = at
        BY <1>0, <2>5, <3>3 DEF Copied
      <4>2. 0 \in disc'.got
        BY <4>1 DEF Mixed
      <4> QED BY <2>1, <2>3, <2>4, <4>1, <4>2 DEF SdpInv, PendingIsServed
    <3>4. CASE ~disc.on
      <4>1. disc' = disc
        BY <2>5, <3>4 DEF Copied
      <4>2. Awaited' => ask \/ HasAnswer(evt)
        BY <2>1, <2>2 DEF Awaited
      <4> QED BY <1>00, <2>1, <2>4, <3>4, <4>1, <4>2 DEF SdpInv, PendingIsServed
    <3> QED BY <2>1, <3>2, <3>3, <3>4
  <2>6. ASSUME UNCHANGED <<at, busy, disc>> PROVE SdpInv'
    <3>1. Awaited' => ask \/ HasAnswer(evt)
      BY <2>1, <2>2 DEF Awaited
    <3> QED BY <1>00, <2>1, <2>4, <2>6, <3>1 DEF SdpInv, PendingIsServed
  <2> QED BY <1>7, <2>5, <2>6 DEF AttResponse
<1>8. ASSUME NEW k \in Key, AttKey(k) PROVE SdpInv'
  <2>1. /\ evt # <<>> /\ evt' = Tail(evt) /\ UNCHANGED <<at, link, ask, conn, cur, sdpVars>>
    BY <1>8 DEF AttKey, Take
  <2>2. HasAnswer(Tail(evt)) => HasAnswer(evt)
    BY <1>0, <2>1, Popped
  <2>3. Awaited' => ask \/ HasAnswer(evt)
    BY <2>1, <2>2 DEF Awaited
  <2> QED BY <1>00, <2>1, <2>3 DEF SdpInv, PendingIsServed, HandlesOfKnown, sdpVars
<1>9. CASE Scan \/ Connect
  <2>2. /\ UNCHANGED <<at, evt, ask, conn, cur, sdpVars>>
        /\ link = "init" \/ (link = "scan" /\ at = "sdk")
    BY <1>9 DEF Scan, EventAdvReport, Connect, hostVars
  <2>3. ~conn
    BY <2>2 DEF EvtInv
  <2>4. ~(disc.on /\ ~busy)
    BY <1>00, <2>2, <2>3
  <2> QED BY <1>00, <2>2, <2>4 DEF SdpInv, Awaited, PendingIsServed, HandlesOfKnown, sdpVars
<1>10. CASE Establish \/ Drop \/ Answer \/ Stray \/ \E k \in Key : Notify(k)
  <2>1. PICK e \in Event : evt' = Append(evt, e) /\ (e = "answer" => ask) /\ (e = "establish" => link = "up")
    BY <1>10 DEF Establish, Drop, Answer, Stray, Notify, Event, Key
  <2>2. /\ link \in {"up", "conn"} /\ (ask' => ask)
        /\ UNCHANGED <<at, conn, cur, sdpVars>>
    BY <1>10 DEF Establish, Drop, Answer, Stray, Notify, InConn, hostVars
  <2>3. ~Ends(evt) /\ (e = "establish" => evt = <<>>)
    BY <2>1, <2>2 DEF EvtInv
  <2>4. HasAnswer(evt') => HasAnswer(evt) \/ ask
    BY <1>0, <2>1, <2>3, Pushed
  <2>5. Awaited' => ask \/ HasAnswer(evt)
    BY <2>2, <2>4 DEF Awaited
  <2>6. disc.on /\ ~busy => conn
    BY <1>00, <2>2
  <2> QED BY <1>00, <2>2, <2>5, <2>6 DEF SdpInv, PendingIsServed, HandlesOfKnown, sdpVars
<1>11. CASE Replug
  <2>1. /\ pending' = 0 /\ known' = 0 /\ evt' = <<>> /\ ~ask' /\ ~disc'.on
    BY <1>11 DEF Replug, NoDisc
  <2> QED BY <1>0, <2>1 DEF SdpInv, Awaited, HasAnswer, PendingIsServed, HandlesOfKnown
<1> QED BY <1>1, <1>2, <1>3, <1>4, <1>5, <1>6, <1>7, <1>8, <1>9, <1>10, <1>11 DEF Next, MainLoop, Deliver
-----------------------------------------------------------------------------
(* The table, the key that is down, and the disconnection.                 *)
LEMMA BondStep == ASSUME TypeOK, EvtInv, BondInv, Next PROVE BondInv'
<1>0. /\ evt \in Seq(Event) /\ Shape(evt) /\ bonds \in Seq(Slave) /\ Len(bonds) <= MaxBonds
      /\ at \in {"sdk", "button", "unpair", "loop", "lost"} /\ link \in {"idle", "scan", "init", "up", "conn"}
  BY TypeFacts DEF TypeOK, EvtInv
<1>00. /\ conn /\ InConn /\ ~disconnecting => cur \in Range(bonds)
       /\ held # 0 => held = cur /\ conn
       /\ disconnecting /\ InConn => term
       /\ link \in {"init", "up", "conn"} /\ ~conn => manual \/ auto
       /\ link \in {"init", "up", "conn"} /\ ~conn /\ auto => peer \in Range(bonds)
       /\ disconnecting /\ link = "scan" => at \in {"button", "unpair"}
       /\ link = "init" => ~disconnecting
  BY DEF BondInv, ConnectedIsBonded, HeldByPeer, DisconnectingThisLink
<1>01. InConn <=> link \in {"up", "conn"}
  BY DEF InConn
<1>02. InConn' <=> link' \in {"up", "conn"}
  BY DEF InConn
<1>1. CASE \/ SdkReturn \/ ProcButton \/ NoService \/ SdpBegin \/ SdpNoLink \/ SdpTimeout \/ SdpIdle
           \/ SdpNext \/ SdpDone \/ Answer \/ Stray \/ \E k \in Key : Notify(k)
  <2>1. UNCHANGED <<link, peer, term, conn, cur, bonds, disconnecting, manual, auto, held>>
    BY <1>1 DEF SdkReturn, ProcButton, NoService, SdpBegin, SdpNoLink, SdpTimeout, SdpIdle, SdpNext,
                SdpDone, Answer, Stray, Notify, linkVars, bondVars, hostVars
  <2>2. at' = at \/ at' \in {"button", "unpair"} \/ at \notin {"button", "unpair"}
    BY <1>1 DEF SdkReturn, ProcButton, NoService, SdpBegin, SdpNoLink, SdpTimeout, SdpIdle, SdpNext,
                SdpDone, Answer, Stray, Notify, hostVars
  <2> QED BY <1>00, <2>1, <2>2 DEF BondInv, ConnectedIsBonded, HeldByPeer, DisconnectingThisLink, InConn
<1>2. CASE HostUnpair
  <2>1. PICK ok \in BOOLEAN :
          LET go == unpair /\ ~disconnecting /\ InConn /\ conn /\ ok IN
            /\ term' = (term \/ go)
            /\ bonds' = IF go THEN <<>> ELSE bonds
            /\ disconnecting' = (InConn /\ (disconnecting \/ go))
    BY <1>2 DEF HostUnpair
  <2>2. UNCHANGED <<link, peer, conn, cur, manual, auto, held>>
    BY <1>2 DEF HostUnpair
  <2>3. CASE unpair /\ ~disconnecting /\ InConn /\ conn /\ ok
    <3>1. term' /\ disconnecting'
      BY <2>1, <2>3
    <3> QED BY <1>00, <1>01, <1>02, <2>2, <2>3, <3>1
            DEF BondInv, ConnectedIsBonded, HeldByPeer, DisconnectingThisLink
  <2>4. CASE ~(unpair /\ ~disconnecting /\ InConn /\ conn /\ ok)
    <3>1. bonds' = bonds /\ (term' <=> term) /\ (disconnecting' <=> InConn /\ disconnecting)
      BY <2>1, <2>4
    <3> QED BY <1>00, <1>01, <1>02, <2>2, <3>1
            DEF BondInv, ConnectedIsBonded, HeldByPeer, DisconnectingThisLink
  <2> QED BY <2>3, <2>4
<1>3. CASE EventEstablish
  <2>1. /\ evt # <<>> /\ Head(evt) = "establish"
        /\ bonds' = IF manual /\ ~auto THEN BondAdd(bonds, peer) ELSE bonds
        /\ UNCHANGED <<at, link, peer, term, disconnecting, manual, auto, held>>
    BY <1>3 DEF EventEstablish, Take
  <2>2. conn' /\ cur' = peer
    BY <1>3 DEF EventEstablish
  <2>3. ~conn /\ peer \in Slave /\ link \in {"idle", "conn"}
    <3>1. Opens(evt)
      BY <1>0, <2>1, Popped
    <3> QED BY <1>0, <2>1, <3>1 DEF EvtInv
  <2>4. held = 0
    BY <1>00, <2>3
  <2>5. InConn => peer \in Range(bonds')
    <3>1. CASE manual /\ ~auto
      <4>1. peer \in Range(BondAdd(bonds, peer))
        BY <1>0, <2>3, BondAdded
      <4> QED BY <2>1, <3>1, <4>1
    <3>2. CASE ~(manual /\ ~auto)
      BY <1>00, <1>01, <2>1, <2>3, <3>2
    <3> QED BY <3>1, <3>2
  <2> QED BY <1>00, <1>01, <1>02, <2>1, <2>2, <2>3, <2>4, <2>5
          DEF BondInv, ConnectedIsBonded, HeldByPeer, DisconnectingThisLink
<1>4. CASE EventDisconnect
  <2>1. /\ at' = "button" /\ link' = "scan" /\ ~conn' /\ held' = 0
    BY <1>4 DEF EventDisconnect
  <2> QED BY <1>02, <2>1 DEF BondInv, ConnectedIsBonded, HeldByPeer, DisconnectingThisLink
<1>5. CASE \E k \in Key : AttKey(k)
  <2>1. PICK k \in Key : AttKey(k)
    BY <1>5
  <2>2. /\ evt # <<>> /\ Head(evt) \in Key
        /\ held' \in {peer, 0, held}
        /\ UNCHANGED <<at, link, peer, term, conn, cur, bonds, disconnecting, manual, auto>>
    BY <2>1 DEF AttKey, Take
  <2>3. conn /\ cur = peer
    BY <2>2, HeadIsConnected
  <2> QED BY <1>00, <1>01, <1>02, <2>2, <2>3 DEF BondInv, ConnectedIsBonded, HeldByPeer, DisconnectingThisLink
<1>6. CASE Scan
  <2>1. PICK s \in Slave, near \in BOOLEAN, trigger \in BOOLEAN : EventAdvReport(s, near, trigger)
    BY <1>6 DEF Scan
  <2>2. /\ at = "sdk" /\ link = "scan"
        /\ auto' = (s \in Range(bonds))
        /\ \/ (manual' \/ auto') /\ link' = "init" /\ peer' = s
           \/ UNCHANGED <<link, peer>>
        /\ UNCHANGED <<at, term, conn, cur, bonds, disconnecting, held>>
    BY <2>1 DEF EventAdvReport
  <2>3. ~conn /\ ~disconnecting
    BY <1>00, <2>2 DEF EvtInv
  <2>4. link' \in {"scan", "init"}
    BY <2>2
  <2>5. link' = "init" => (manual' \/ auto') /\ (auto' => peer' \in Range(bonds))
    BY <2>2
  <2> QED BY <1>00, <1>01, <1>02, <2>2, <2>3, <2>4, <2>5
          DEF BondInv, ConnectedIsBonded, HeldByPeer, DisconnectingThisLink
<1>7. CASE Connect \/ Establish \/ Drop
  <2>1. UNCHANGED <<at, peer, conn, cur, bonds, disconnecting, manual, auto, held>>
    BY <1>7 DEF Connect, Establish, Drop, hostVars, bondVars
  <2>2. \/ link = "init" /\ link' = "up" /\ term' = term
        \/ link = "up" /\ link' = "conn" /\ term' = term
        \/ link' = "idle"
    BY <1>7 DEF Connect, Establish, Drop
  <2>3. link \in {"init", "up"} => ~conn
    BY DEF EvtInv
  <2> QED BY <1>00, <1>01, <1>02, <2>1, <2>2, <2>3
          DEF BondInv, ConnectedIsBonded, HeldByPeer, DisconnectingThisLink
<1>8. CASE AttResponse
  <2>1. /\ evt # <<>> /\ Head(evt) \in {"answer", "stray"}
        /\ UNCHANGED <<link, peer, term, conn, cur, bonds, disconnecting, manual, auto, held>>
    BY <1>8 DEF AttResponse, Take, bondVars
  <2>2. link # "scan"
    BY <2>1 DEF EvtInv
  <2> QED BY <1>00, <2>1, <2>2 DEF BondInv, ConnectedIsBonded, HeldByPeer, DisconnectingThisLink, InConn
<1>9. CASE Replug
  <2>1. link' = "scan" /\ at' = "sdk" /\ ~conn' /\ held' = 0 /\ ~disconnecting'
    BY <1>9 DEF Replug
  <2> QED BY <1>02, <2>1 DEF BondInv, ConnectedIsBonded, HeldByPeer, DisconnectingThisLink
<1> QED BY <1>1, <1>2, <1>3, <1>4, <1>5, <1>6, <1>7, <1>8, <1>9 DEF Next, MainLoop, Deliver
-----------------------------------------------------------------------------
LEMMA TypeStep == ASSUME TypeOK, EvtInv, SdpInv, Next PROVE TypeOK'
<1> DEFINE E == {"establish", "disconnect", "answer", "stray"} \cup Key
           D == [on : BOOLEAN, left : 0 .. Requests, got : SUBSET (Slave \cup {0})]
<1>0. evt' \in Seq(E) /\ Len(evt') <= MaxEvt + 1
  BY EvtStep DEF Event
<1>00. /\ evt \in Seq(Event) /\ Shape(evt) /\ disc \in D /\ NoDisc \in D /\ Requests \in Nat \ {0}
       /\ at \in {"sdk", "button", "unpair", "loop", "lost"}
       /\ bonds \in Seq(Slave) /\ Len(bonds) <= MaxBonds
       /\ peer \in Slave \cup {0} /\ disc.left \in 0 .. Requests
  BY TypeFacts, BoundAssumption DEF TypeOK, EvtInv, NoDisc
<1> HIDE DEF E
<1>1. CASE SdkReturn \/ NoService \/ SdpIdle
  BY <1>0, <1>1 DEF SdkReturn, NoService, SdpIdle, linkVars, sdpVars, bondVars, TypeOK, E
<1>2. CASE ProcButton
  <2>1. pairing' \in BOOLEAN /\ unpair' \in BOOLEAN
    BY <1>2 DEF ProcButton, ButtonIdle, ButtonPair, ButtonUnpair, ButtonRelease, TypeOK
  <2> QED BY <1>0, <1>2, <2>1 DEF ProcButton, linkVars, sdpVars, TypeOK, E
<1>3. CASE HostUnpair
  <2>1. term' \in BOOLEAN /\ unpair' \in BOOLEAN /\ disconnecting' \in BOOLEAN
    BY <1>3 DEF HostUnpair
  <2>2. bonds' = <<>> \/ bonds' = bonds
    BY <1>3 DEF HostUnpair
  <2>3. bonds' \in Seq(Slave) /\ Len(bonds') <= MaxBonds
    <3>1. <<>> \in Seq(Slave) /\ Len(<<>>) = 0 /\ MaxBonds >= 0
      BY BoundAssumption
    <3>2. CASE bonds' = bonds
      BY <1>00, <3>2
    <3>3. CASE bonds' = <<>>
      <4>1. bonds' \in Seq(Slave) /\ Len(bonds') = 0
        BY <3>3, EmptySeq
      <4> QED BY <3>1, <4>1
    <3> QED BY <2>2, <3>2, <3>3
  <2> QED BY <1>0, <1>3, <2>1, <2>3 DEF HostUnpair, sdpVars, TypeOK, E
<1>4. CASE EventEstablish
  <2>1. Opens(evt)
    <3>1. evt # <<>> /\ Head(evt) = "establish"
      BY <1>4 DEF EventEstablish, Take
    <3> QED BY <1>00, <3>1, Popped
  <2>2. peer \in Slave
    BY <1>00, <2>1 DEF EvtInv, Opens
  <2>3. bonds' \in Seq(Slave) /\ Len(bonds') <= MaxBonds
    BY <1>00, <1>4, <2>2, BondAdded DEF EventEstablish
  <2>4. conn' \in BOOLEAN /\ service' \in BOOLEAN /\ pending' \in {0, SDP_PENDING}
    BY <1>4 DEF EventEstablish, TypeOK
  <2> QED BY <1>0, <1>4, <2>3, <2>4 DEF EventEstablish, TypeOK, E
<1>5. CASE EventDisconnect
  <2>1. conn' \in BOOLEAN /\ tried' \in BOOLEAN /\ peer' \in Slave \cup {0}
    BY <1>5 DEF EventDisconnect
  <2> QED BY <1>0, <1>5, <2>1 DEF EventDisconnect, bondVars, TypeOK, E
<1>6. CASE AttResponse
  <2>1. evt # <<>> /\ Head(evt) \in {"answer", "stray"}
    BY <1>6 DEF AttResponse, Take
  <2>2. peer \in Slave
    BY <2>1, HeadIsConnected
  <2>3. busy' \in BOOLEAN /\ disc' \in D /\ at' \in {at, "lost"}
    <3>1. CASE UNCHANGED <<at, busy, disc>>
      BY <1>00, <3>1 DEF TypeOK
    <3>2. CASE Copied(IF Head(evt) = "answer" THEN peer ELSE 0)
      <4>1. PICK from \in Slave \cup {0} : Copied(from)
        BY <2>2, <3>2
      <4>2. Mixed(disc.got \cup {from}) \subseteq Slave \cup {0}
        BY <1>00 DEF Mixed
      <4> QED BY <1>00, <4>1, <4>2 DEF Copied
    <3> QED BY <1>6, <3>1, <3>2 DEF AttResponse
  <2> QED BY <1>0, <1>00, <1>6, <2>3 DEF AttResponse, bondVars, TypeOK, E
<1>7. CASE \E k \in Key : AttKey(k)
  <2>1. /\ held' \in {peer, 0, held} /\ unpair' \in BOOLEAN
    BY <1>7 DEF AttKey, TypeOK
  <2> QED BY <1>0, <1>7, <2>1 DEF AttKey, sdpVars, TypeOK, E
<1>8. CASE Scan
  <2>1. PICK s \in Slave, near \in BOOLEAN, trigger \in BOOLEAN : EventAdvReport(s, near, trigger)
    BY <1>8 DEF Scan
  <2>2. manual' \in BOOLEAN /\ auto' \in BOOLEAN
    BY <2>1 DEF EventAdvReport, TypeOK
  <2>3. link' \in {"idle", "scan", "init", "up", "conn"} /\ peer' \in Slave \cup {0}
    BY <2>1 DEF EventAdvReport, TypeOK
  <2> QED BY <1>0, <2>1, <2>2, <2>3 DEF EventAdvReport, sdpVars, TypeOK, E
<1>9. CASE SdpBegin
  <2>1. disc' \in D /\ busy' \in BOOLEAN /\ aimed' \in BOOLEAN /\ ask' \in BOOLEAN /\ tried' \in BOOLEAN
    BY <1>00, <1>9 DEF SdpBegin, Push, InConn
  <2> QED BY <1>0, <1>9, <2>1 DEF SdpBegin, bondVars, TypeOK, E
<1>10. CASE SdpNext
  <2>1. busy' \in BOOLEAN /\ aimed' \in BOOLEAN /\ ask' \in BOOLEAN
    BY <1>10 DEF SdpNext, Push, InConn
  <2>2. disc.left > 1 /\ disc' = [disc EXCEPT !.left = disc.left - 1]
    BY <1>10 DEF SdpNext
  <2>3. disc.left - 1 \in 0 .. Requests
    BY <1>00, <2>2
  <2>4. disc' \in D
    BY <1>00, <2>2, <2>3
  <2>5. UNCHANGED <<at, link, peer, term, conn, cur, pending, service, known, handles, bondVars, held, tried>>
    BY <1>10 DEF SdpNext
  <2> QED BY <1>0, <2>1, <2>4, <2>5 DEF bondVars, TypeOK, E
<1>11. CASE SdpNoLink \/ SdpTimeout \/ SdpDone
  <2>1. service' \in BOOLEAN /\ disc' \in D /\ at' = "sdk" /\ pending' = 0
    BY <1>00, <1>11 DEF SdpNoLink, SdpTimeout, SdpDone, SdpEnd
  <2>2. known' \in Slave \cup {0} /\ handles' \subseteq Slave \cup {0}
    BY <1>00, <1>11 DEF SdpNoLink, SdpTimeout, SdpDone, TypeOK
  <2>3. UNCHANGED <<linkVars, conn, cur, busy, aimed, bondVars, held, tried>>
    BY <1>11 DEF SdpNoLink, SdpTimeout, SdpDone
  <2> QED BY <1>0, <2>1, <2>2, <2>3 DEF linkVars, bondVars, TypeOK, E
<1>12. CASE Connect \/ Establish \/ Answer \/ Stray \/ \E k \in Key : Notify(k)
  <2>1. UNCHANGED <<hostVars, peer, term>> /\ link' \in {link, "up", "conn"} /\ ask' \in {ask, FALSE}
    BY <1>12 DEF Connect, Establish, Answer, Stray, Notify
  <2>2. ask' \in BOOLEAN
    BY <2>1 DEF TypeOK
  <2> QED BY <1>0, <2>1, <2>2 DEF hostVars, sdpVars, bondVars, TypeOK, E
<1>13. CASE Drop
  <2>1. term' \in BOOLEAN /\ ask' \in BOOLEAN
    BY <1>13 DEF Drop
  <2> QED BY <1>0, <1>13, <2>1 DEF Drop, hostVars, sdpVars, bondVars, TypeOK, E
<1>14. CASE Replug
  <2>1. /\ at' = "sdk" /\ link' = "scan" /\ peer' = 0 /\ cur' = 0 /\ known' = 0 /\ held' = 0
        /\ handles' = {} /\ pending' = 0 /\ disc' \in D /\ UNCHANGED bonds
    BY <1>00, <1>14 DEF Replug
  <2>2. /\ term' \in BOOLEAN /\ ask' \in BOOLEAN /\ conn' \in BOOLEAN /\ service' \in BOOLEAN
        /\ busy' \in BOOLEAN /\ aimed' \in BOOLEAN /\ pairing' \in BOOLEAN /\ unpair' \in BOOLEAN
        /\ disconnecting' \in BOOLEAN /\ manual' \in BOOLEAN /\ auto' \in BOOLEAN /\ tried' \in BOOLEAN
    BY <1>14 DEF Replug
  <2> QED BY <1>0, <1>00, <2>1, <2>2 DEF TypeOK, E
<1> QED BY <1>1, <1>2, <1>3, <1>4, <1>5, <1>6, <1>7, <1>8, <1>9, <1>10, <1>11, <1>12, <1>13, <1>14
        DEF Next, MainLoop, Deliver
-----------------------------------------------------------------------------
LEMMA DongleInit == Init => DongleInv
<1> SUFFICES ASSUME Init PROVE DongleInv
  OBVIOUS
<1>1. evt \in Seq(Event) /\ bonds \in Seq(Slave) /\ Len(evt) = 0 /\ Len(bonds) = 0
      /\ Shape(evt) /\ ~HasAnswer(evt) /\ ~Ends(evt) /\ ~Opens(evt)
  BY DEF Init, Shape, HasAnswer, Ends, Opens
<1>2. ~term /\ ~ask /\ ~conn /\ ~service /\ ~busy /\ ~aimed /\ ~pairing /\ ~unpair /\ ~disconnecting
      /\ ~manual /\ ~auto /\ ~tried /\ ~disc.on
  BY DEF Init, NoDisc
<1>3. disc \in [on : BOOLEAN, left : 0 .. Requests, got : SUBSET (Slave \cup {0})]
  BY BoundAssumption DEF Init, NoDisc
<1>4. /\ term \in BOOLEAN /\ ask \in BOOLEAN /\ conn \in BOOLEAN /\ service \in BOOLEAN
      /\ busy \in BOOLEAN /\ aimed \in BOOLEAN
      /\ pairing \in BOOLEAN /\ unpair \in BOOLEAN /\ disconnecting \in BOOLEAN
      /\ manual \in BOOLEAN /\ auto \in BOOLEAN /\ tried \in BOOLEAN
  BY DEF Init
<1>5. TypeOK
  BY <1>1, <1>3, <1>4, BoundAssumption DEF Init, TypeOK, Event
<1>6. EvtInv
  BY <1>1, <1>2 DEF Init, EvtInv
<1>7. BondInv
  BY <1>2 DEF Init, BondInv, ConnectedIsBonded, HeldByPeer, DisconnectingThisLink
<1>8. SdpInv
  BY <1>1, <1>2 DEF Init, SdpInv, Awaited, PendingIsServed, HandlesOfKnown, SDP_PENDING
<1> QED BY <1>5, <1>6, <1>7, <1>8 DEF DongleInv

LEMMA DongleKept == Spec => []DongleInv
<1>1. ASSUME DongleInv, [Next]_vars PROVE DongleInv'
  <2>1. CASE Next
    BY <1>1, <2>1, TypeStep, EvtStep, BondStep, SdpStep DEF DongleInv
  <2>2. CASE UNCHANGED vars
    <3>1. UNCHANGED <<at, link, peer, evt, term, ask, conn, cur>>
      BY <2>2 DEF vars, linkVars
    <3>2. UNCHANGED <<pending, service, known, handles, disc, busy, aimed>>
      BY <2>2 DEF vars, sdpVars
    <3>3. UNCHANGED <<bonds, pairing, unpair, disconnecting, manual, auto, held, tried>>
      BY <2>2 DEF vars, bondVars
    <3>4. TypeOK'
      BY <1>1, <3>1, <3>2, <3>3 DEF DongleInv, TypeOK
    <3>5. EvtInv'
      BY <1>1, <3>1 DEF DongleInv, EvtInv
    <3>6. BondInv'
      BY <1>1, <3>1, <3>3 DEF DongleInv, BondInv, ConnectedIsBonded, HeldByPeer,
                              DisconnectingThisLink, InConn
    <3>7. SdpInv'
      BY <1>1, <3>1, <3>2 DEF DongleInv, SdpInv, Awaited, PendingIsServed, HandlesOfKnown
    <3> QED BY <3>4, <3>5, <3>6, <3>7 DEF DongleInv
  <2> QED BY <1>1, <2>1, <2>2
<1> QED BY <1>1, DongleInit, PTL DEF Spec

(* Whatever slaves come and go: a connected slave is in the table unless   *)
(* the host is about to send it away, a key the USB host sees pressed is   *)
(* one of the connected slave, and the disconnection asked for is that of  *)
(* this link (host_unpair_proc, app_event_callback, att_keyboard).         *)
THEOREM TableKeyAndLinkAgree == Spec => []LinkInv
<1>1. DongleInv => LinkInv
  BY DEF DongleInv, BondInv, LinkInv
<1> QED BY <1>1, DongleKept, PTL

(* A pending discovery is registered or running, although links come and   *)
(* go underneath one that waits, so that no slave is kept away for ever    *)
(* (app_service_discovery, main_loop).                                     *)
THEOREM DiscoveryIsServed == Spec => []PendingIsServed
<1>1. DongleInv => PendingIsServed
  BY DEF DongleInv, SdpInv
<1> QED BY <1>1, DongleKept, PTL

(* The handles are all those of the slave taken as known, unless they have *)
(* a response in them that nobody asked for: a discovery that has all its  *)
(* answers has them from one connection                                    *)
(* (app_service_discovery, host_att_service_wait_event).                   *)
THEOREM HandlesAreOfOneSlave == Spec => []HandlesOfKnown
<1>1. DongleInv => HandlesOfKnown
  BY DEF DongleInv, SdpInv
<1> QED BY <1>1, DongleKept, PTL

(* No answer to a request, late or not, is copied to the frame of a        *)
(* discovery that has returned, although p_att_response is never cleared,  *)
(* host_att_req_busy stays set behind a timeout and an error response      *)
(* passes without it (host_att_client_handler).                            *)
THEOREM NoLateAnswer == Spec => []AnswerGoesToFrame
<1>1. DongleInv => AnswerGoesToFrame
  <2> SUFFICES ASSUME DongleInv, evt # <<>>, Head(evt) = "answer", NEW error \in BOOLEAN, Accepted(error)
               PROVE  disc.on
    BY DEF AnswerGoesToFrame
  <2>1. evt \in Seq(Event) /\ Shape(evt)
    BY TypeFacts DEF DongleInv, EvtInv
  <2>2. HasAnswer(evt)
    BY <2>1, Popped
  <2> QED BY <2>2 DEF DongleInv, SdpInv, Awaited, Accepted
<1> QED BY <1>1, DongleKept, PTL
=============================================================================
