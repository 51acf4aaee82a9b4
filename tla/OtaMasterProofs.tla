--------------------------- MODULE OtaMasterProofs ---------------------------
(***************************************************************************)
(* Proofs about the firmware update by the dongle, for images of any size, *)
(* any fifo and any slaves: the chunks go to the slave their handle was    *)
(* read from, and what the slaves receive is what OtaTransfer promises.    *)
(***************************************************************************)
EXTENDS OtaMaster, SequenceTheorems, TLAPS

-----------------------------------------------------------------------------
(* The events the host has yet to handle: one of the connection, and that  *)
(* it is gone.                                                             *)
Event == {"establish", "fast", "slow"}
Queues == {<<>>, <<"disconnect">>} \cup {<<e>> : e \in Event} \cup {<<e, "disconnect">> : e \in Event}
Unheard(q) == q # <<>> /\ q[Len(q)] = "disconnect"

(* A connection that is gone is either unheard of, or heard of in the turn *)
(* whose proc_ota gives the update up: no new one comes before.            *)
LinkInv ==
  /\ evt \in Queues
  /\ link = "conn" => ~Unheard(evt)
  /\ link # "conn" => slave = NoSlave
  /\ link = "init" => evt = <<>> /\ start = 0 /\ cmd = 0
  /\ link # "conn" /\ start # 0 => Unheard(evt) \/ at \in {"button", "ota"}
  /\ link # "conn" /\ start = 0 /\ cmd # 0 => Unheard(evt)
  /\ link # "conn" /\ ~Unheard(evt) => fifo = <<>>
  /\ at # "ota" /\ cmd # 0 => start # 0

-----------------------------------------------------------------------------
(* How far a slave is: the image it was told to start, its chunks so far,  *)
(* and whether it has seen the end.                                        *)
Stage == [img : {0} \cup Image, n : Nat, ended : BOOLEAN]
At(i, n, e) == [img |-> i, n |-> n, ended |-> e]
StageOf(s) == At(s.img, Len(s.got), s.ended)

(* Packet p takes a slave from stage x to stage y as OtaTransfer has it.   *)
Leads(x, p, y) ==
  \/ p.kind \in {"read", "other"} /\ y = x
  \/ p.kind = "start" /\ p.img \in Image /\ y = At(p.img, 0, FALSE)
  \/ /\ p.kind = "data" /\ p.img = x.img /\ p.n = x.n
     /\ x.img # 0 /\ ~x.ended /\ x.n < Chunks[x.img] /\ y = At(x.img, x.n + 1, FALSE)
  \/ /\ p.kind = "end"
     /\ x.img # 0 /\ ~x.ended /\ x.n = Chunks[x.img] /\ y = At(x.img, x.n, TRUE)

(* The packets f take slave s to stage y.                                  *)
Stream(f, s, y) ==
  \E st \in [0 .. Len(f) -> Stage] :
    /\ st[0] = StageOf(s) /\ st[Len(f)] = y
    /\ \A i \in 1 .. Len(f) : Leads(st[i - 1], f[i], st[i])

(* The stage proc_ota believes the slave to have reached, the fifo being   *)
(* sent.                                                                   *)
Aim(y) ==
  /\ start = 5 => y = At(image, 0, FALSE) /\ adr = 0
  /\ start = 6 => /\ y.img = image /\ ~y.ended
                  /\ adr = Chunk * y.n /\ y.n <= Chunks[image]
  /\ start = 7 => y = At(image, Chunks[image], TRUE)

StreamInv ==
  /\ start # 0 => image \in Image
  /\ Connected => \E y \in Stage : Stream(fifo, slave, y) /\ Aim(y)

TransferInv == TypeOK /\ LinkInv /\ HandleOfPeer /\ StreamInv
-----------------------------------------------------------------------------
LEMMA ImageFacts ==
  /\ Cmd = {1, 2} /\ Image \subseteq Cmd /\ 0 \notin Image
  /\ \A i \in Cmd : FwSize[i] \in Nat /\ Chunks[i] \in Nat
BY SizeAssumption DEF Cmd, Image, Chunks, Chunk

(* The last chunk has been sent when the address is past the firmware.     *)
LEMMA LastChunk ==
  ASSUME NEW i \in Cmd, NEW n \in Nat
  PROVE  /\ Chunk * n < FwSize[i] => n < Chunks[i]
         /\ ~(Chunk * n < FwSize[i]) /\ n <= Chunks[i] => n = Chunks[i]
         /\ Chunk * n \in Nat /\ Chunk * n + Chunk = Chunk * (n + 1)
         /\ (Chunk * n) \div Chunk = n
BY SizeAssumption DEF Cmd, Chunks, Chunk

(* The events in the order the controller queues them.                     *)
LEMMA OneTwo ==
  ASSUME NEW S, NEW a \in S, NEW b \in S
  PROVE  /\ <<a>> # <<>> /\ <<a, b>> # <<>>
         /\ Head(<<a>>) = a /\ Head(<<a, b>>) = a
         /\ Tail(<<a>>) = <<>> /\ Tail(<<a, b>>) = <<b>>
         /\ Append(<<>>, a) = <<a>> /\ Append(<<a>>, b) = <<a, b>>
         /\ <<a>>[Len(<<a>>)] = a /\ <<a, b>>[Len(<<a, b>>)] = b
<1>1. <<a>> \in Seq(S) /\ <<a, b>> \in Seq(S) /\ <<>> \in Seq(S) /\ <<b>> \in Seq(S)
  OBVIOUS
<1>2. Len(<<a>>) = 1 /\ Len(<<a, b>>) = 2 /\ Len(<<>>) = 0 /\ Len(<<b>>) = 1
  OBVIOUS
<1>3. <<a>> # <<>> /\ <<a, b>> # <<>>
  BY <1>2
<1>4. Head(<<a>>) = a /\ Head(<<a, b>>) = a
  OBVIOUS
<1>5. Tail(<<a>>) = <<>> /\ Tail(<<a, b>>) = <<b>>
  <2>1. Tail(<<a>>) \in Seq(S) /\ Len(Tail(<<a>>)) = 0
    BY <1>1, <1>2, <1>3, HeadTailProperties
  <2>2. Tail(<<a>>) = <<>>
    BY <2>1, EmptySeq
  <2>3. /\ Tail(<<a, b>>) \in Seq(S) /\ Len(Tail(<<a, b>>)) = 1 /\ Tail(<<a, b>>)[1] = b
    BY <1>1, <1>2, <1>3, HeadTailProperties
  <2>4. Tail(<<a, b>>) = <<b>>
    BY <1>1, <1>2, <2>3, SeqEqual
  <2> QED BY <2>2, <2>4
<1>6. Append(<<>>, a) = <<a>> /\ Append(<<a>>, b) = <<a, b>>
  <2>1. /\ Append(<<>>, a) \in Seq(S) /\ Len(Append(<<>>, a)) = 1 /\ Append(<<>>, a)[1] = a
    BY <1>1, <1>2
  <2>2. /\ Append(<<a>>, b) \in Seq(S) /\ Len(Append(<<a>>, b)) = 2
        /\ Append(<<a>>, b)[1] = a /\ Append(<<a>>, b)[2] = b
    BY <1>1, <1>2
  <2>3. Append(<<>>, a) = <<a>>
    BY <1>1, <1>2, <2>1, SeqEqual
  <2>4. Append(<<a>>, b) = <<a, b>>
    <3>1. <<a, b>>[1] = a /\ <<a, b>>[2] = b
      OBVIOUS
    <3>2. \A i \in 1 .. Len(Append(<<a>>, b)) : Append(<<a>>, b)[i] = <<a, b>>[i]
      BY <2>2, <3>1
    <3> QED BY <1>1, <1>2, <2>2, <3>2, SeqEqual
  <2> QED BY <2>3, <2>4
<1> QED BY <1>2, <1>3, <1>4, <1>5, <1>6

LEMMA Queue ==
  /\ ~Unheard(<<>>) /\ Unheard(<<"disconnect">>) /\ <<"disconnect">> # <<>>
  /\ Tail(<<"disconnect">>) = <<>> /\ Head(<<"disconnect">>) = "disconnect"
  /\ Append(<<>>, "disconnect") = <<"disconnect">>
  /\ \A e \in Event :
       /\ e # "disconnect" /\ <<e>> # <<>> /\ <<e, "disconnect">> # <<>>
       /\ ~Unheard(<<e>>) /\ Unheard(<<e, "disconnect">>)
       /\ Head(<<e>>) = e /\ Head(<<e, "disconnect">>) = e
       /\ Tail(<<e>>) = <<>> /\ Tail(<<e, "disconnect">>) = <<"disconnect">>
       /\ Append(<<e>>, "disconnect") = <<e, "disconnect">>
<1> DEFINE S == Event \cup {"disconnect"}
<1>1. "disconnect" \in S /\ \A e \in Event : e \in S /\ e # "disconnect"
  BY DEF Event
<1> HIDE DEF S
<1>2. ASSUME NEW a \in S, NEW b \in S
      PROVE  /\ <<a>> # <<>> /\ <<a, b>> # <<>>
             /\ Head(<<a>>) = a /\ Head(<<a, b>>) = a
             /\ Tail(<<a>>) = <<>> /\ Tail(<<a, b>>) = <<b>>
             /\ Append(<<>>, a) = <<a>> /\ Append(<<a>>, b) = <<a, b>>
             /\ <<a>>[Len(<<a>>)] = a /\ <<a, b>>[Len(<<a, b>>)] = b
  BY OneTwo
<1>3. Unheard(<<"disconnect">>) /\ ~Unheard(<<>>)
  BY <1>1, <1>2 DEF Unheard
<1>4. \A e \in Event : ~Unheard(<<e>>) /\ Unheard(<<e, "disconnect">>)
  BY <1>1, <1>2 DEF Unheard
<1> QED BY <1>1, <1>2, <1>3, <1>4

-----------------------------------------------------------------------------
(* A packet more at the end of the stream, and one less at its head.       *)
LEMMA StreamEmpty ==
  ASSUME NEW s, NEW y PROVE /\ Stream(<<>>, s, y) => y = StageOf(s)
                            /\ StageOf(s) \in Stage => Stream(<<>>, s, StageOf(s))
<1>1. Len(<<>>) = 0
  OBVIOUS
<1>2. ASSUME StageOf(s) \in Stage PROVE Stream(<<>>, s, StageOf(s))
  <2> DEFINE st == [i \in 0 .. 0 |-> StageOf(s)]
  <2>1. st \in [0 .. 0 -> Stage] /\ st[0] = StageOf(s)
    BY <1>2
  <2> HIDE DEF st
  <2> QED BY <1>1, <2>1 DEF Stream
<1> QED BY <1>1, <1>2 DEF Stream

LEMMA StreamPush ==
  ASSUME NEW f \in Seq(Packets), NEW s, NEW x, NEW y \in Stage, NEW p \in Packets,
         Stream(f, s, x), Leads(x, p, y)
  PROVE  Stream(Append(f, p), s, y)
<1>1. PICK st \in [0 .. Len(f) -> Stage] :
        /\ st[0] = StageOf(s) /\ st[Len(f)] = x
        /\ \A i \in 1 .. Len(f) : Leads(st[i - 1], f[i], st[i])
  BY DEF Stream
<1> DEFINE n == Len(f)
           g == Append(f, p)
           su == [i \in 0 .. (n + 1) |-> IF i = n + 1 THEN y ELSE st[i]]
<1>2. n \in Nat /\ Len(g) = n + 1 /\ g[n + 1] = p /\ \A i \in 1 .. n : g[i] = f[i]
  OBVIOUS
<1>3. /\ su \in [0 .. (n + 1) -> Stage] /\ su[0] = StageOf(s) /\ su[n + 1] = y
      /\ \A i \in 0 .. n : su[i] = st[i]
  BY <1>1, <1>2
<1> HIDE DEF su, g
<1>4. ASSUME NEW i \in 1 .. (n + 1) PROVE Leads(su[i - 1], g[i], su[i])
  <2>1. CASE i = n + 1
    <3>1. su[i - 1] = x /\ su[i] = y /\ g[i] = p
      BY <1>1, <1>2, <1>3, <2>1
    <3> QED BY <3>1
  <2>2. CASE i # n + 1
    <3>1. i \in 1 .. n /\ i - 1 \in 0 .. n /\ i \in 0 .. n
      BY <1>2, <2>2
    <3>2. su[i - 1] = st[i - 1] /\ su[i] = st[i] /\ g[i] = f[i]
      BY <1>2, <1>3, <3>1
    <3> QED BY <1>1, <3>1, <3>2
  <2> QED BY <2>1, <2>2
<1>5. Stream(g, s, y)
  BY <1>2, <1>3, <1>4 DEF Stream
<1> QED BY <1>5 DEF g

LEMMA StreamPop ==
  ASSUME NEW f \in Seq(Packets), NEW s, NEW y, f # <<>>, Stream(f, s, y)
  PROVE  \E x \in Stage :
           /\ Leads(StageOf(s), Head(f), x)
           /\ \A t : StageOf(t) = x => Stream(Tail(f), t, y)
<1>1. PICK st \in [0 .. Len(f) -> Stage] :
        /\ st[0] = StageOf(s) /\ st[Len(f)] = y
        /\ \A i \in 1 .. Len(f) : Leads(st[i - 1], f[i], st[i])
  BY DEF Stream
<1> DEFINE n == Len(f) - 1
           g == Tail(f)
           su == [i \in 0 .. n |-> st[i + 1]]
<1>2. n \in Nat /\ Len(f) = n + 1 /\ Len(g) = n /\ Head(f) = f[1] /\ \A i \in 1 .. n : g[i] = f[i + 1]
  OBVIOUS
<1>3. /\ su \in [0 .. n -> Stage] /\ su[0] = st[1] /\ su[n] = st[n + 1]
      /\ \A i \in 0 .. n : su[i] = st[i + 1]
  BY <1>1, <1>2
<1>4. st[1] \in Stage /\ Leads(st[0], f[1], st[1])
  <2>1. 1 \in 1 .. Len(f) /\ 1 \in 0 .. Len(f) /\ 1 - 1 = 0
    BY <1>2
  <2> QED BY <1>1, <2>1
<1> HIDE DEF su, g
<1>5. ASSUME NEW i \in 1 .. n PROVE Leads(su[i - 1], g[i], su[i])
  <2>1. i + 1 \in 1 .. Len(f) /\ i - 1 \in 0 .. n /\ i \in 0 .. n /\ (i + 1) - 1 = i /\ (i - 1) + 1 = i
    BY <1>2
  <2>2. su[i - 1] = st[i] /\ su[i] = st[i + 1] /\ g[i] = f[i + 1]
    BY <1>2, <1>3, <2>1
  <2> QED BY <1>1, <2>1, <2>2
<1>6. ASSUME NEW t, StageOf(t) = st[1] PROVE Stream(g, t, y)
  BY <1>1, <1>2, <1>3, <1>5, <1>6 DEF Stream
<1>7. Leads(StageOf(s), Head(f), st[1])
  BY <1>1, <1>2, <1>4
<1> QED BY <1>4, <1>6, <1>7 DEF g

(* A packet that is none of an update changes nothing.                     *)
LEMMA OtherPackets ==
  /\ Packet("read", 0, 0) \in Packets /\ Packet("other", 0, 0) \in Packets
  /\ \A i \in Cmd : Packet("start", i, 0) \in Packets
  /\ \A i \in Cmd, n \in Int : Packet("data", i, n) \in Packets /\ Packet("end", i, n) \in Packets
  /\ \A x : Leads(x, Packet("read", 0, 0), x) /\ Leads(x, Packet("other", 0, 0), x)
BY DEF Packets, Packet, Leads, Cmd
-----------------------------------------------------------------------------
(* The turns of proc_ota.                                                  *)
LedType == [mode : 0 .. 2, step : 0 .. (Steps - 1), gpio : BOOLEAN]
Procs(l) == \/ Fail(l) \/ Idle(l) \/ Begin(l) \/ Wait(l) \/ ReadHandle(l)
            \/ SendStart(l) \/ Started(l) \/ Send(l) \/ Drain(l)

LEMMA BlinkedType == ASSUME TypeOK PROVE \A l \in Blinked : l \in LedType
<1>0. Steps \in Nat \ {0} /\ led \in LedType
  BY SizeAssumption DEF TypeOK, LedType
<1>1. \A l \in LedType : (l.step + 1) % Steps \in 0 .. (Steps - 1)
  BY <1>0 DEF LedType
<1>2. \A l \in LedType : \A m \in 0 .. 2, n \in 0 .. (Steps - 1), x \in BOOLEAN :
        /\ [l EXCEPT !.step = n, !.mode = m] \in LedType
        /\ [l EXCEPT !.step = n, !.gpio = x] \in LedType
  BY DEF LedType
<1>3. ASSUME NEW l \in LedType PROVE TestStep(l) \in LedType /\ ResultStep(l) \in LedType
  <2>1. (IF l.step = Steps - 1 THEN 2 ELSE l.mode) \in 0 .. 2
    BY DEF LedType
  <2>2. (l.gpio /\ l.step # Steps - 1) \in BOOLEAN
    OBVIOUS
  <2> QED BY <1>1, <1>2, <2>1, <2>2 DEF TestStep, ResultStep
<1> DEFINE tested == {led} \cup {TestStep(l) : l \in {x \in {led} : x.mode = 1}}
<1>4. \A l \in tested : l \in LedType
  BY <1>0, <1>3
<1>5. Blinked = tested \cup {ResultStep(l) : l \in {x \in tested : x.gpio}}
  BY DEF Blinked
<1> HIDE DEF tested
<1> QED BY <1>3, <1>4, <1>5

LEMMA ProcOtaIs ==
  ASSUME TypeOK, ProcOta
  PROVE  /\ at = "ota" /\ at' = "req" /\ UNCHANGED <<linkVars, connReq, sdp, rsp, slave>>
         /\ \E l \in LedType : Procs(l)
BY BlinkedType DEF ProcOta, ProcFail, ProcIdle, ProcBegin, ProcWait, ProcReadHandle, ProcSendStart,
                   ProcStarted, ProcSend, ProcDrain, Turn, Procs

(* What one of them does to the update.                                    *)
LEMMA ProcTypes ==
  ASSUME TypeOK, NEW l \in LedType, Procs(l)
  PROVE  led' \in LedType /\ late' \in BOOLEAN /\ outcome' \in {"none", "ok", "fail"}
<1>0. late \in BOOLEAN /\ outcome \in {"none", "ok", "fail"}
  BY DEF TypeOK
<1>1. ASSUME NEW x \in BOOLEAN, SetResult(x, l)
      PROVE  led' \in LedType /\ outcome' \in {"none", "ok", "fail"}
  <2>1. led' = [l EXCEPT !.gpio = x] /\ outcome' = (IF x THEN "ok" ELSE "fail")
    BY <1>1 DEF SetResult
  <2>2. [l EXCEPT !.gpio = x] \in LedType
    BY DEF LedType
  <2> QED BY <2>1, <2>2
<1>2. late' = late \/ late' = FALSE
  BY DEF Procs, Fail, Idle, Begin, Wait, ReadHandle, SendStart, Started, Send, Drain, otaVars
<1>3. \/ SetResult(FALSE, l) \/ SetResult(TRUE, l)
      \/ led' = l /\ outcome' = outcome
  BY DEF Procs, Fail, Idle, Begin, Wait, ReadHandle, SendStart, Started, Send, Drain
<1> QED BY <1>0, <1>1, <1>2, <1>3

(* What one of them does to the update.                                    *)
LEMMA ProcUpdates ==
  ASSUME TypeOK, NEW l \in LedType, Procs(l)
  PROVE  /\ start' \in 0 .. 7 /\ cmd' \in 0 .. 2 /\ pending' \in 0 .. 2 /\ image' \in Cmd
         /\ adr' \in Nat /\ handle' = handle
         /\ \/ fifo' = fifo
            \/ start # 0 /\ Connected /\ \E p \in Packets : fifo' = Append(fifo, p)
         /\ cmd' # 0 => start' # 0
         /\ cmd' \in {0, cmd}
         /\ start' # 0 => start # 0 \/ cmd # 0
         /\ ~Connected /\ start # 0 => start' = 0 /\ cmd' = 0
         /\ start' >= 4 => start >= 4
<1>0. /\ start \in 0 .. 7 /\ cmd \in 0 .. 2 /\ pending \in 0 .. 2 /\ image \in Cmd /\ adr \in Nat
      /\ Cmd = {1, 2} /\ adr + Chunk \in Nat /\ adr \div Chunk \in Int /\ (adr - Chunk) \div Chunk \in Int
  BY ImageFacts DEF TypeOK, Chunk
<1>2. CASE Fail(l)
  BY <1>0, <1>2 DEF Fail, SetResult
<1>3. CASE Idle(l)
  BY <1>0, <1>3 DEF Idle, otaVars
<1>4. CASE Begin(l)
  <2>1. /\ cmd \in Cmd /\ start = 0 /\ cmd # 0 /\ image' = cmd /\ UNCHANGED <<adr, handle, fifo>>
    BY <1>0, <1>4 DEF Begin
  <2>2. \/ start' = 0 /\ cmd' = 0 /\ pending' = 0
        \/ start' = 1 /\ cmd' = cmd /\ pending' = 1
    BY <1>4 DEF Begin, SetResult
  <2> QED BY <1>0, <2>1, <2>2
<1>5. CASE Wait(l)
  <2>1. start # 0 /\ UNCHANGED <<otaVars, fifo>> /\ ~GaveUp
    BY <1>5 DEF Wait
  <2> QED BY <1>0, <2>1 DEF otaVars, GaveUp
<1>6. CASE ReadHandle(l) \/ SendStart(l) \/ Started(l)
  <2>1. /\ start \in {2, 4, 5} /\ Connected /\ start' \in {3, 5, 6} /\ (start' >= 4 => start >= 4)
        /\ UNCHANGED <<cmd, pending, image, handle>> /\ adr' \in {0, adr}
    BY <1>6 DEF ReadHandle, SendStart, Started, GaveUp
  <2>2. fifo' = fifo \/ \E p \in Packets : fifo' = Append(fifo, p)
    BY <1>0, <1>6, OtherPackets DEF ReadHandle, SendStart, Started
  <2> QED BY <1>0, <2>1, <2>2
<1>7. CASE Send(l)
  <2>1. /\ start = 6 /\ Connected /\ start' \in {6, 7} /\ adr' = adr + Chunk
        /\ UNCHANGED <<cmd, pending, image, handle>>
    BY <1>7 DEF Send, GaveUp
  <2>2. \E p \in Packets : fifo' = Append(fifo, p)
    BY <1>0, <1>7, OtherPackets DEF Send
  <2> QED BY <1>0, <2>1, <2>2
<1>8. CASE Drain(l)
  <2>1. start = 7 /\ Connected /\ UNCHANGED <<image, adr, handle, fifo>>
    BY <1>8 DEF Drain, GaveUp
  <2>2. \/ start' = 0 /\ cmd' = 0 /\ pending' = 0
        \/ UNCHANGED <<start, cmd, pending>>
    BY <1>8 DEF Drain, SetResult
  <2> QED BY <1>0, <2>1, <2>2
<1> QED BY <1>2, <1>3, <1>4, <1>5, <1>6, <1>7, <1>8 DEF Procs
-----------------------------------------------------------------------------
(* Types.                                                                  *)
LEMMA EventTypes ==
  ASSUME TypeOK, evt # <<>>
  PROVE  /\ Head(evt) \in {"establish", "disconnect", "fast", "slow"}
         /\ Tail(evt) \in Seq({"establish", "disconnect", "fast", "slow"})
BY HeadTailProperties DEF TypeOK

LEMMA AckedTypes ==
  ASSUME TypeOK, StreamInv, Acked
  PROVE  /\ fifo' \in Seq(Packets) /\ rsp' \in BOOLEAN
         /\ slave' \in [img : 0 .. 2, got : Seq(Cmd \X Int), ended : BOOLEAN]
<1> DEFINE p == Head(fifo)
<1>1. fifo \in Seq(Packets) /\ fifo # <<>> /\ Connected
      /\ slave \in [img : 0 .. 2, got : Seq(Cmd \X Int), ended : BOOLEAN]
  BY DEF Acked, TypeOK
<1>2. p \in Packets /\ Tail(fifo) \in Seq(Packets)
  BY <1>1, HeadTailProperties
<1>3. PICK x \in Stage : Leads(StageOf(slave), p, x)
  BY <1>1, StreamPop DEF StreamInv
<1>4. p.kind = "data" => p.img \in Cmd /\ p.n \in Int
  <2>1. p.kind = "data" => p.img = slave.img /\ slave.img # 0
    BY <1>3 DEF Leads, StageOf, At
  <2> QED BY <1>1, <1>2, <2>1, ImageFacts DEF Packets
<1>5. /\ fifo' = Tail(fifo) /\ rsp' = (rsp \/ p.kind = "read")
      /\ slave' = CASE p.kind = "start" -> [img |-> p.img, got |-> <<>>, ended |-> FALSE]
                    [] p.kind = "data" -> [slave EXCEPT !.got = Append(@, <<p.img, p.n>>)]
                    [] p.kind = "end" -> [slave EXCEPT !.ended = TRUE]
                    [] OTHER -> slave
  BY DEF Acked
<1>6. p.img \in 0 .. 2
  BY <1>2 DEF Packets
<1> HIDE DEF p
<1>7. CASE p.kind = "data"
  <2>1. <<p.img, p.n>> \in Cmd \X Int /\ slave.got \in Seq(Cmd \X Int)
    BY <1>1, <1>4, <1>7
  <2>2. Append(slave.got, <<p.img, p.n>>) \in Seq(Cmd \X Int)
    BY <2>1, AppendProperties
  <2>3. slave' = [slave EXCEPT !.got = Append(slave.got, <<p.img, p.n>>)]
    BY <1>5, <1>7
  <2> QED BY <1>1, <1>2, <1>5, <2>2, <2>3
<1>8. CASE p.kind = "start"
  <2>1. <<>> \in Seq(Cmd \X Int)
    BY EmptySeq
  <2>2. slave' = [img |-> p.img, got |-> <<>>, ended |-> FALSE]
    BY <1>5, <1>8
  <2>3. slave' \in [img : 0 .. 2, got : Seq(Cmd \X Int), ended : BOOLEAN]
    BY <1>6, <2>1, <2>2
  <2>4. fifo' \in Seq(Packets) /\ rsp' \in BOOLEAN
    BY <1>2, <1>5
  <2> QED BY <2>3, <2>4
<1>9. CASE p.kind = "end"
  <2>1. slave' = [slave EXCEPT !.ended = TRUE]
    BY <1>5, <1>9
  <2> QED BY <1>1, <1>2, <1>5, <2>1
<1>10. CASE p.kind \notin {"data", "start", "end"}
  <2>1. slave' = slave
    BY <1>5, <1>10
  <2> QED BY <1>1, <1>2, <1>5, <2>1
<1> QED BY <1>7, <1>8, <1>9, <1>10

LEMMA TypeStep == ASSUME TypeOK, StreamInv, Next PROVE TypeOK'
<1>1. CASE ProcOta
  <2>1. PICK l \in LedType : Procs(l)
    BY <1>1, ProcOtaIs
  <2>2. at' = "req" /\ UNCHANGED <<link, peer, evt, upd, connReq, sdp, rsp, slave>>
    BY <1>1, ProcOtaIs DEF linkVars
  <2>3. fifo' \in Seq(Packets)
    <3>1. fifo' = fifo \/ \E p \in Packets : fifo' = Append(fifo, p)
      BY <2>1, ProcUpdates
    <3>2. fifo \in Seq(Packets)
      BY DEF TypeOK
    <3> QED BY <3>1, <3>2, AppendProperties
  <2>4. /\ start' \in 0 .. 7 /\ cmd' \in 0 .. 2 /\ pending' \in 0 .. 2 /\ image' \in Cmd
        /\ adr' \in Nat /\ handle' = handle
    BY <2>1, ProcUpdates
  <2>5. led' \in LedType /\ late' \in BOOLEAN /\ outcome' \in {"none", "ok", "fail"}
    BY <2>1, ProcTypes
  <2> QED BY <2>2, <2>3, <2>4, <2>5 DEF TypeOK, LedType
<1>2. CASE SdkReturn
  BY <1>2 DEF SdkReturn, linkVars, otaVars, TypeOK
<1>16. CASE ButtonIdle
  BY <1>16 DEF ButtonIdle, linkVars, otaVars, TypeOK
<1>17. CASE EventAdvReport
  BY <1>17 DEF EventAdvReport, otaVars, TypeOK
<1>15. CASE SdpFinish
  <2>1. sdp' \in BOOLEAN
    BY <1>15 DEF SdpFinish
  <2> QED BY <1>15, <2>1 DEF SdpFinish, linkVars, otaVars, TypeOK
<1>3. CASE EventEstablish \/ EventDisconnect \/ EventUpdated
  <2>1. evt' = Tail(evt) /\ evt # <<>>
    BY <1>3 DEF EventEstablish, EventDisconnect, EventUpdated
  <2>2. evt' \in Seq({"establish", "disconnect", "fast", "slow"})
    BY <2>1, EventTypes
  <2>3. <<>> \in Seq(Packets)
    BY EmptySeq
  <2>4. sdp' \in BOOLEAN
    BY <1>3 DEF EventEstablish, EventDisconnect, EventUpdated, TypeOK
  <2>5. CASE EventEstablish
    BY <2>2, <2>4, <2>5 DEF EventEstablish, otaVars, TypeOK
  <2>6. CASE EventDisconnect
    BY <2>2, <2>3, <2>4, <2>6 DEF EventDisconnect, otaVars, TypeOK
  <2>7. CASE EventUpdated
    <3>1. pending' \in 0 .. 2 /\ start' \in 0 .. 7
      BY <2>7 DEF EventUpdated, TypeOK
    <3> QED BY <2>2, <2>4, <2>7, <3>1 DEF EventUpdated, TypeOK
  <2> QED BY <1>3, <2>5, <2>6, <2>7
<1>4. CASE ReadResponse
  <2>1. start' \in 0 .. 7 /\ handle' \in Slave \cup {0}
    BY <1>4 DEF ReadResponse, TypeOK
  <2>2. rsp' \in BOOLEAN
    BY <1>4 DEF ReadResponse
  <2> QED BY <1>4, <2>1, <2>2 DEF ReadResponse, linkVars, TypeOK
<1>5. CASE ParamRequest
  <2>1. fifo' \in Seq(Packets)
    BY <1>5, OtherPackets DEF ParamRequest, TypeOK
  <2>2. connReq' \in {"none", "fast", "slow"}
    BY <1>5, SlaveAssumption DEF ParamRequest
  <2> QED BY <1>5, <2>1, <2>2 DEF ParamRequest, linkVars, otaVars, TypeOK
<1>6. CASE ButtonTestMode
  <2>1. led' \in [mode : 0 .. 2, step : 0 .. (Steps - 1), gpio : BOOLEAN]
    BY <1>6 DEF ButtonTestMode, TypeOK
  <2> QED BY <1>6, <2>1 DEF ButtonTestMode, linkVars, otaVars, TypeOK
<1>7. ASSUME NEW c \in Cmd, ButtonRelease(c) PROVE TypeOK'
  BY <1>7, ImageFacts DEF ButtonRelease, linkVars, TypeOK
<1>8. CASE UpdateForSlave
  BY <1>8 DEF UpdateForSlave, Update, otaVars, TypeOK
<1>9. CASE UpdateForOta
  <2>1. upd' \in {"none", "fast", "slow"} /\ pending' \in 0 .. 2
    BY <1>9 DEF UpdateForOta, Update, TypeOK
  <2> QED BY <1>9, <2>1 DEF UpdateForOta, TypeOK
<1>10. ASSUME NEW t \in Slave, Connect(t) PROVE TypeOK'
  <2>1. <<"establish">> \in Seq({"establish", "disconnect", "fast", "slow"})
    OBVIOUS
  <2> QED BY <1>10, <2>1 DEF Connect, otaVars, TypeOK
<1>11. CASE Disconnect
  <2>1. NoSlave \in [img : 0 .. 2, got : Seq(Cmd \X Int), ended : BOOLEAN]
    BY EmptySeq DEF NoSlave
  <2>2. evt' \in Seq({"establish", "disconnect", "fast", "slow"})
    BY <1>11 DEF Disconnect, TypeOK
  <2>3. rsp' \in BOOLEAN
    BY <1>11 DEF Disconnect
  <2> QED BY <1>11, <2>1, <2>2, <2>3 DEF Disconnect, otaVars, TypeOK
<1>12. CASE Updated
  <2>1. <<upd>> \in Seq({"establish", "disconnect", "fast", "slow"})
    BY <1>12 DEF Updated, TypeOK
  <2> QED BY <1>12, <2>1 DEF Updated, otaVars, TypeOK
<1>13. CASE Acked
  BY <1>13, AckedTypes DEF Acked, linkVars, otaVars, TypeOK
<1>14. CASE Timeout
  BY <1>14 DEF Timeout, linkVars, TypeOK
<1> QED BY <1>1, <1>2, <1>3, <1>4, <1>5, <1>6, <1>7, <1>8, <1>9, <1>10, <1>11, <1>12, <1>13, <1>14,
           <1>15, <1>16, <1>17 DEF Next, MainLoop
-----------------------------------------------------------------------------
(* The link, and the events about it.                                      *)
LEMMA EventFacts ==
  ASSUME NEW q \in Queues
  PROVE  /\ q # <<>> /\ Head(q) = "disconnect" => Unheard(q) /\ Tail(q) = <<>>
         /\ q # <<>> /\ Head(q) \in Event =>
              Tail(q) \in Queues /\ (Unheard(Tail(q)) <=> Unheard(q))
         /\ ~Unheard(q) => Append(q, "disconnect") \in Queues /\ Unheard(Append(q, "disconnect"))
<1>1. CASE q = <<>>
  BY <1>1, Queue DEF Queues
<1>2. CASE q = <<"disconnect">>
  BY <1>2, Queue DEF Event
<1>3. ASSUME NEW e \in Event, q = <<e>> PROVE
         /\ Head(q) = e /\ e # "disconnect" /\ Tail(q) = <<>> /\ ~Unheard(q)
         /\ Append(q, "disconnect") = <<e, "disconnect">>
  BY <1>3, Queue
<1>4. ASSUME NEW e \in Event, q = <<e, "disconnect">> PROVE
         /\ Head(q) = e /\ e # "disconnect" /\ Tail(q) = <<"disconnect">> /\ Unheard(q)
  BY <1>4, Queue
<1>5. CASE \E e \in Event : q = <<e>>
  BY <1>3, <1>5, Queue DEF Queues
<1>6. CASE \E e \in Event : q = <<e, "disconnect">>
  BY <1>4, <1>6, Queue DEF Queues
<1> QED BY <1>1, <1>2, <1>5, <1>6 DEF Queues

LEMMA QueueSingles == \A e \in Event : <<e>> \in Queues /\ ~Unheard(<<e>>)
BY Queue DEF Queues

LEMMA LinkStep ==
  ASSUME TypeOK, LinkInv, HandleOfPeer, Next PROVE LinkInv' /\ HandleOfPeer'
<1>0. <<>> \in Queues /\ ~Unheard(<<>>) /\ evt \in Queues /\ link \in {"scan", "init", "conn"}
  BY Queue DEF Queues, LinkInv, TypeOK
<1>1. CASE ProcOta
  <2>1. PICK l \in LedType : Procs(l)
    BY <1>1, ProcOtaIs
  <2>2. at = "ota" /\ at' = "req" /\ UNCHANGED <<link, peer, evt, slave>>
    BY <1>1, ProcOtaIs DEF linkVars
  <2>3. /\ handle' = handle
        /\ \/ fifo' = fifo
           \/ start # 0 /\ Connected
        /\ cmd' # 0 => start' # 0
        /\ cmd' \in {0, cmd}
        /\ start' # 0 => start # 0 \/ cmd # 0
        /\ ~Connected /\ start # 0 => start' = 0 /\ cmd' = 0
        /\ start' >= 4 => start >= 4
    BY <2>1, ProcUpdates
  <2> QED BY <2>2, <2>3 DEF LinkInv, HandleOfPeer, Connected
<1>2. CASE SdkReturn \/ ButtonIdle \/ ButtonTestMode \/ SdpFinish \/ UpdateForSlave \/ Timeout
  <2>1. /\ UNCHANGED <<link, peer, evt, start, cmd, fifo, slave, handle>>
        /\ \/ at' = at
           \/ at = "sdk" /\ at' = "button"
           \/ at = "button" /\ at' = "ota"
           \/ at = "req" /\ at' = "upd"
    BY <1>2 DEF SdkReturn, ButtonIdle, ButtonTestMode, SdpFinish, UpdateForSlave, Timeout, linkVars, otaVars
  <2> QED BY <2>1 DEF LinkInv, HandleOfPeer, Connected
<1>3. CASE EventEstablish \/ EventUpdated
  <2>1. /\ evt' = Tail(evt) /\ evt # <<>> /\ Head(evt) \in Event
        /\ UNCHANGED <<at, link, peer, cmd, fifo, slave, handle>>
        /\ start' # 0 <=> start # 0
        /\ start' >= 4 => start >= 4
    BY <1>3 DEF EventEstablish, EventUpdated, otaVars, Event
  <2>2. evt' \in Queues /\ (Unheard(evt') <=> Unheard(evt))
    BY <1>0, <2>1, EventFacts
  <2> QED BY <2>1, <2>2 DEF LinkInv, HandleOfPeer, Connected
<1>4. CASE EventDisconnect
  <2>1. /\ at = "sdk" /\ at' = "button" /\ evt # <<>> /\ Head(evt) = "disconnect" /\ evt' = Tail(evt)
        /\ fifo' = <<>> /\ UNCHANGED <<link, start, cmd, slave, handle>>
    BY <1>4 DEF EventDisconnect, otaVars
  <2>2. Unheard(evt) /\ evt' = <<>>
    BY <1>0, <2>1, EventFacts
  <2>3. link = "scan"
    BY <1>0, <2>1, <2>2 DEF LinkInv
  <2> QED BY <1>0, <2>1, <2>2, <2>3 DEF LinkInv, HandleOfPeer, Connected
<1>5. CASE EventAdvReport
  <2>1. /\ at = "sdk" /\ link = "scan" /\ evt = <<>> /\ link' = "init"
        /\ UNCHANGED <<at, evt, start, cmd, fifo, slave>>
    BY <1>5 DEF EventAdvReport, otaVars
  <2> QED BY <1>0, <2>1 DEF LinkInv, HandleOfPeer, Connected
<1>6. CASE ReadResponse
  <2>1. /\ UNCHANGED <<at, link, peer, evt, cmd, fifo, slave>>
        /\ \/ start = 3 /\ start' = 4 /\ handle' = peer
           \/ UNCHANGED <<start, handle>>
    BY <1>6 DEF ReadResponse, linkVars
  <2> QED BY <2>1 DEF LinkInv, HandleOfPeer, Connected
<1>7. CASE ParamRequest
  <2>1. Connected /\ UNCHANGED <<at, link, peer, evt, start, cmd, slave, handle>>
    BY <1>7 DEF ParamRequest, linkVars, otaVars
  <2> QED BY <2>1 DEF LinkInv, HandleOfPeer, Connected
<1>8. ASSUME NEW c \in Cmd, ButtonRelease(c) PROVE LinkInv' /\ HandleOfPeer'
  <2>1. /\ at' = "ota" /\ Connected
        /\ UNCHANGED <<link, peer, evt, start, fifo, slave, handle>>
    BY <1>8 DEF ButtonRelease, linkVars
  <2> QED BY <2>1 DEF LinkInv, HandleOfPeer, Connected
<1>9. CASE UpdateForOta
  <2>1. /\ at = "upd" /\ at' = "sdk"
        /\ UNCHANGED <<link, peer, evt, start, cmd, fifo, slave, handle>>
    BY <1>9 DEF UpdateForOta
  <2> QED BY <2>1 DEF LinkInv, HandleOfPeer, Connected
<1>10. ASSUME NEW t \in Slave, Connect(t) PROVE LinkInv' /\ HandleOfPeer'
  <2>1. /\ link = "init" /\ link' = "conn" /\ evt' = <<"establish">>
        /\ UNCHANGED <<at, start, cmd, fifo, slave, handle>>
    BY <1>10 DEF Connect, otaVars
  <2>2. evt' \in Queues /\ ~Unheard(evt')
    BY <2>1, QueueSingles DEF Event
  <2> QED BY <2>1, <2>2 DEF LinkInv, HandleOfPeer, Connected
<1>11. CASE Disconnect
  <2>1. /\ link = "conn" /\ link' = "scan" /\ evt' = Append(evt, "disconnect") /\ slave' = NoSlave
        /\ UNCHANGED <<at, start, cmd, fifo>>
    BY <1>11 DEF Disconnect, Connected, otaVars
  <2>2. evt' \in Queues /\ Unheard(evt')
    BY <1>0, <2>1, EventFacts DEF LinkInv
  <2> QED BY <2>1, <2>2 DEF LinkInv, HandleOfPeer, Connected
<1>12. CASE Updated
  <2>1. /\ link = "conn" /\ evt' = <<upd>> /\ upd \in Event
        /\ UNCHANGED <<at, link, peer, start, cmd, fifo, slave, handle>>
    BY <1>12 DEF Updated, Connected, otaVars, TypeOK, Event
  <2>2. evt' \in Queues /\ ~Unheard(evt')
    BY <2>1, QueueSingles
  <2> QED BY <2>1, <2>2 DEF LinkInv, HandleOfPeer, Connected
<1>13. CASE Acked
  <2>1. link = "conn" /\ UNCHANGED <<at, link, peer, evt, start, cmd, handle>>
    BY <1>13 DEF Acked, Connected, linkVars, otaVars
  <2> QED BY <2>1 DEF LinkInv, HandleOfPeer, Connected
<1> QED BY <1>1, <1>2, <1>3, <1>4, <1>5, <1>6, <1>7, <1>8, <1>9, <1>10, <1>11, <1>12, <1>13
        DEF Next, MainLoop
-----------------------------------------------------------------------------
(* The stream on its way to the slave.                                     *)
LEMMA StageFacts ==
  ASSUME NEW y \in Stage, NEW z
  PROVE  /\ y = At(y.img, y.n, y.ended)
         /\ y.img \in {0} \cup Image /\ y.n \in Nat /\ y.ended \in BOOLEAN
         /\ z \in Image => At(z, 0, FALSE) \in Stage
         /\ At(y.img, y.n + 1, FALSE) \in Stage /\ At(y.img, y.n, TRUE) \in Stage
BY DEF Stage, At

(* The packets of an update, sent to a slave at the stage proc_ota aims at.*)
LEMMA SendLeads ==
  ASSUME TypeOK, image \in Image, NEW x \in Stage, Aim(x), start = 6
  PROVE  /\ adr < FwSize[image] =>
              /\ Leads(x, Packet("data", image, adr \div Chunk), At(image, x.n + 1, FALSE))
              /\ adr + Chunk = Chunk * (x.n + 1) /\ x.n + 1 <= Chunks[image]
         /\ ~(adr < FwSize[image]) =>
              Leads(x, Packet("end", image, (adr - Chunk) \div Chunk), At(image, Chunks[image], TRUE))
<1>1. image \in Cmd /\ image # 0 /\ Chunks[image] \in Nat /\ x.n \in Nat
  BY ImageFacts, StageFacts
<1>2. x.img = image /\ ~x.ended /\ adr = Chunk * x.n /\ x.n <= Chunks[image]
  BY DEF Aim
<1>3. /\ Chunk * x.n < FwSize[image] => x.n < Chunks[image]
      /\ ~(Chunk * x.n < FwSize[image]) /\ x.n <= Chunks[image] => x.n = Chunks[image]
      /\ Chunk * x.n + Chunk = Chunk * (x.n + 1)
      /\ (Chunk * x.n) \div Chunk = x.n
  BY <1>1, LastChunk
<1>4. ASSUME adr < FwSize[image]
      PROVE  /\ Leads(x, Packet("data", image, adr \div Chunk), At(image, x.n + 1, FALSE))
             /\ adr + Chunk = Chunk * (x.n + 1) /\ x.n + 1 <= Chunks[image]
  <2>1. x.n < Chunks[image] /\ adr \div Chunk = x.n /\ adr + Chunk = Chunk * (x.n + 1)
    BY <1>2, <1>3, <1>4
  <2>2. x.n + 1 <= Chunks[image]
    BY <1>1, <2>1
  <2> QED BY <1>1, <1>2, <2>1, <2>2 DEF Leads, Packet
<1>5. ASSUME ~(adr < FwSize[image])
      PROVE  Leads(x, Packet("end", image, (adr - Chunk) \div Chunk), At(image, Chunks[image], TRUE))
  <2>1. x.n = Chunks[image]
    BY <1>2, <1>3, <1>5
  <2> QED BY <1>1, <1>2, <2>1 DEF Leads, Packet
<1> QED BY <1>4, <1>5

(* One turn of proc_ota leaves the stream leading where it then aims.      *)
LEMMA ProcStream ==
  ASSUME TypeOK, NEW l \in LedType, Procs(l), start # 0 => image \in Image
  PROVE  /\ start' # 0 => image' \in Image
         /\ \A x \in Stage : Connected /\ Stream(fifo, slave, x) /\ Aim(x)
              => \E y \in Stage : Stream(fifo', slave, y) /\ Aim(y)'
<1>0. fifo \in Seq(Packets) /\ image \in Cmd /\ Image \subseteq Cmd
      /\ start \in 0 .. 7 /\ cmd \in 0 .. 2
  BY ImageFacts DEF TypeOK
<1>1. start' # 0 => image' \in Image
  <2>1. CASE Begin(l)
    <3>1. cmd \in Cmd /\ image' = cmd
      BY <1>0, <2>1 DEF Begin, Cmd
    <3>2. start' # 0 => ~(FwSize[cmd] > FwMax)
      BY <2>1 DEF Begin, SetResult
    <3>3. start' # 0 => FwSize[cmd] <= FwMax
      BY <3>1, <3>2, SizeAssumption DEF Cmd
    <3> QED BY <3>1, <3>3 DEF Image
  <2>2. CASE Fail(l)
    BY <2>2 DEF Fail, SetResult
  <2>3. CASE Idle(l)
    BY <2>3 DEF Idle, otaVars
  <2>4. CASE Wait(l) \/ ReadHandle(l) \/ SendStart(l) \/ Started(l) \/ Send(l) \/ Drain(l)
    <3>1. image' = image /\ start # 0
      <4>1. CASE Wait(l)
        BY <4>1 DEF Wait, otaVars
      <4>2. CASE ReadHandle(l) \/ SendStart(l) \/ Started(l)
        BY <4>2 DEF ReadHandle, SendStart, Started
      <4>3. CASE Send(l)
        BY <4>3 DEF Send
      <4>4. CASE Drain(l)
        BY <4>4 DEF Drain
      <4> QED BY <2>4, <4>1, <4>2, <4>3, <4>4
    <3> QED BY <3>1
  <2> QED BY <2>1, <2>2, <2>3, <2>4 DEF Procs
<1>2. ASSUME Connected, NEW x \in Stage, Stream(fifo, slave, x), Aim(x)
      PROVE  \E y \in Stage : Stream(fifo', slave, y) /\ Aim(y)'
  <2>1. CASE Fail(l) \/ Begin(l) \/ Drain(l)
    <3>1. fifo' = fifo
      BY <2>1 DEF Fail, Begin, Drain
    <3>2. start' \in {0, 1} \/ UNCHANGED <<start, image, adr>>
      BY <2>1 DEF Fail, Begin, Drain, SetResult
    <3>3. Aim(x)'
      <4>1. CASE start' = 0 \/ start' = 1
        <5>1. ~(start' = 5) /\ ~(start' = 6) /\ ~(start' = 7)
          BY <4>1
        <5> QED BY <5>1 DEF Aim
      <4>2. CASE UNCHANGED <<start, image, adr>>
        BY <1>2, <4>2 DEF Aim
      <4> QED BY <3>2, <4>1, <4>2
    <3> QED BY <1>2, <3>1, <3>3
  <2>2. CASE Idle(l) \/ Wait(l)
    <3>1. UNCHANGED <<fifo, start, image, adr>>
      BY <2>2 DEF Idle, Wait, otaVars
    <3> QED BY <1>2, <3>1 DEF Aim
  <2>3. CASE ReadHandle(l)
    <3>1. fifo' = Append(fifo, Packet("read", 0, 0)) /\ start' = 3
      BY <2>3 DEF ReadHandle
    <3>2. Stream(fifo', slave, x)
      BY <1>0, <1>2, <3>1, OtherPackets, StreamPush
    <3>3. Aim(x)'
      BY <3>1 DEF Aim
    <3> QED BY <3>2, <3>3
  <2>4. CASE SendStart(l)
    <3>0. image \in Image /\ At(image, 0, FALSE) \in Stage
      <4>1. start = 4
        BY <2>4 DEF SendStart
      <4>2. image \in Image
        BY <4>1
      <4> QED BY <4>2 DEF Stage, At
    <3> PICK y \in Stage : y = At(image, 0, FALSE)
      BY <3>0
    <3>1. fifo' = Append(fifo, Packet("start", image, 0)) /\ start' = 5 /\ adr' = 0 /\ image' = image
      BY <2>4 DEF SendStart
    <3>2. start = 4 /\ image \in Image
      BY <2>4 DEF SendStart
    <3>3. y \in Stage /\ Packet("start", image, 0) \in Packets
      BY <1>0, <3>2, StageFacts, OtherPackets
    <3>4. Leads(x, Packet("start", image, 0), y)
      BY <3>2 DEF Leads, Packet
    <3>5. Stream(fifo', slave, y)
      BY <1>0, <1>2, <3>1, <3>3, <3>4, StreamPush
    <3>6. Aim(y)'
      BY <3>1 DEF Aim
    <3> QED BY <3>3, <3>5, <3>6
  <2>5. CASE Started(l)
    <3>1. start = 5 /\ start' = 6 /\ UNCHANGED <<fifo, image, adr>>
      BY <2>5 DEF Started
    <3>2. x = At(image, 0, FALSE) /\ adr = 0 /\ Chunks[image] \in Nat
      BY <1>0, <1>2, <3>1, ImageFacts DEF Aim
    <3>3. Aim(x)'
      BY <3>1, <3>2 DEF Aim, At, Chunk
    <3> QED BY <1>2, <3>1, <3>3
  <2>6. CASE Send(l)
    <3>1. start = 6 /\ image' = image /\ adr' = adr + Chunk /\ image \in Image /\ image \in Cmd
      BY <1>0, <2>6 DEF Send
    <3>2. x.n \in Nat /\ x.img = image /\ x.n <= Chunks[image] /\ Chunks[image] \in Nat
      BY <1>2, <3>1, StageFacts, ImageFacts DEF Aim
    <3>3. adr \in Nat /\ FwSize[image] \in Nat /\ adr \div Chunk \in Int /\ (adr - Chunk) \div Chunk \in Int
      BY <3>1, ImageFacts DEF TypeOK, Chunk
    <3>4. CASE adr < FwSize[image]
      <4> PICK y \in Stage : y = At(image, x.n + 1, FALSE)
        BY <3>1, <3>2, StageFacts
      <4>1. fifo' = Append(fifo, Packet("data", image, adr \div Chunk)) /\ start' = 6
        BY <2>6, <3>1, <3>4 DEF Send
      <4>2. /\ Leads(x, Packet("data", image, adr \div Chunk), y)
            /\ adr + Chunk = Chunk * (x.n + 1) /\ x.n + 1 <= Chunks[image]
        BY <1>2, <3>1, <3>4, SendLeads
      <4>3. y \in Stage /\ Packet("data", image, adr \div Chunk) \in Packets
        BY <3>1, <3>2, <3>3, StageFacts, OtherPackets
      <4>4. Stream(fifo', slave, y)
        BY <1>0, <1>2, <4>1, <4>2, <4>3, StreamPush
      <4>5. Aim(y)'
        BY <3>1, <4>1, <4>2 DEF Aim, At
      <4> QED BY <4>3, <4>4, <4>5
    <3>5. CASE ~(adr < FwSize[image])
      <4> PICK y \in Stage : y = At(image, Chunks[image], TRUE)
        BY <3>1, <3>2 DEF Stage, At
      <4> DEFINE p == Packet("end", image, (adr - Chunk) \div Chunk)
      <4>1. fifo' = Append(fifo, p) /\ start' = 7
        BY <2>6, <3>5 DEF Send
      <4>2. Leads(x, p, y)
        BY <1>2, <3>1, <3>5, SendLeads
      <4>3. y \in Stage /\ p \in Packets
        BY <3>1, <3>2, <3>3, OtherPackets DEF Stage, At
      <4>4. Stream(fifo', slave, y)
        BY <1>0, <1>2, <4>1, <4>2, <4>3, StreamPush
      <4>5. Aim(y)'
        BY <3>1, <4>1 DEF Aim
      <4> QED BY <4>3, <4>4, <4>5
    <3> QED BY <3>4, <3>5
  <2> QED BY <2>1, <2>2, <2>3, <2>4, <2>5, <2>6 DEF Procs
<1> QED BY <1>1, <1>2

(* An acknowledged packet takes the slave one stage further.               *)
LEMMA AckedStage ==
  ASSUME TypeOK, Acked, NEW x \in Stage, Leads(StageOf(slave), Head(fifo), x)
  PROVE  StageOf(slave') = x
<1> DEFINE p == Head(fifo)
<1>1. slave' = CASE p.kind = "start" -> [img |-> p.img, got |-> <<>>, ended |-> FALSE]
                 [] p.kind = "data" -> [slave EXCEPT !.got = Append(@, <<p.img, p.n>>)]
                 [] p.kind = "end" -> [slave EXCEPT !.ended = TRUE]
                 [] OTHER -> slave
  BY DEF Acked
<1>2. slave \in [img : 0 .. 2, got : Seq(Cmd \X Int), ended : BOOLEAN]
  BY DEF TypeOK
<1>3. Leads(StageOf(slave), p, x)
  OBVIOUS
<1> HIDE DEF p
<1>4. CASE p.kind \in {"read", "other"}
  <2>1. slave' = slave /\ x = StageOf(slave)
    BY <1>1, <1>3, <1>4 DEF Leads
  <2> QED BY <2>1
<1>5. CASE p.kind = "start"
  <2>1. slave' = [img |-> p.img, got |-> <<>>, ended |-> FALSE] /\ x = At(p.img, 0, FALSE)
    BY <1>1, <1>3, <1>5 DEF Leads
  <2>2. Len(<<>>) = 0
    OBVIOUS
  <2> QED BY <2>1, <2>2 DEF StageOf, At
<1>6. CASE p.kind = "data"
  <2>1. /\ slave' = [slave EXCEPT !.got = Append(slave.got, <<p.img, p.n>>)]
        /\ x = At(slave.img, Len(slave.got) + 1, FALSE) /\ ~slave.ended
    BY <1>1, <1>3, <1>6 DEF Leads, StageOf, At
  <2>2. Len(Append(slave.got, <<p.img, p.n>>)) = Len(slave.got) + 1
    <3>1. slave.got \in Seq(Cmd \X Int)
      BY <1>2
    <3> QED BY <3>1
  <2> QED BY <1>2, <2>1, <2>2 DEF StageOf, At
<1>7. CASE p.kind = "end"
  <2>1. slave' = [slave EXCEPT !.ended = TRUE] /\ x = At(slave.img, Len(slave.got), TRUE)
    BY <1>1, <1>3, <1>7 DEF Leads, StageOf, At
  <2> QED BY <1>2, <2>1 DEF StageOf, At
<1> QED BY <1>3, <1>4, <1>5, <1>6, <1>7 DEF Leads

LEMMA StreamStep == ASSUME TransferInv, Next PROVE StreamInv'
<1>0. /\ TypeOK /\ LinkInv /\ (start # 0 => image \in Image)
      /\ fifo \in Seq(Packets) /\ start \in 0 .. 7
      /\ Connected => \E y \in Stage : Stream(fifo, slave, y) /\ Aim(y)
  BY DEF TransferInv, StreamInv, TypeOK
<1>1. CASE ProcOta
  <2>1. PICK l \in LedType : Procs(l)
    BY <1>0, <1>1, ProcOtaIs
  <2>2. link' = link /\ slave' = slave
    BY <1>0, <1>1, ProcOtaIs DEF linkVars
  <2>3. start' # 0 => image' \in Image
    BY <1>0, <2>1, ProcStream
  <2>4. Connected => \E y \in Stage : Stream(fifo', slave, y) /\ Aim(y)'
    BY <1>0, <2>1, ProcStream
  <2> QED BY <2>2, <2>3, <2>4 DEF StreamInv, Connected
<1>2. CASE UNCHANGED <<link, fifo, slave, start, image, adr>>
  BY <1>0, <1>2 DEF StreamInv, Connected, Aim
<1>3. CASE ~Connected' /\ UNCHANGED <<start, image>>
  BY <1>0, <1>3 DEF StreamInv
<1>4. CASE EventUpdated \/ ReadResponse
  <2>1. UNCHANGED <<link, fifo, slave, image, adr>>
    BY <1>4 DEF EventUpdated, ReadResponse, linkVars
  <2>2. \/ start' = start
        \/ start = 1 /\ start' = 2
        \/ start = 3 /\ start' = 4
    BY <1>4 DEF EventUpdated, ReadResponse
  <2>3. CASE start' = start
    BY <1>2, <2>1, <2>3
  <2>4. CASE start # 0 /\ (start' = 2 \/ start' = 4)
    <3>1. ~(start' = 5) /\ ~(start' = 6) /\ ~(start' = 7)
      BY <2>4
    <3>2. ASSUME NEW y \in Stage PROVE Aim(y)'
      BY <3>1 DEF Aim
    <3>3. Connected' => \E y \in Stage : Stream(fifo', slave', y) /\ Aim(y)'
      BY <1>0, <2>1, <3>2 DEF Connected
    <3>4. start' # 0 => image' \in Image
      BY <1>0, <2>1, <2>4
    <3> QED BY <3>3, <3>4 DEF StreamInv
  <2> QED BY <2>2, <2>3, <2>4
<1>5. CASE ParamRequest
  <2>1. /\ UNCHANGED <<link, slave, start, image, adr>>
        /\ fifo' = fifo \/ fifo' = Append(fifo, Packet("other", 0, 0))
    BY <1>5 DEF ParamRequest, linkVars, otaVars
  <2>2. ASSUME NEW y \in Stage, Stream(fifo, slave, y), Aim(y)
        PROVE  Stream(fifo', slave', y) /\ Aim(y)'
    <3>1. Stream(Append(fifo, Packet("other", 0, 0)), slave, y)
      BY <1>0, <2>2, OtherPackets, StreamPush
    <3>2. Aim(y)'
      BY <2>1, <2>2 DEF Aim
    <3> QED BY <2>1, <2>2, <3>1, <3>2
  <2> QED BY <1>0, <2>1, <2>2 DEF StreamInv, Connected
<1>6. ASSUME NEW t \in Slave, Connect(t) PROVE StreamInv'
  <2>1. /\ link = "init" /\ UNCHANGED <<fifo, slave, start, image>>
    BY <1>6 DEF Connect, otaVars
  <2>2. ~Unheard(<<>>)
    BY Queue
  <2>3. fifo = <<>> /\ slave = NoSlave /\ start = 0
    BY <1>0, <2>1, <2>2 DEF LinkInv
  <2>4. StageOf(NoSlave) \in Stage
    <3>1. Len(<<>>) = 0
      OBVIOUS
    <3> QED BY <3>1 DEF StageOf, NoSlave, Stage, At
  <2>5. Stream(fifo', slave', StageOf(NoSlave))
    BY <2>1, <2>3, <2>4, StreamEmpty
  <2>6. PICK y \in Stage : y = StageOf(NoSlave)
    BY <2>4
  <2>7. Aim(y)'
    <3>1. ~(start' = 5) /\ ~(start' = 6) /\ ~(start' = 7)
      BY <2>1, <2>3
    <3> QED BY <3>1 DEF Aim
  <2>8. start' # 0 => image' \in Image
    BY <1>0, <2>1
  <2> QED BY <2>5, <2>6, <2>7, <2>8 DEF StreamInv
<1>7. CASE EventDisconnect
  <2>1. evt # <<>> /\ Head(evt) = "disconnect" /\ UNCHANGED <<link, start, image>>
    BY <1>7 DEF EventDisconnect, otaVars
  <2>2. Unheard(evt)
    BY <1>0, <2>1, EventFacts DEF LinkInv
  <2>3. ~Connected'
    BY <1>0, <2>1, <2>2 DEF LinkInv, Connected
  <2> QED BY <1>3, <2>1, <2>3
<1>8. CASE Acked
  <2>1. Connected /\ fifo # <<>> /\ fifo' = Tail(fifo) /\ UNCHANGED <<link, start, image, adr>>
    BY <1>8 DEF Acked, linkVars, otaVars
  <2>2. PICK y \in Stage : Stream(fifo, slave, y) /\ Aim(y)
    BY <1>0, <2>1
  <2>3. PICK x \in Stage : /\ Leads(StageOf(slave), Head(fifo), x)
                           /\ \A t : StageOf(t) = x => Stream(Tail(fifo), t, y)
    BY <1>0, <2>1, <2>2, StreamPop
  <2>4. StageOf(slave') = x
    BY <1>0, <1>8, <2>3, AckedStage
  <2>5. Stream(fifo', slave', y)
    BY <2>1, <2>3, <2>4
  <2>6. Aim(y)'
    BY <2>1, <2>2 DEF Aim
  <2>7. start' # 0 => image' \in Image
    BY <1>0, <2>1
  <2> QED BY <2>5, <2>6, <2>7 DEF StreamInv
<1>9. CASE \/ SdkReturn \/ EventEstablish \/ SdpFinish \/ ButtonIdle \/ ButtonTestMode
           \/ (\E c \in Cmd : ButtonRelease(c)) \/ UpdateForSlave \/ UpdateForOta \/ Updated \/ Timeout
  <2>1. UNCHANGED <<link, fifo, slave, start, image, adr>>
    BY <1>9 DEF SdkReturn, EventEstablish, SdpFinish, ButtonIdle, ButtonTestMode, ButtonRelease,
                UpdateForSlave, UpdateForOta, Updated, Timeout, linkVars, otaVars
  <2> QED BY <1>2, <2>1
<1>10. CASE Disconnect \/ EventAdvReport
  <2>1. ~Connected' /\ UNCHANGED <<start, image>>
    BY <1>10 DEF Disconnect, EventAdvReport, Connected, otaVars
  <2> QED BY <1>3, <2>1
<1> QED BY <1>1, <1>4, <1>5, <1>6, <1>7, <1>8, <1>9, <1>10 DEF Next, MainLoop

LEMMA TransferInit == Init => TransferInv
<1> SUFFICES ASSUME Init PROVE TransferInv
  OBVIOUS
<1>1. /\ <<>> \in Seq({"establish", "disconnect", "fast", "slow"}) /\ <<>> \in Seq(Packets)
      /\ <<>> \in Seq(Cmd \X Int)
  BY EmptySeq
<1>2. NoSlave \in [img : 0 .. 2, got : Seq(Cmd \X Int), ended : BOOLEAN]
  BY <1>1 DEF NoSlave
<1>3. led \in [mode : 0 .. 2, step : 0 .. (Steps - 1), gpio : BOOLEAN]
  BY SizeAssumption DEF Init
<1>4. TypeOK
  <2>1. sdp \in BOOLEAN /\ late \in BOOLEAN /\ rsp \in BOOLEAN
    BY DEF Init
  <2> QED BY <1>1, <1>2, <1>3, <2>1, ImageFacts DEF Init, TypeOK
<1>5. LinkInv
  BY Queue DEF Init, LinkInv, Queues
<1>6. HandleOfPeer /\ StreamInv
  BY DEF Init, HandleOfPeer, StreamInv, Connected
<1> QED BY <1>4, <1>5, <1>6 DEF TransferInv

LEMMA TransferSame ==
  ASSUME TransferInv, UNCHANGED vars PROVE TransferInv'
<1>1. TypeOK'
  BY DEF TransferInv, TypeOK, vars, linkVars, otaVars
<1>2. LinkInv' /\ HandleOfPeer'
  BY DEF TransferInv, LinkInv, HandleOfPeer, Connected, vars, linkVars, otaVars
<1>3. StreamInv'
  BY DEF TransferInv, StreamInv, Connected, Aim, vars, linkVars, otaVars
<1> QED BY <1>1, <1>2, <1>3 DEF TransferInv

LEMMA TransferKept == Spec => []TransferInv
<1>1. ASSUME TransferInv, [Next]_vars PROVE TransferInv'
  <2>1. CASE Next
    BY <1>1, <2>1, TypeStep, LinkStep, StreamStep DEF TransferInv
  <2>2. CASE UNCHANGED vars
    BY <1>1, <2>2, TransferSame
  <2> QED BY <1>1, <2>1, <2>2
<1> QED BY <1>1, TransferInit, PTL DEF Spec

(* The chunks are written to the handle that was read from the slave that  *)
(* is connected now, and every variable has its type: a disconnection      *)
(* ends the update in the same turn, before proc_ota could go on with the  *)
(* handle of another slave.                                                *)
THEOREM ChunksGoToTheirSlave == Spec => []UpdateInv
<1>1. TransferInv => UpdateInv
  BY DEF TransferInv, UpdateInv
<1> QED BY <1>1, TransferKept, PTL

-----------------------------------------------------------------------------
(* The transfer a slave sees.                                              *)
Busy == IF start = 0 THEN 0 ELSE image

LEMMA TransferStep ==
  ASSUME TransferInv, Next
  PROVE  Promise!Next \/ UNCHANGED <<Busy, slave, outcome>>
<1>0. /\ TypeOK /\ (start # 0 => image \in Image) /\ start \in 0 .. 7 /\ cmd \in 0 .. 2
      /\ Connected => \E y \in Stage : Stream(fifo, slave, y) /\ Aim(y)
  BY DEF TransferInv, StreamInv, TypeOK
<1>1. CASE ProcOta
  <2>1. PICK l \in LedType : Procs(l)
    BY <1>0, <1>1, ProcOtaIs
  <2>2. slave' = slave
    BY <1>0, <1>1, ProcOtaIs
  <2>3. ASSUME SetResult(FALSE, l) PROVE Promise!Fail
    BY <2>2, <2>3 DEF SetResult, Promise!Fail, Promise!NoImage
  <2>4. CASE Fail(l)
    BY <2>3, <2>4 DEF Fail, Promise!Next
  <2>5. CASE Begin(l)
    <3>1. CASE FwSize[cmd] > FwMax
      BY <2>3, <2>5, <3>1 DEF Begin, Promise!Next
    <3>2. CASE ~(FwSize[cmd] > FwMax)
      <4>1. start = 0 /\ start' = 1 /\ image' = cmd /\ outcome' = outcome /\ cmd \in Cmd
        <5>1. start = 0 /\ cmd # 0 /\ image' = cmd
          BY <2>5 DEF Begin
        <5>2. start' = 1 /\ outcome' = outcome
          BY <2>5, <3>2 DEF Begin
        <5> QED BY <1>0, <5>1, <5>2 DEF Cmd
      <4>2. cmd \in Image
        BY <3>2, <4>1, SizeAssumption DEF Image, Cmd
      <4>3. Promise!Begin(cmd)
        BY <2>2, <4>1 DEF Promise!Begin, Promise!NoImage
      <4> QED BY <4>2, <4>3 DEF Promise!Next
    <3> QED BY <3>1, <3>2
  <2>6. CASE Idle(l) \/ Wait(l)
    <3>1. UNCHANGED <<start, image, outcome>>
      BY <2>6 DEF Idle, Wait, otaVars
    <3> QED BY <2>2, <3>1 DEF Busy
  <2>7. CASE ReadHandle(l) \/ SendStart(l) \/ Started(l)
    <3>1. start # 0 /\ start' # 0 /\ UNCHANGED <<image, outcome>>
      BY <2>7 DEF ReadHandle, SendStart, Started
    <3> QED BY <2>2, <3>1 DEF Busy
  <2>8. CASE Send(l)
    <3>1. start # 0 /\ start' # 0 /\ UNCHANGED <<image, outcome>>
      BY <2>8 DEF Send
    <3> QED BY <2>2, <3>1 DEF Busy
  <2>9. CASE Drain(l)
    <3>1. start = 7 /\ Connected /\ image' = image
      BY <2>9 DEF Drain, GaveUp
    <3>2. CASE fifo # <<>>
      <4>1. UNCHANGED <<start, image, outcome>>
        BY <2>9, <3>2 DEF Drain
      <4> QED BY <2>2, <4>1 DEF Busy
    <3>3. CASE fifo = <<>>
      <4>1. start' = 0 /\ outcome' = "ok"
        BY <2>9, <3>3 DEF Drain, SetResult
      <4>2. PICK y \in Stage : Stream(fifo, slave, y) /\ Aim(y)
        BY <1>0, <3>1
      <4>3. StageOf(slave) = At(image, Chunks[image], TRUE)
        BY <3>1, <3>3, <4>2, StreamEmpty DEF Aim
      <4>4. slave.img = image /\ slave.ended
        BY <4>3 DEF StageOf, At
      <4>5. Promise!Succeed
        BY <2>2, <3>1, <4>1, <4>4 DEF Promise!Succeed, Promise!NoImage
      <4> QED BY <4>5 DEF Promise!Next
    <3> QED BY <3>2, <3>3
  <2> QED BY <2>1, <2>4, <2>5, <2>6, <2>7, <2>8, <2>9 DEF Procs
<1>2. CASE Acked
  <2> DEFINE p == Head(fifo)
  <2>1. Connected /\ fifo # <<>> /\ fifo \in Seq(Packets) /\ UNCHANGED <<start, image, outcome>>
    BY <1>0, <1>2 DEF Acked, otaVars, TypeOK
  <2>2. PICK x \in Stage : Leads(StageOf(slave), p, x)
    BY <1>0, <2>1, StreamPop
  <2>3. slave' = CASE p.kind = "start" -> [img |-> p.img, got |-> <<>>, ended |-> FALSE]
                   [] p.kind = "data" -> [slave EXCEPT !.got = Append(@, <<p.img, p.n>>)]
                   [] p.kind = "end" -> [slave EXCEPT !.ended = TRUE]
                   [] OTHER -> slave
    BY <1>2 DEF Acked
  <2>4. UNCHANGED <<Busy, outcome>>
    BY <2>1 DEF Busy
  <2> HIDE DEF p
  <2>5. CASE p.kind \in {"read", "other"}
    BY <2>3, <2>4, <2>5
  <2>6. CASE p.kind = "start"
    <3>1. p.img \in Image
      BY <2>2, <2>6 DEF Leads
    <3>2. Promise!Start(p.img)
      BY <2>1, <2>3, <2>6 DEF Promise!Start
    <3> QED BY <3>1, <3>2 DEF Promise!Next
  <2>7. CASE p.kind = "data"
    <3>1. /\ p.img = slave.img /\ p.n = Len(slave.got) /\ slave.img # 0 /\ ~slave.ended
          /\ Len(slave.got) < Chunks[slave.img]
      BY <2>2, <2>7 DEF Leads, StageOf, At
    <3>2. slave' = [slave EXCEPT !.got = Append(slave.got, <<slave.img, Len(slave.got)>>)]
      BY <2>3, <2>7, <3>1
    <3>3. Promise!Data
      BY <2>1, <3>1, <3>2 DEF Promise!Data, Promise!NoImage
    <3> QED BY <3>3 DEF Promise!Next
  <2>8. CASE p.kind = "end"
    <3>1. slave.img # 0 /\ ~slave.ended /\ Len(slave.got) = Chunks[slave.img]
      BY <2>2, <2>8 DEF Leads, StageOf, At
    <3>2. Promise!End
      BY <2>1, <2>3, <2>8, <3>1 DEF Promise!End, Promise!NoImage
    <3> QED BY <3>2 DEF Promise!Next
  <2> QED BY <2>2, <2>5, <2>6, <2>7, <2>8 DEF Leads
<1>3. CASE Disconnect
  <2>1. slave' = NoSlave /\ UNCHANGED <<start, image, outcome>>
    BY <1>3 DEF Disconnect, otaVars
  <2>2. Promise!Lose
    BY <2>1 DEF Promise!Lose, Promise!NoSlave, Promise!NoImage, NoSlave
  <2> QED BY <2>2 DEF Promise!Next
<1>4. CASE EventUpdated \/ ReadResponse
  <2>1. UNCHANGED <<image, slave, outcome>> /\ (start' = start \/ (start # 0 /\ start' # 0))
    BY <1>4 DEF EventUpdated, ReadResponse
  <2> QED BY <2>1 DEF Busy
<1>5. CASE \/ SdkReturn \/ EventEstablish \/ SdpFinish \/ ButtonIdle \/ ButtonTestMode
           \/ (\E c \in Cmd : ButtonRelease(c)) \/ UpdateForSlave \/ UpdateForOta \/ Updated \/ Timeout
           \/ EventDisconnect \/ EventAdvReport \/ ParamRequest \/ (\E s \in Slave : Connect(s))
  <2>1. UNCHANGED <<slave, start, image, outcome>>
    BY <1>5 DEF SdkReturn, EventEstablish, SdpFinish, ButtonIdle, ButtonTestMode, ButtonRelease,
                UpdateForSlave, UpdateForOta, Updated, Timeout, EventDisconnect, EventAdvReport,
                ParamRequest, Connect, linkVars, otaVars
  <2> QED BY <2>1 DEF Busy
<1> QED BY <1>1, <1>2, <1>3, <1>4, <1>5 DEF Next, MainLoop

(* What the slaves receive is what OtaTransfer promises: the chunks of one *)
(* image, in order and without a gap, the end only behind the last, and    *)
(* no success reported before the slave has seen it.                       *)
THEOREM SlaveReceivesTheImage == Spec => Transfers
<1>1. Init => Promise!Init
  BY DEF Init, Promise!Init, Promise!NoImage, Promise!NoSlave, NoSlave
<1>2. ASSUME TransferInv, [Next]_vars
      PROVE  [Promise!Next]_<<IF start = 0 THEN 0 ELSE image, slave, outcome>>
  <2>1. CASE Next
    BY <1>2, <2>1, TransferStep DEF Busy
  <2>2. CASE UNCHANGED vars
    BY <2>2 DEF vars, otaVars
  <2> QED BY <1>2, <2>1, <2>2
<1>3. Spec => Promise!Spec
  BY <1>1, <1>2, TransferKept, PTL DEF Spec, Promise!Spec
<1> QED BY <1>3 DEF Transfers
=============================================================================
