----------------------------- MODULE DongleLink ------------------------------
(* The host of the dongle: it connects to slaves that are bonded or paired *)
(* by hand, discovers the services of a slave it does not know yet, passes *)
(* its keys on, and drops and forgets it when asked to.                    *)
(*                                                                         *)
(* main_loop calls main_idle_loop and then the registered main_service,    *)
(* which is the service discovery.  The discovery waits for each answer of *)
(* the slave by calling main_idle_loop itself, so that links come and go,  *)
(* events are handled and buttons read underneath a discovery that still   *)
(* runs.  One turn of main_idle_loop is the sequence "sdk", "button",      *)
(* "unpair"; "loop" is where it returns to.  The controller and the slaves *)
(* move between any two steps.                                             *)
EXTENDS Naturals, Sequences, SequencesExt

CONSTANTS
  Slave,       \* the slaves, by address
  Requests,    \* the requests one discovery takes
  MaxBonds,    \* USER_PAIR_SLAVE_MAX_NUM
  MaxEvt       \* bound: events and packets the stack has not yet handed over

ASSUME BoundAssumption == Requests \in Nat \ {0} /\ MaxBonds \in Nat \ {0} /\ MaxEvt \in Nat \ {0}
ASSUME SlaveAssumption == 0 \notin Slave

VARIABLES
  at,          \* where main_loop is
  link,        \* the controller
  peer,        \* the slave it is connecting or connected to
  evt,         \* what it has to report, in order
  term,        \* the host has asked for the end of the link
  ask,         \* a request of a discovery is on its way to the peer
  conn,        \* current_connHandle is valid
  cur,         \* current_conn_address
  pending,     \* app_host_smp_sdp_pending, 0 or SDP_PENDING
  service,     \* main_service is registered
  known,       \* serviceDiscovery_address
  handles,     \* the slaves conn_char_handler was read from
  disc,        \* the running discovery: requests left, slaves that answered
  busy,        \* host_att_req_busy
  aimed,       \* p_att_response has been set, and is never cleared
  bonds,       \* the bonded slaves, oldest first
  pairing,     \* dongle_pairing_enable
  unpair,      \* dongle_unpair_enable
  disconnecting, \* master_disconnect_flag
  manual,      \* user_manual_paring
  auto,        \* master_auto_connect
  held,        \* the slave whose key the USB host sees pressed
  tried        \* history: a discovery began on this connection

linkVars == <<link, peer, evt, term, ask>>
sdpVars == <<pending, service, known, handles, disc, busy, aimed>>
bondVars == <<bonds, pairing, unpair, disconnecting, manual, auto>>
vars == <<at, linkVars, conn, cur, sdpVars, bondVars, held, tried>>

SDP_PENDING == 2
NoDisc == [on |-> FALSE, left |-> 0, got |-> {}]
InConn == link \in {"up", "conn"}     \* BLS_LINK_STATE_CONN

Init ==
  /\ at = "sdk" /\ link = "scan" /\ peer = 0 /\ evt = <<>> /\ term = FALSE /\ ask = FALSE
  /\ conn = FALSE /\ cur = 0 /\ pending = 0 /\ service = FALSE /\ known = 0 /\ handles = {}
  /\ disc = NoDisc /\ busy = FALSE /\ aimed = FALSE
  /\ bonds = <<>> /\ pairing = FALSE /\ unpair = FALSE /\ disconnecting = FALSE
  /\ manual = FALSE /\ auto = FALSE /\ held = 0 /\ tried = FALSE

-----------------------------------------------------------------------------
(* blt_sdk_main_loop: the callbacks.                                       *)

SdkReturn ==
  /\ at = "sdk" /\ at' = "button"
  /\ UNCHANGED <<linkVars, conn, cur, sdpVars, bondVars, held, tried>>

Take(e) == at = "sdk" /\ evt # <<>> /\ Head(evt) = e /\ evt' = Tail(evt)

(* user_tbl_slave_mac_add: a full table loses its oldest bond.             *)
BondAdd(b, s) == Append(IF Len(b) >= MaxBonds THEN Tail(b) ELSE b, s)

EventEstablish ==
  /\ Take("establish")
  /\ at' = at
  /\ conn' = TRUE /\ cur' = peer
  /\ bonds' = IF manual /\ ~auto THEN BondAdd(bonds, peer) ELSE bonds
  /\ IF peer # known
       THEN service' = TRUE /\ pending' = SDP_PENDING
       ELSE pending' = 0 /\ UNCHANGED service
  /\ UNCHANGED <<link, peer, term, ask, known, handles, disc, busy, aimed, pairing,
                 unpair, disconnecting, manual, auto, held, tried>>

(* Mutation: the key that is down is not released.                         *)
EventDisconnectKeyStays ==
  /\ Take("disconnect")
  /\ at' = "button" /\ link' = "scan" /\ peer' = 0
  /\ conn' = FALSE /\ pending' = 0 /\ tried' = FALSE
  /\ UNCHANGED <<term, ask, cur, service, known, handles, disc, busy, aimed, bondVars, held>>

(* Mutation: the scan is not started again.                                *)
EventDisconnectNoScan ==
  /\ Take("disconnect")
  /\ at' = "button" /\ link' = link /\ peer' = 0
  /\ conn' = FALSE /\ pending' = 0 /\ held' = 0 /\ tried' = FALSE
  /\ UNCHANGED <<term, ask, cur, service, known, handles, disc, busy, aimed, bondVars>>

(* Nothing the new scan finds is reported before the next turn.            *)
EventDisconnect ==
  /\ Take("disconnect")
  /\ at' = "button" /\ link' = "scan" /\ peer' = 0
  /\ conn' = FALSE /\ pending' = 0 /\ held' = 0 /\ tried' = FALSE
  /\ UNCHANGED <<term, ask, cur, service, known, handles, disc, busy, aimed, bondVars>>

(* An advertisement, from near by or not, with the pairing data or not;    *)
(* blc_ll_createConnection may refuse.                                     *)
EventAdvReport(s, near, trigger) ==
  /\ at = "sdk" /\ evt = <<>> /\ link = "scan" /\ pending = 0
  /\ manual' = (near /\ (pairing \/ trigger))
  /\ auto' = (s \in Range(bonds))
  /\ \/ /\ manual' \/ auto'
        /\ link' = "init" /\ peer' = s
     \/ UNCHANGED <<link, peer>>
  /\ UNCHANGED <<at, evt, term, ask, conn, cur, sdpVars, bonds, pairing, unpair, disconnecting,
                 held, tried>>

(* Mutation: responses are accepted whenever one is awaited.               *)
AcceptedAnyTime(error) == aimed /\ (busy \/ error)

(* host_att_client_handler compares the opcode and the low bits of the     *)
(* handle, which are 0: with no request in host_att_req_busy an error      *)
(* response still passes.                                                  *)
Accepted(error) == pending = SDP_PENDING /\ aimed /\ (busy \/ error)

(* What is read is the slaves', or not worth telling apart.                *)
Mixed(got) == IF 0 \in got THEN {0} ELSE got

(* A response goes where p_att_response points: into the frame of the      *)
(* discovery, or to where one was, which may be anything by now.  "lost"   *)
(* stands for a program that has overwritten itself.                       *)
Copied(from) ==
  /\ busy' = FALSE
  /\ \/ disc.on /\ disc' = [disc EXCEPT !.got = Mixed(@ \cup {from})] /\ at' = at
     \/ ~disc.on /\ disc' = disc /\ at' \in {at, "lost"}

(* An ATT response, which some request asked for or none did.              *)
AttResponse ==
  /\ \/ Take("answer")
     \/ Take("stray")
  /\ \E error \in BOOLEAN :
       IF Accepted(error)
         THEN Copied(IF Head(evt) = "answer" THEN peer ELSE 0)
         ELSE UNCHANGED <<at, busy, disc>>
  /\ UNCHANGED <<link, peer, term, ask, conn, cur, pending, service, known, handles, aimed, bondVars,
                 held, tried>>

(* A key notification, looked up in conn_char_handler; the handles of      *)
(* another slave may be the same or not.                                   *)
Recognised == IF handles = {} THEN {FALSE} ELSE IF handles = {peer} THEN {TRUE} ELSE BOOLEAN

AttKey(k) ==
  /\ Take(k)
  /\ \E r \in Recognised :
       /\ held' = CASE r /\ k = "down" -> peer [] r /\ k = "released" -> 0 [] OTHER -> held
       /\ unpair' = (unpair \/ (r /\ k = "unpair"))
  /\ UNCHANGED <<at, link, peer, term, ask, conn, cur, sdpVars, bonds, pairing, disconnecting,
                 manual, auto, tried>>

Key == {"down", "released", "unpair"}

Deliver ==
  \/ EventEstablish \/ EventDisconnect \/ AttResponse
  \/ \E k \in Key : AttKey(k)

Scan == \E s \in Slave, near, trigger \in BOOLEAN : EventAdvReport(s, near, trigger)

-----------------------------------------------------------------------------
(* proc_button, and host_unpair_proc.                                      *)

ButtonIdle == pairing' = pairing /\ unpair' = unpair
ButtonPair == pairing' = TRUE /\ unpair' = unpair
ButtonUnpair == unpair' = TRUE /\ pairing' = pairing
ButtonRelease == pairing' = FALSE /\ unpair' = FALSE

ProcButton ==
  /\ at = "button" /\ at' = "unpair"
  /\ ButtonIdle \/ ButtonPair \/ ButtonUnpair \/ ButtonRelease
  /\ UNCHANGED <<linkVars, conn, cur, sdpVars, bonds, disconnecting, manual, auto, held, tried>>

(* Mutation: the table is emptied before the link is known to end.         *)
HostUnpairFirst ==
  /\ at = "unpair" /\ at' = "loop"
  /\ \E ok \in BOOLEAN :
       LET go == unpair /\ ~disconnecting /\ InConn /\ conn /\ ok IN
       /\ term' = (term \/ go)
       /\ unpair' = (unpair /\ ~go)
       /\ bonds' = IF unpair THEN <<>> ELSE bonds
       /\ disconnecting' = (InConn /\ (disconnecting \/ go))
  /\ UNCHANGED <<link, peer, evt, ask, conn, cur, sdpVars, pairing, manual, auto, held, tried>>

(* Mutation: the flag is left set when the link is gone.                   *)
HostUnpairStuck ==
  /\ at = "unpair" /\ at' = "loop"
  /\ \E ok \in BOOLEAN :
       LET go == unpair /\ ~disconnecting /\ InConn /\ conn /\ ok IN
       /\ term' = (term \/ go)
       /\ unpair' = (unpair /\ ~go)
       /\ bonds' = IF go THEN <<>> ELSE bonds
       /\ disconnecting' = (disconnecting \/ go)
  /\ UNCHANGED <<link, peer, evt, ask, conn, cur, sdpVars, pairing, manual, auto, held, tried>>

(* blm_ll_disconnect may fail, and does for an invalid handle.             *)
HostUnpair ==
  /\ at = "unpair" /\ at' = "loop"
  /\ \E ok \in BOOLEAN :
       LET go == unpair /\ ~disconnecting /\ InConn /\ conn /\ ok IN
       /\ term' = (term \/ go)
       /\ unpair' = (unpair /\ ~go)
       /\ bonds' = IF go THEN <<>> ELSE bonds
       /\ disconnecting' = (InConn /\ (disconnecting \/ go))
  /\ UNCHANGED <<link, peer, evt, ask, conn, cur, sdpVars, pairing, manual, auto, held, tried>>

-----------------------------------------------------------------------------
(* main_loop, and host_att_service_wait_event underneath it.               *)

(* Mutations: a discovery that timed out stays pending; its part of the    *)
(* answers is saved.                                                       *)
SdpEndKeepsPending == service' = FALSE /\ disc' = NoDisc /\ at' = "sdk" /\ UNCHANGED pending
SdpTimeoutSaves ==
  /\ at = "loop" /\ disc.on
  /\ known' = cur /\ handles' = disc.got
  /\ pending' = 0 /\ service' = FALSE /\ disc' = NoDisc /\ at' = "sdk"
  /\ UNCHANGED <<linkVars, conn, cur, busy, aimed, bondVars, held, tried>>

(* app_service_discovery returns, and main_loop forgets the service.       *)
SdpEnd == service' = FALSE /\ disc' = NoDisc /\ at' = "sdk" /\ pending' = 0

NoService ==
  /\ at = "loop" /\ ~disc.on /\ ~service
  /\ at' = "sdk"
  /\ UNCHANGED <<linkVars, conn, cur, sdpVars, bondVars, held, tried>>

(* A packet pushed without a link is dropped by the stack.                 *)
Push == busy' = TRUE /\ aimed' = TRUE /\ ask' = InConn

SdpBegin ==
  /\ at = "loop" /\ ~disc.on /\ service /\ conn
  /\ disc' = [on |-> TRUE, left |-> Requests, got |-> {}]
  /\ tried' = TRUE
  /\ Push
  /\ UNCHANGED <<at, link, peer, evt, term, conn, cur, pending, service, known, handles, bondVars, held>>

SdpNoLink ==
  /\ at = "loop" /\ ~disc.on /\ service /\ ~conn
  /\ SdpEnd
  /\ UNCHANGED <<linkVars, conn, cur, known, handles, busy, aimed, bondVars, held, tried>>

(* One second without an answer.                                           *)
SdpTimeout ==
  /\ at = "loop" /\ disc.on
  /\ SdpEnd
  /\ UNCHANGED <<linkVars, conn, cur, known, handles, busy, aimed, bondVars, held, tried>>

SdpIdle ==
  /\ at = "loop" /\ disc.on /\ busy
  /\ at' = "sdk"
  /\ UNCHANGED <<linkVars, conn, cur, sdpVars, bondVars, held, tried>>

(* Mutation: one request too many.                                         *)
SdpNextUnbounded ==
  /\ at = "loop" /\ disc.on /\ ~busy
  /\ disc' = [disc EXCEPT !.left = @ - 1]
  /\ Push
  /\ UNCHANGED <<at, link, peer, evt, term, conn, cur, pending, service, known, handles, bondVars,
                 held, tried>>

SdpNext ==
  /\ at = "loop" /\ disc.on /\ ~busy /\ disc.left > 1
  /\ disc' = [disc EXCEPT !.left = @ - 1]
  /\ Push
  /\ UNCHANGED <<at, link, peer, evt, term, conn, cur, pending, service, known, handles, bondVars,
                 held, tried>>

(* The last answer is in; what the slave answered tells which it is.       *)
SdpDone ==
  /\ at = "loop" /\ disc.on /\ ~busy
  /\ known' = cur /\ handles' = disc.got
  /\ SdpEnd
  /\ UNCHANGED <<linkVars, conn, cur, busy, aimed, bondVars, held, tried>>

MainLoop ==
  \/ SdkReturn \/ Deliver \/ ProcButton \/ HostUnpair
  \/ NoService \/ SdpBegin \/ SdpNoLink \/ SdpTimeout \/ SdpIdle \/ SdpNext \/ SdpDone

-----------------------------------------------------------------------------
(* The controller and the slaves.                                          *)

hostVars == <<at, conn, cur, sdpVars, bondVars, held, tried>>

Connect ==
  /\ link = "init" /\ link' = "up"
  /\ UNCHANGED <<hostVars, peer, evt, term, ask>>

Establish ==
  /\ link = "up" /\ link' = "conn"
  /\ evt' = Append(evt, "establish")
  /\ UNCHANGED <<hostVars, peer, term, ask>>

(* The slave leaves or is lost, never answered, or is sent away.           *)
Drop ==
  /\ InConn /\ link' = "idle"
  /\ evt' = Append(evt, "disconnect")
  /\ term' = FALSE /\ ask' = FALSE
  /\ UNCHANGED <<hostVars, peer>>

Answer ==
  /\ link = "conn" /\ ask /\ Len(evt) < MaxEvt
  /\ ask' = FALSE
  /\ evt' = Append(evt, "answer")
  /\ UNCHANGED <<hostVars, link, peer, term>>

(* A response or an error response to no request of the discovery.         *)
Stray ==
  /\ link = "conn" /\ Len(evt) < MaxEvt
  /\ evt' = Append(evt, "stray")
  /\ UNCHANGED <<hostVars, link, peer, term, ask>>

Notify(k) ==
  /\ link = "conn" /\ Len(evt) < MaxEvt
  /\ evt' = Append(evt, k)
  /\ UNCHANGED <<hostVars, link, peer, term, ask>>

(* The user takes a dongle that is dead out and puts it in again; only the *)
(* table is in flash.                                                      *)
Replug ==
  /\ at = "lost" /\ at' = "sdk"
  /\ link' = "scan" /\ peer' = 0 /\ evt' = <<>> /\ term' = FALSE /\ ask' = FALSE
  /\ conn' = FALSE /\ cur' = 0 /\ pending' = 0 /\ service' = FALSE /\ known' = 0 /\ handles' = {}
  /\ disc' = NoDisc /\ busy' = FALSE /\ aimed' = FALSE
  /\ pairing' = FALSE /\ unpair' = FALSE /\ disconnecting' = FALSE
  /\ manual' = FALSE /\ auto' = FALSE /\ held' = 0 /\ tried' = FALSE
  /\ UNCHANGED bonds

Next ==
  \/ MainLoop \/ Scan
  \/ Connect \/ Establish \/ Drop \/ Answer \/ Stray \/ (\E k \in Key : Notify(k))
  \/ Replug

Spec == Init /\ [][Next]_vars

(* The program runs, its clock goes on and the stack hands over what it    *)
(* has.  A bonded slave goes on advertising, and a connection to it is     *)
(* made and established; nothing is known of a slave that is paired by     *)
(* hand, except that a link that is up is established or given up by the   *)
(* controller.                                                             *)
Bonded == peer \in Range(bonds)
ScanBonded == Scan /\ auto' /\ link' = "init"

FairSpec ==
  /\ Spec
  /\ WF_vars(MainLoop) /\ SF_vars(Deliver) /\ SF_vars(SdpTimeout) /\ SF_vars(ScanBonded)
  /\ WF_vars(Bonded /\ Connect) /\ SF_vars(Bonded /\ Establish)
  /\ WF_vars(Establish \/ (link = "up" /\ Drop)) /\ WF_vars(Drop /\ term)

-----------------------------------------------------------------------------
TypeOK ==
  /\ at \in {"sdk", "button", "unpair", "loop", "lost"}
  /\ link \in {"idle", "scan", "init", "up", "conn"}
  /\ peer \in Slave \cup {0} /\ cur \in Slave \cup {0} /\ known \in Slave \cup {0}
  /\ held \in Slave \cup {0}
  /\ evt \in Seq({"establish", "disconnect", "answer", "stray"} \cup Key) /\ Len(evt) <= MaxEvt + 1
  /\ term \in BOOLEAN /\ ask \in BOOLEAN /\ conn \in BOOLEAN /\ service \in BOOLEAN
  /\ busy \in BOOLEAN /\ aimed \in BOOLEAN
  /\ pending \in {0, SDP_PENDING} /\ handles \subseteq Slave \cup {0}
  /\ disc \in [on : BOOLEAN, left : 0 .. Requests, got : SUBSET (Slave \cup {0})]
  /\ bonds \in Seq(Slave) /\ Len(bonds) <= MaxBonds
  /\ pairing \in BOOLEAN /\ unpair \in BOOLEAN /\ disconnecting \in BOOLEAN
  /\ manual \in BOOLEAN /\ auto \in BOOLEAN /\ tried \in BOOLEAN

(* app.c:388-391, 492: a pending discovery keeps every slave away, so      *)
(* there is always one registered or running that will end it, although    *)
(* links come and go underneath a discovery that waits.                    *)
PendingIsServed == pending = SDP_PENDING => service \/ disc.on

(* app.c:134-136: the slave whose services are taken as known is the one   *)
(* all the handles were read from; only a response that nobody asked for   *)
(* (0) can put another slave's in between.                                 *)
HandlesOfKnown == known # 0 => handles = {known} \/ 0 \in handles

(* app.c:217, app_att.c:61-66: p_att_response keeps pointing into the      *)
(* frame of a discovery that has returned, host_att_req_busy stays set     *)
(* after a timeout, and an error response passes without it.  No answer    *)
(* to a request, late or not, may be copied where no frame is; that takes  *)
(* a response that nobody asked for.                                       *)
AnswerGoesToFrame ==
  evt # <<>> /\ Head(evt) = "answer" /\ (\E error \in BOOLEAN : Accepted(error)) => disc.on

(* app.c:465, 724-733: a connected slave is in the table, unless the host  *)
(* is about to send it away.                                               *)
ConnectedIsBonded == conn /\ InConn /\ ~disconnecting => cur \in Range(bonds)

(* app_att.c:476: a key the USB host sees pressed is one of the connected  *)
(* slave, so that no key stays down when a slave leaves.                   *)
HeldByPeer == held # 0 => held = cur /\ conn

(* app.c:722-739: master_disconnect_flag belongs to the link the host is   *)
(* ending and never keeps it from ending the next one.                     *)
DisconnectingThisLink == disconnecting /\ InConn => term

(* The types, and that table, pressed key and disconnection are those of   *)
(* the link there is (app.c:465, 722-739, app_att.c:476).                  *)
LinkInv == TypeOK /\ ConnectedIsBonded /\ HeldByPeer /\ DisconnectingThisLink

(* A dongle that has a bond gets connected, or loses the bond, unless it   *)
(* ends up waiting for a slave paired by hand that is gone:                *)
(* blc_ll_createConnection (app.c:517) is never given up.                  *)
WaitsForNobody == link = "init" /\ ~Bonded
Reconnects == (bonds # <<>> /\ ~conn ~> conn \/ bonds = <<>>) \/ <>[]WaitsForNobody

(* app.c:469: "new slave device, should do service discovery again": every *)
(* connection to a slave that is not known has its discovery.              *)
NewSlaveIsDiscovered == conn /\ pending = 0 /\ cur # known => tried
=============================================================================
