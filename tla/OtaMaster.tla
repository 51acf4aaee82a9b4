------------------------------ MODULE OtaMaster ------------------------------
(***************************************************************************)
(* The firmware update of a slave by the 826x_master_kma_dongle            *)
(* (app_ota.c): two images in the dongle's flash, started by its buttons,  *)
(* pushed in 16-byte chunks into the controller's transmit fifo by         *)
(* proc_ota, one call per turn of the main loop.                           *)
(*                                                                         *)
(* One turn of main_idle_loop is the sequence "sdk", "button", "ota",      *)
(* "req", "upd" of `at`; the controller's interrupts (link, air, time) may *)
(* fall between any two of them.  Events reach the host only in "sdk".     *)
(***************************************************************************)
EXTENDS Integers, Sequences, FiniteSets

CONSTANTS
  FwSize,      \* n_firmware of the images for master_ota_cmd 1 and 2, in bytes
  FwMax,       \* FW_SIZE_MAX << 10
  FifoDepth,   \* packets the controller's fifo holds
  FifoGuard,   \* the 4 of blm_ll_getTxFifoNumber(..) < 4
  Slave,       \* the slaves that may connect
  SlavePars,   \* the connection parameters a slave may ask for
  Steps        \* the on and off steps of an LED indication, 6 in the code

ASSUME SizeAssumption == /\ FwSize \in [1 .. 2 -> Nat]
                         /\ FwMax \in Nat
                         /\ FifoDepth \in Nat /\ FifoGuard \in Nat
                         /\ Steps \in Nat \ {0}
ASSUME SlaveAssumption == 0 \notin Slave /\ SlavePars \subseteq {"fast", "slow"}

Chunk == 16
Cmd == 1 .. 2
Image == {i \in Cmd : FwSize[i] <= FwMax}
Chunks == [i \in Cmd |-> (FwSize[i] + Chunk - 1) \div Chunk]

VARIABLES
  at,         \* where the main loop is
  link,       \* blc_ll_getCurrentState(): scanning, initiating or connected
  peer,       \* the connected slave, 0 if none
  evt,        \* controller events the host has not handled yet
  connReq,    \* host_update_conn_param_req and what it asks for, or "none"
  upd,        \* the connection update in the controller, or "none"
  sdp,        \* app_host_smp_sdp_pending
  start,      \* host_ota_start
  cmd,        \* master_ota_cmd
  pending,    \* host_ota_update_pending
  image,      \* flash_adr_ota_master: the image its address selects
  late,       \* OTA_TIMEOUT_S have passed since ota_begin_tick
  adr,        \* ota_adr
  handle,     \* slave_ota_handle: the slave it was read from
  fifo,       \* the controller's transmit fifo
  rsp,        \* the read by type response is on its way to the host
  slave,      \* what the slave received since its last start
  led,        \* master_ota_test_mode, led_step, and whether led_indicate_gpio is
              \* set; which LEDs are on is output and left out
  outcome     \* history: of the last update

linkVars == <<link, peer, evt, upd>>
otaVars == <<start, cmd, pending, image, late, adr, handle>>
vars == <<at, linkVars, connReq, sdp, otaVars, fifo, rsp, slave, led, outcome>>

NoSlave == [img |-> 0, got |-> <<>>, ended |-> FALSE]
Packets == [kind : {"read", "start", "data", "end", "other"}, img : 0 .. 2, n : Int]
Packet(kind, i, n) == [kind |-> kind, img |-> i, n |-> n]

Init ==
  /\ at = "sdk" /\ link = "scan" /\ peer = 0 /\ evt = <<>> /\ connReq = "none"
  /\ upd = "none" /\ sdp = FALSE
  /\ start = 0 /\ cmd = 0 /\ pending = 0 /\ image = 1 /\ late = FALSE /\ adr = 0
  /\ handle = 0 /\ fifo = <<>> /\ rsp = FALSE /\ slave = NoSlave
  /\ led = [mode |-> 0, step |-> 0, gpio |-> FALSE]
  /\ outcome = "none"

(* blm_push_fifo: refused when the fifo is full.                           *)
Room == Len(fifo) < FifoDepth

(* Mutations, as plausible slips in the code: a test mode that does not    *)
(* wind its step back, a run given up on time or on the link alone, a fifo *)
(* of one taken for an empty one.                                          *)
Connected == link = "conn"
TestStepNoWrap(l) == [l EXCEPT !.step = @ + 1, !.mode = IF l.step = Steps - 1 THEN 2 ELSE @]
GaveUpOnTime == start # 0 /\ late
GaveUpOnLink == start # 0 /\ ~Connected
DrainEarly(l) ==
  /\ start = 7 /\ Connected /\ ~late /\ Len(fifo) <= 1
  /\ led' = [l EXCEPT !.gpio = TRUE]
  /\ pending' = 0 /\ start' = 0 /\ cmd' = 0 /\ outcome' = "ok"
  /\ UNCHANGED <<image, late, adr, handle, fifo>>

-----------------------------------------------------------------------------
(* ota_set_result(success), l the LEDs as the turn has left them so far.   *)
SetResult(success, l) ==
  /\ led' = [l EXCEPT !.gpio = success]
  /\ pending' = 0 /\ start' = 0 /\ cmd' = 0
  /\ outcome' = IF success THEN "ok" ELSE "fail"

(* The timed steps of the test mode and of the result indication: in each  *)
(* turn the next one of them is either due or not.                         *)
TestStep(l) == [l EXCEPT !.step = (@ + 1) % Steps,
                         !.mode = IF l.step = Steps - 1 THEN 2 ELSE @]
ResultStep(l) == [l EXCEPT !.step = (@ + 1) % Steps,
                           !.gpio = @ /\ l.step # Steps - 1]

(* The first part of proc_ota, up to its test for a timeout.               *)
Blinked ==
  LET tested == {led} \cup {TestStep(l) : l \in {x \in {led} : x.mode = 1}}
  IN  tested \cup {ResultStep(l) : l \in {x \in tested : x.gpio}}

Turn == at = "ota" /\ at' = "req" /\ UNCHANGED <<linkVars, connReq, sdp, rsp, slave>>

GaveUp == start # 0 /\ (late \/ ~Connected)

-----------------------------------------------------------------------------
(* proc_ota, by host_ota_start.                                            *)

Fail(l) == GaveUp /\ SetResult(FALSE, l) /\ UNCHANGED <<image, late, adr, handle, fifo>>

Idle(l) ==
  /\ start = 0 /\ cmd = 0
  /\ led' = l /\ UNCHANGED <<otaVars, fifo, outcome>>

Begin(l) ==
  /\ start = 0 /\ cmd # 0
  /\ image' = cmd
  /\ IF FwSize[cmd] > FwMax
       THEN SetResult(FALSE, l) /\ UNCHANGED late
       ELSE /\ start' = 1 /\ pending' = 1 /\ late' = FALSE
            /\ led' = l /\ UNCHANGED <<cmd, outcome>>
  /\ UNCHANGED <<adr, handle, fifo>>

(* Nothing to do, or not yet: the 50 ms behind the start command, a busy   *)
(* radio, or a refused push.                                               *)
Wait(l) ==
  /\ \/ start \in {1, 3, 5, 6}
     \/ start \in {2, 4} /\ ~Room
  /\ ~GaveUp
  /\ led' = l /\ UNCHANGED <<otaVars, fifo, outcome>>

ReadHandle(l) ==
  /\ start = 2 /\ ~GaveUp /\ Room
  /\ fifo' = Append(fifo, Packet("read", 0, 0))
  /\ start' = 3
  /\ led' = l /\ UNCHANGED <<cmd, pending, image, late, adr, handle, outcome>>

SendStart(l) ==
  /\ start = 4 /\ ~GaveUp /\ Room
  /\ fifo' = Append(fifo, Packet("start", image, 0))
  /\ start' = 5 /\ adr' = 0
  /\ led' = l /\ UNCHANGED <<cmd, pending, image, late, handle, outcome>>

Started(l) ==
  /\ start = 5 /\ ~GaveUp
  /\ start' = 6
  /\ led' = l /\ UNCHANGED <<cmd, pending, image, late, adr, handle, fifo, outcome>>

Send(l) ==
  /\ start = 6 /\ ~GaveUp /\ Room /\ Len(fifo) < FifoGuard
  /\ IF adr < FwSize[image]
       THEN /\ fifo' = Append(fifo, Packet("data", image, adr \div Chunk))
            /\ start' = start
       ELSE /\ fifo' = Append(fifo, Packet("end", image, (adr - Chunk) \div Chunk))
            /\ start' = 7
  /\ adr' = adr + Chunk
  /\ led' = l /\ UNCHANGED <<cmd, pending, image, late, handle, outcome>>

Drain(l) ==
  /\ start = 7 /\ ~GaveUp
  /\ IF fifo = <<>> THEN SetResult(TRUE, l)
                    ELSE led' = l /\ UNCHANGED <<start, cmd, pending, outcome>>
  /\ UNCHANGED <<image, late, adr, handle, fifo>>

ProcFail == Turn /\ \E l \in Blinked : Fail(l)
ProcIdle == Turn /\ \E l \in Blinked : Idle(l)
ProcBegin == Turn /\ \E l \in Blinked : Begin(l)
ProcWait == Turn /\ \E l \in Blinked : Wait(l)
ProcReadHandle == Turn /\ \E l \in Blinked : ReadHandle(l)
ProcSendStart == Turn /\ \E l \in Blinked : SendStart(l)
ProcStarted == Turn /\ \E l \in Blinked : Started(l)
ProcSend == Turn /\ \E l \in Blinked : Send(l)
ProcDrain == Turn /\ \E l \in Blinked : Drain(l)

ProcOta == \/ ProcFail \/ ProcIdle \/ ProcBegin \/ ProcWait \/ ProcReadHandle
           \/ ProcSendStart \/ ProcStarted \/ ProcSend \/ ProcDrain

-----------------------------------------------------------------------------
(* blt_sdk_main_loop: the callbacks of the host.                           *)

SdkReturn ==
  /\ at = "sdk" /\ at' = "button"
  /\ UNCHANGED <<linkVars, connReq, sdp, otaVars, fifo, rsp, slave, led, outcome>>

(* app_event_callback: connection established, with a slave whose services *)
(* are known or are to be discovered first; disconnected; a known or a     *)
(* pairing slave advertises; connection updated.                           *)
EventEstablish ==
  /\ at = "sdk" /\ evt # <<>> /\ Head(evt) = "establish"
  /\ evt' = Tail(evt)
  /\ sdp' \in BOOLEAN
  /\ UNCHANGED <<at, link, peer, upd, connReq, otaVars, fifo, rsp, slave, led, outcome>>

EventDisconnect ==
  /\ at = "sdk" /\ evt # <<>> /\ Head(evt) = "disconnect"
  /\ at' = "button"     \* nothing the new scan finds is reported before the next turn
  /\ evt' = Tail(evt)
  /\ sdp' = FALSE /\ connReq' = "none"
  /\ fifo' = <<>> /\ peer' = 0
  /\ UNCHANGED <<link, upd, otaVars, rsp, slave, led, outcome>>

EventAdvReport ==
  /\ at = "sdk" /\ link = "scan" /\ evt = <<>> /\ ~sdp
  /\ link' = "init"     \* blc_ll_createConnection
  /\ UNCHANGED <<at, peer, evt, upd, connReq, sdp, otaVars, fifo, rsp, slave, led, outcome>>

(* host_ota_update_conn_complete.                                          *)
EventUpdated ==
  /\ at = "sdk" /\ evt # <<>> /\ Head(evt) \in {"fast", "slow"}
  /\ evt' = Tail(evt)
  /\ IF pending = 2 /\ Head(evt) = "fast"
       THEN pending' = 0 /\ start' = IF start = 1 THEN 2 ELSE start
       ELSE UNCHANGED <<pending, start>>
  /\ UNCHANGED <<at, link, peer, upd, connReq, sdp, cmd, image, late, adr, handle, fifo, rsp,
                 slave, led, outcome>>

(* app_l2cap_handler: the read by type response, in which                  *)
(* host_find_slave_ota_attHandle looks for the handle, and a connection    *)
(* parameter update request the dongle accepts and answers.                *)
ReadResponse ==
  /\ at = "sdk" /\ rsp
  /\ rsp' = FALSE
  /\ IF start = 3 THEN handle' = peer /\ start' = 4 ELSE UNCHANGED <<handle, start>>
  /\ UNCHANGED <<at, linkVars, connReq, sdp, cmd, pending, image, late, adr, fifo, slave,
                 led, outcome>>

ParamRequest ==
  /\ at = "sdk" /\ Connected /\ evt = <<>>
  /\ connReq' \in SlavePars
  /\ fifo' = IF Room THEN Append(fifo, Packet("other", 0, 0)) ELSE fifo
  /\ UNCHANGED <<at, linkVars, sdp, otaVars, rsp, slave, led, outcome>>

(* app_service_discovery, called between two turns, returns.               *)
SdpFinish ==
  /\ at = "sdk" /\ sdp
  /\ sdp' = FALSE
  /\ UNCHANGED <<at, linkVars, connReq, otaVars, fifo, rsp, slave, led, outcome>>

-----------------------------------------------------------------------------
(* proc_button: four quick presses enter the test mode; in it the release  *)
(* of a button asks for an update.                                         *)
ButtonIdle ==
  /\ at = "button" /\ at' = "ota"
  /\ UNCHANGED <<linkVars, connReq, sdp, otaVars, fifo, rsp, slave, led, outcome>>

ButtonTestMode ==
  /\ at = "button" /\ at' = "ota"
  /\ led.mode = 0 /\ led' = [led EXCEPT !.mode = 1]
  /\ UNCHANGED <<linkVars, connReq, sdp, otaVars, fifo, rsp, slave, outcome>>

ButtonRelease(c) ==
  /\ at = "button" /\ at' = "ota"
  /\ led.mode = 2 /\ Connected
  /\ cmd' = c
  /\ UNCHANGED <<linkVars, connReq, sdp, start, pending, image, late, adr, handle, fifo, rsp,
                 slave, led, outcome>>

(* The two connection updates of main_idle_loop.  The controller does one  *)
(* at a time and nobody looks at what blm_ll_updateConnection returns.     *)
Update(par) == upd' = IF upd = "none" THEN par ELSE upd

UpdateForSlave ==
  /\ at = "req" /\ at' = "upd"
  /\ \/ /\ connReq # "none" /\ ~sdp
        /\ connReq' = "none"
        /\ IF Connected THEN Update(connReq) ELSE UNCHANGED upd
     \/ UNCHANGED <<connReq, upd>>     \* none, not 50 ms old, or busy
  /\ UNCHANGED <<link, peer, evt, sdp, otaVars, fifo, rsp, slave, led, outcome>>

UpdateForOta ==
  /\ at = "upd" /\ at' = "sdk"
  /\ IF pending = 1 /\ connReq = "none" /\ ~sdp /\ Connected
       THEN Update("fast") /\ pending' = 2
       ELSE UNCHANGED <<upd, pending>>
  /\ UNCHANGED <<link, peer, evt, connReq, sdp, start, cmd, image, late, adr, handle, fifo, rsp,
                 slave, led, outcome>>

MainLoop ==
  \/ SdkReturn \/ EventEstablish \/ EventDisconnect \/ EventAdvReport \/ EventUpdated \/ ReadResponse
  \/ ParamRequest \/ SdpFinish \/ ButtonIdle \/ ButtonTestMode
  \/ (\E c \in Cmd : ButtonRelease(c)) \/ ProcOta \/ UpdateForSlave \/ UpdateForOta

-----------------------------------------------------------------------------
(* The controller and the slave.                                           *)
Connect(s) ==
  /\ link = "init"
  /\ link' = "conn" /\ peer' = s /\ evt' = <<"establish">>
  /\ UNCHANGED <<at, upd, connReq, sdp, otaVars, fifo, rsp, slave, led, outcome>>

Disconnect ==
  /\ Connected
  /\ link' = "scan" /\ evt' = Append(evt, "disconnect")
  /\ upd' = "none" /\ rsp' = FALSE /\ slave' = NoSlave
  /\ UNCHANGED <<at, peer, connReq, sdp, otaVars, fifo, led, outcome>>

Updated ==
  /\ Connected /\ upd # "none" /\ evt = <<>>
  /\ evt' = <<upd>> /\ upd' = "none"
  /\ UNCHANGED <<at, link, peer, connReq, sdp, otaVars, fifo, rsp, slave, led, outcome>>

Acked ==
  /\ Connected /\ fifo # <<>>
  /\ fifo' = Tail(fifo)
  /\ LET p == Head(fifo) IN
       /\ rsp' = (rsp \/ p.kind = "read")
       /\ slave' = CASE p.kind = "start" -> [img |-> p.img, got |-> <<>>, ended |-> FALSE]
                     [] p.kind = "data" -> [slave EXCEPT !.got = Append(@, <<p.img, p.n>>)]
                     [] p.kind = "end" -> [slave EXCEPT !.ended = TRUE]
                     [] OTHER -> slave
  /\ UNCHANGED <<at, linkVars, connReq, sdp, otaVars, led, outcome>>

Timeout ==
  /\ start # 0 /\ ~late
  /\ late' = TRUE
  /\ UNCHANGED <<at, linkVars, connReq, sdp, start, cmd, pending, image, adr, handle, fifo, rsp,
                 slave, led, outcome>>

Next == \/ MainLoop \/ (\E s \in Slave : Connect(s)) \/ Disconnect \/ Updated \/ Acked \/ Timeout

Spec == Init /\ [][Next]_vars

(* The main loop turns: every one of its parts returns, and time passes.   *)
FairSpec == /\ Spec /\ WF_vars(Timeout)
            /\ WF_vars(SdkReturn) /\ WF_vars(at = "button" /\ MainLoop)
            /\ WF_vars(ProcOta) /\ WF_vars(UpdateForSlave) /\ WF_vars(UpdateForOta)

-----------------------------------------------------------------------------
TypeOK ==
  /\ at \in {"sdk", "button", "ota", "req", "upd"}
  /\ link \in {"scan", "init", "conn"} /\ peer \in Slave \cup {0}
  /\ evt \in Seq({"establish", "disconnect", "fast", "slow"})
  /\ connReq \in {"none", "fast", "slow"} /\ upd \in {"none", "fast", "slow"}
  /\ sdp \in BOOLEAN
  /\ start \in 0 .. 7 /\ cmd \in 0 .. 2 /\ pending \in 0 .. 2
  /\ image \in Cmd /\ late \in BOOLEAN /\ adr \in Nat /\ handle \in Slave \cup {0}
  /\ fifo \in Seq(Packets) /\ rsp \in BOOLEAN
  /\ slave \in [img : 0 .. 2, got : Seq(Cmd \X Int), ended : BOOLEAN]
  /\ led \in [mode : 0 .. 2, step : 0 .. (Steps - 1), gpio : BOOLEAN]
  /\ outcome \in {"none", "ok", "fail"}

(* The chunks go to the handle that was read from the slave that is        *)
(* connected now, never to one of an earlier connection.                   *)
HandleOfPeer == start >= 4 /\ Connected => handle = peer

UpdateInv == TypeOK /\ HandleOfPeer

(* Every update asked for ends with a result.                              *)
CommandAnswered == cmd # 0 ~> cmd = 0

Promise == INSTANCE OtaTransfer WITH busy <- IF start = 0 THEN 0 ELSE image
Transfers == Promise!Spec
=============================================================================
