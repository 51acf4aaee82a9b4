------------------------------ MODULE SppUart --------------------------------
(***************************************************************************)
(* The UART side of 826x_module, in the 8266 build: a microcontroller      *)
(* ("MCU") sends commands over a UART whose receive DMA writes into the    *)
(* slots of hci_rx_fifo; the main loop answers each with an event that it  *)
(* queues in hci_tx_fifo, among the events of the BLE stack, and sends one *)
(* after the other from a buffer of its own; and the module suspends when  *)
(* neither side is busy.                                                   *)
(*                                                                         *)
(* The main loop is a cycle of steps, and interrupts, the DMA, the MCU and *)
(* time interleave with them.  Commands are numbered as they are sent; the *)
(* answer to command k is k, and the stack's events are numbered from      *)
(* MaxCmds + 1.  The 100 us that tx_to_uart_cb waits for the MCU to wake   *)
(* are part of its step.                                                   *)
(***************************************************************************)
EXTENDS Integers, Sequences, MyFifo

CONSTANTS
  RxNum,     \* slots of hci_rx_fifo, 2 in the code
  TxNum,     \* slots of hci_tx_fifo, 8 in the code
  Window,    \* commands the MCU sends before it waits for an answer
  MaxCmds,   \* bound on the commands
  MaxEvents  \* bound on the events of the stack

ASSUME FifoAssumption ==
  /\ RxNum \in Nat \ {0} /\ Wrap % RxNum = 0
  /\ TxNum \in Nat \ {0} /\ Wrap % TxNum = 0
ASSUME BoundAssumption == Window \in Nat /\ MaxCmds \in Nat /\ MaxEvents \in Nat

Cmd == 1 .. MaxCmds
Msg == 1 .. (MaxCmds + MaxEvents)
Nothing == 0

VARIABLES
  \* the MCU and the receive DMA
  line,     \* GPIO_WAKEUP_MODULE as the MCU drives it
  sent,     \* commands sent
  rxBusy,   \* a command is on the wire
  dma,      \* reg_dma0_addr, as a slot
  rxFlag,   \* FLD_DMA_UART_RX in reg_dma_rx_rdy0
  rxBuf, rxW, rxR,  \* hci_rx_fifo
  \* the main loop
  pc,       \* the step of the main loop
  cmd,      \* the opcode bls_uart_handler has read
  got,      \* history: opcode and parameters of the commands handled
  events,   \* events the stack has raised
  txBuf, txW, txR,  \* hci_tx_fifo
  \* the transmitter
  tbuf,     \* T_txdata_buf
  tx,       \* uart_tx_busy_flag and how far the DMA is
  out,      \* history: what the MCU received
  \* power
  dataFlg,  \* module_uart_data_flg, and GPIO_WAKEUP_MCU with it
  pull,     \* the module's own resistor at GPIO_WAKEUP_MODULE is up
  tick,     \* tick_wakeup is set
  mask      \* the suspend mask allows to suspend

mcuVars == <<line, sent, rxBusy>>
rxVars == <<dma, rxFlag, rxBuf, rxW, rxR>>
loopVars == <<cmd, got, events>>
queueVars == <<txBuf, txW, dataFlg>>
sendVars == <<txR, tbuf, tx, out>>
pmVars == <<pull, tick, mask>>
vars == <<mcuVars, rxVars, pc, loopVars, queueVars, sendVars, pmVars>>

Init ==
  /\ line \in {"high", "low", "float"} /\ sent = 0 /\ rxBusy = FALSE
  /\ dma = 0 /\ rxFlag = FALSE
  /\ rxBuf = [s \in Slots(RxNum) |-> Nothing] /\ rxW = 0 /\ rxR = 0
  /\ pc = "sdk" /\ cmd = Nothing /\ got = <<>> /\ events = 0
  /\ txBuf = [s \in Slots(TxNum) |-> Nothing] /\ txW = 0 /\ txR = 0
  /\ tbuf = Nothing /\ tx = "idle" /\ out = <<>>
  /\ dataFlg = FALSE /\ pull = FALSE /\ tick = FALSE /\ mask = FALSE

-----------------------------------------------------------------------------
(* Mutations: the interrupt leaves the DMA at its slot or the index where  *)
(* it was, its acknowledgement does not reach the transmitter, the         *)
(* transmitter or the fifo is forgotten, the wake-up is never ended.       *)
UartRxIrqKeepsDma ==
  /\ rxFlag /\ pc # "asleep"
  /\ rxFlag' = FALSE /\ rxW' = Inc(rxW)
  /\ UNCHANGED <<mcuVars, dma, rxBuf, rxR, pc, loopVars, queueVars, sendVars, pmVars>>
UartRxIrqNoNext ==
  /\ rxFlag /\ pc # "asleep"
  /\ rxFlag' = FALSE
  /\ UNCHANGED <<mcuVars, dma, rxBuf, rxW, rxR, pc, loopVars, queueVars, sendVars, pmVars>>
TxIrqNotPassedOn ==
  /\ tx = "sent" /\ pc # "asleep"
  /\ UNCHANGED vars
TxBusyIsFifo == txR # txW
DrainedIsSent == dataFlg /\ tx = "idle"
SuspendExitNoTick == pull' = TRUE /\ mask' = FALSE /\ UNCHANGED tick

-----------------------------------------------------------------------------
(* The MCU.  It holds the line high while it sends, gives the module the   *)
(* time to wake up and to serve the interrupt of one command before the    *)
(* next, and keeps at most Window commands unanswered.                     *)
Answers == {i \in 1 .. Len(out) : out[i] \in Cmd}
Unanswered == {k \in 1 .. sent : \A i \in Answers : out[i] # k}

McuDrive ==
  /\ ~rxBusy
  /\ \E l \in {"high", "low", "float"} \ {line} : line' = l
  /\ UNCHANGED <<sent, rxBusy, rxVars, pc, loopVars, queueVars, sendVars, pmVars>>

McuSend ==
  /\ line = "high" /\ pc # "asleep" /\ ~rxBusy /\ ~rxFlag
  /\ sent < MaxCmds /\ \A k \in Unanswered : k + Window > sent + 1
  /\ sent' = sent + 1 /\ rxBusy' = TRUE
  /\ rxBuf' = [rxBuf EXCEPT ![dma] = sent + 1]
  /\ UNCHANGED <<line, dma, rxFlag, rxW, rxR, pc, loopVars, queueVars, sendVars, pmVars>>

RxDmaEnd ==
  /\ rxBusy
  /\ rxBusy' = FALSE /\ rxFlag' = TRUE
  /\ UNCHANGED <<line, sent, dma, rxBuf, rxW, rxR, pc, loopVars, queueVars, sendVars, pmVars>>

-----------------------------------------------------------------------------
(* The interrupts of the UART.                                             *)
UartRxIrq ==
  /\ rxFlag /\ pc # "asleep"
  /\ rxFlag' = FALSE
  /\ IF rxBuf[Slot(rxW, RxNum)] # Nothing
       THEN rxW' = Inc(rxW) /\ dma' = Slot(rxW', RxNum)
       ELSE UNCHANGED <<rxW, dma>>
  /\ UNCHANGED <<mcuVars, rxBuf, rxR, pc, loopVars, queueVars, sendVars, pmVars>>

TxDmaEnd ==
  /\ tx = "sending"
  /\ tx' = "sent" /\ out' = Append(out, tbuf)
  /\ UNCHANGED <<mcuVars, rxVars, pc, loopVars, queueVars, txR, tbuf, pmVars>>

TxIrq ==
  /\ tx = "sent" /\ pc # "asleep"
  /\ tx' = "delay"
  /\ UNCHANGED <<mcuVars, rxVars, pc, loopVars, queueVars, txR, tbuf, out, pmVars>>

(* 900 us behind the interrupt the transmitter counts as idle.             *)
TxDelayOver ==
  /\ tx = "delay"
  /\ tx' = "idle"
  /\ UNCHANGED <<mcuVars, rxVars, pc, loopVars, queueVars, txR, tbuf, out, pmVars>>

UartIsBusy == tx # "idle"
UART_TX_BUSY == txR # txW \/ UartIsBusy
UART_RX_BUSY == rxR # rxW
Pin == line = "high" \/ (line = "float" /\ pull)
app_module_busy == Pin \/ UART_TX_BUSY \/ UART_RX_BUSY

-----------------------------------------------------------------------------
(* The main loop.  An event that finds hci_tx_fifo full is dropped.        *)
hci_send_data(m) ==
  IF Full(txW, txR, TxNum) THEN UNCHANGED queueVars
  ELSE /\ txBuf' = [txBuf EXCEPT ![Slot(txW, TxNum)] = m]
       /\ txW' = Inc(txW)
       /\ dataFlg' = TRUE

StackEvent ==
  /\ pc = "sdk" /\ events < MaxEvents
  /\ events' = events + 1
  /\ hci_send_data(MaxCmds + events')
  /\ UNCHANGED <<mcuVars, rxVars, pc, cmd, got, sendVars, pmVars>>

SdkDone ==
  /\ pc = "sdk"
  /\ pc' = "rx"
  /\ UNCHANGED <<mcuVars, rxVars, loopVars, queueVars, sendVars, pmVars>>

rx_from_uart_cb ==
  /\ pc = "rx"
  /\ IF rxR # rxW /\ rxBuf[Slot(rxR, RxNum)] # Nothing
       THEN cmd' = rxBuf[Slot(rxR, RxNum)] /\ pc' = "handle"
       ELSE cmd' = cmd /\ pc' = "tx"
  /\ UNCHANGED <<mcuVars, rxVars, got, events, queueVars, sendVars, pmVars>>

(* The parameters are read from the slot, the answer queued, the slot      *)
(* popped.                                                                 *)
bls_uart_handler ==
  /\ pc = "handle"
  /\ got' = Append(got, <<cmd, rxBuf[Slot(rxR, RxNum)]>>)
  /\ hci_send_data(cmd)
  /\ rxR' = Inc(rxR)
  /\ cmd' = Nothing /\ pc' = "tx"
  /\ UNCHANGED <<mcuVars, dma, rxFlag, rxBuf, rxW, events, sendVars, pmVars>>

tx_to_uart_cb ==
  /\ pc = "tx"
  /\ IF txR # txW /\ ~UartIsBusy
       THEN tbuf' = txBuf[Slot(txR, TxNum)] /\ tx' = "sending" /\ txR' = Inc(txR)
       ELSE UNCHANGED <<tbuf, tx, txR>>
  /\ pc' = "suspend"
  /\ UNCHANGED <<mcuVars, rxVars, loopVars, queueVars, out, pmVars>>

(* The stack suspends between its radio events if the mask and             *)
(* app_suspend_enter agree.                                                *)
app_suspend_exit == pull' = TRUE /\ mask' = FALSE /\ tick' = TRUE

Suspend ==
  /\ pc = "suspend"
  /\ IF ~mask THEN pc' = "pm" /\ UNCHANGED pmVars
     ELSE IF app_module_busy THEN pc' = "pm" /\ app_suspend_exit
     ELSE pc' = "asleep" /\ UNCHANGED pmVars
  /\ UNCHANGED <<mcuVars, rxVars, loopVars, queueVars, sendVars>>

(* The timer of the next radio event, or the pin, ends the suspend.        *)
WakeUp ==
  /\ pc = "asleep"
  /\ pc' = "pm" /\ app_suspend_exit
  /\ UNCHANGED <<mcuVars, rxVars, loopVars, queueVars, sendVars>>

Drained == dataFlg /\ ~UART_TX_BUSY /\ ~UART_RX_BUSY

(* expired: 500 us have passed since tick_wakeup was set.                  *)
app_power_management ==
  /\ pc = "pm"
  /\ dataFlg' = (dataFlg /\ ~Drained)
  /\ mask' = (mask \/ (~app_module_busy /\ ~tick))
  /\ \E expired \in BOOLEAN : IF tick /\ expired THEN pull' = FALSE /\ tick' = FALSE
                                               ELSE UNCHANGED <<pull, tick>>
  /\ pc' = "sdk"
  /\ UNCHANGED <<mcuVars, rxVars, loopVars, txBuf, txW, sendVars>>

Main == \/ StackEvent \/ SdkDone \/ rx_from_uart_cb \/ bls_uart_handler
        \/ tx_to_uart_cb \/ Suspend \/ app_power_management
Mcu == McuDrive \/ McuSend
Hardware == RxDmaEnd \/ UartRxIrq \/ TxDmaEnd \/ TxIrq \/ TxDelayOver \/ WakeUp

Next == Main \/ Mcu \/ Hardware

Spec == Init /\ [][Next]_vars

(* The main loop turns, a transfer ends, an interrupt is served while the  *)
(* module is awake again and again, the next radio event comes, and 500 us *)
(* pass while the loop turns.                                              *)
PmExpired == app_power_management /\ (tick => ~tick')

FairSpec ==
  /\ Spec
  /\ WF_vars(SdkDone) /\ WF_vars(rx_from_uart_cb) /\ WF_vars(bls_uart_handler)
  /\ WF_vars(tx_to_uart_cb) /\ WF_vars(Suspend)
  /\ WF_vars(app_power_management) /\ SF_vars(PmExpired)
  /\ WF_vars(RxDmaEnd) /\ SF_vars(UartRxIrq) /\ WF_vars(TxDmaEnd)
  /\ SF_vars(TxIrq) /\ WF_vars(TxDelayOver) /\ WF_vars(WakeUp)

-----------------------------------------------------------------------------
TypeOK ==
  /\ line \in {"high", "low", "float"} /\ sent \in 0 .. MaxCmds /\ rxBusy \in BOOLEAN
  /\ dma \in Slots(RxNum) /\ rxFlag \in BOOLEAN
  /\ rxBuf \in [Slots(RxNum) -> Cmd \cup {Nothing}]
  /\ rxW \in Index /\ rxR \in Index
  /\ pc \in {"sdk", "rx", "handle", "tx", "suspend", "asleep", "pm"}
  /\ cmd \in Cmd \cup {Nothing} /\ events \in 0 .. MaxEvents
  /\ got \in Seq(Cmd \X (Cmd \cup {Nothing}))
  /\ txBuf \in [Slots(TxNum) -> Msg \cup {Nothing}]
  /\ txW \in Index /\ txR \in Index
  /\ tbuf \in Msg \cup {Nothing} /\ tx \in {"idle", "sending", "sent", "delay"}
  /\ out \in Seq(Msg \cup {Nothing})
  /\ dataFlg \in BOOLEAN /\ pull \in BOOLEAN /\ tick \in BOOLEAN /\ mask \in BOOLEAN

(* Every command is handled once, in the order of the MCU, with the opcode *)
(* and the parameters of one and the same command (irq_handler,            *)
(* rx_from_uart_cb).                                                       *)
CommandsInOrder == \A k \in 1 .. Len(got) : got[k] = <<k, k>>

(* Every command received and not yet handled is in the fifo: "the address *)
(* of the fifo's data is put into the DMA, data received from then on is   *)
(* saved in the fifo" (main.c:30).                                         *)
Received == sent - (IF rxBusy THEN 1 ELSE 0)
ReceivedIsSaved ==
  \A k \in (Len(got) + 1) .. Received : \E s \in Slots(RxNum) : rxBuf[s] = k

(* Both: no command is lost, repeated or mixed with another, as long as    *)
(* the MCU waits for an answer when it has RxNum commands under way.       *)
CommandsKept == CommandsInOrder /\ ReceivedIsSaved

(* The MCU is awake while anything for it is queued or on the wire         *)
(* (module_uart_data_flg, GPIO_WAKEUP_MCU).                                *)
McuAwakeForData == UART_TX_BUSY => dataFlg

(* The module never suspends with a command on the wire or in the fifo, or *)
(* with anything left to send (app_suspend_enter).                         *)
AsleepIsIdle ==
  pc = "asleep" => ~rxBusy /\ rxR = rxW /\ txR = txW /\ tx = "idle"

(* What was queued for the MCU and has not reached it yet.                 *)
Queue == (IF tx = "sending" THEN <<tbuf>> ELSE <<>>)
         \o [k \in 1 .. Count(txW, txR) |-> txBuf[Slot(txR + k - 1, TxNum)]]

Channel == INSTANCE SppChannel WITH queue <- Queue, received <- out, Capacity <- TxNum + 1

(* hci_tx_fifo, the send buffer and the transmit DMA together are a queue: *)
(* what hci_send_data accepted reaches the MCU once and in order.          *)
IsChannel == Channel!Spec

(* What was accepted reaches the MCU, and every command is handled.        *)
QueueDrains == \A m \in Msg : (\E i \in 1 .. Len(Queue) : Queue[i] = m)
                              ~> (\E i \in 1 .. Len(out) : out[i] = m)
CommandsHandled == \A k \in Cmd : sent = k ~> Len(got) >= k

(* Both: main.c:12-43, spp.c:346-381, uart.c:40-73 leave nothing behind.   *)
AllServed == QueueDrains /\ CommandsHandled

(* A module whose MCU holds the line low and stays silent suspends again   *)
(* and again.                                                              *)
IdleSuspends == <>[](line # "high") => []<>(pc = "asleep")
=============================================================================
