--------------------------- MODULE SppUartProofs -----------------------------
(* Proofs about SppUart for fifos of any size that divides the range of    *)
(* their indices, any number of commands and events and any window: types, *)
(* suspend and the line to the MCU; then the commands; then the queue to   *)
(* the MCU.                                                                *)
EXTENDS SppUart, SequenceTheorems, TLAPS

(* What the safety invariants rest on: the handler has a command at hand,  *)
(* and the MCU holds the line for as long as it sends.                     *)
HandlerHasCommand == pc = "handle" => cmd \in Cmd
LineHeld == rxBusy => line = "high"

IInv == TypeOK /\ HandlerHasCommand /\ LineHeld /\ AsleepIsIdle /\ McuAwakeForData

(* An index that is advanced stays a byte, and every index has a slot.     *)
LEMMA IncIndex == ASSUME NEW x \in Index PROVE Inc(x) \in Index
BY WrapAssumption DEF Inc, Index

LEMMA SlotIndex == ASSUME NEW n \in Nat \ {0}, NEW x \in Index PROVE Slot(x, n) \in Slots(n)
BY WrapAssumption DEF Slot, Slots, Index

(* Commands and their answers are messages.                                *)
LEMMA CmdIsMsg == Cmd \subseteq Msg /\ Nothing \notin Cmd /\ Nothing \notin Msg
BY BoundAssumption DEF Cmd, Msg, Nothing

(* Whatever hci_send_data is given, the queue keeps its type, and its read *)
(* end and what is on the wire are covered by the line to the MCU.         *)
LEMMA SendKeeps ==
  ASSUME TypeOK, NEW m \in Msg, hci_send_data(m)
  PROVE  /\ txBuf' \in [Slots(TxNum) -> Msg \cup {Nothing}] /\ txW' \in Index
         /\ dataFlg' \in BOOLEAN
         /\ dataFlg' \/ (dataFlg' = dataFlg /\ txW' = txW)
<1>1. CASE Full(txW, txR, TxNum)
  BY <1>1 DEF hci_send_data, queueVars, TypeOK
<1>2. CASE ~Full(txW, txR, TxNum)
  BY <1>2, IncIndex DEF hci_send_data, TypeOK
<1> QED BY <1>1, <1>2

LEMMA InitInv == Init => IInv
<1> SUFFICES ASSUME Init PROVE IInv OBVIOUS
<1>1. Slot(0, RxNum) \in Slots(RxNum) /\ 0 \in Slots(RxNum) /\ 0 \in Index
  BY FifoAssumption, WrapAssumption DEF Slots, Index, Slot
<1>2. TypeOK
  <2>1. got \in Seq(Cmd \X (Cmd \cup {Nothing})) /\ out \in Seq(Msg \cup {Nothing})
    BY DEF Init
  <2>2. sent \in 0 .. MaxCmds /\ events \in 0 .. MaxEvents
    BY BoundAssumption DEF Init
  <2> QED BY <1>1, <2>1, <2>2 DEF Init, TypeOK
<1> QED BY <1>2 DEF Init, IInv, HandlerHasCommand, LineHeld, AsleepIsIdle, McuAwakeForData,
           UART_TX_BUSY, UartIsBusy

(* Steps that leave the queue, the index of the reader and the             *)
(* transmitter alone keep what McuAwakeForData says of them.               *)
LEMMA StepInv == IInv /\ [Next]_vars => IInv'
<1> SUFFICES ASSUME IInv, [Next]_vars PROVE IInv' OBVIOUS
<1> USE DEF mcuVars, rxVars, loopVars, queueVars, sendVars, pmVars
<1>t. TypeOK /\ HandlerHasCommand /\ LineHeld /\ AsleepIsIdle /\ McuAwakeForData BY DEF IInv
<1>n. RxNum \in Nat \ {0} /\ TxNum \in Nat \ {0} BY FifoAssumption
<1>1. CASE McuDrive
  BY <1>t, <1>1 DEF McuDrive, TypeOK, IInv, HandlerHasCommand, LineHeld, AsleepIsIdle,
     McuAwakeForData, UART_TX_BUSY, UartIsBusy
<1>2. CASE McuSend
  <2>1. sent + 1 \in Cmd /\ sent' \in 0 .. MaxCmds
    BY <1>t, <1>2, BoundAssumption DEF McuSend, TypeOK, Cmd
  <2>2. rxBuf' \in [Slots(RxNum) -> Cmd \cup {Nothing}]
    BY <1>t, <1>2, <2>1 DEF McuSend, TypeOK
  <2> QED BY <1>t, <1>2, <2>1, <2>2 DEF McuSend, TypeOK, IInv, HandlerHasCommand, LineHeld,
             AsleepIsIdle, McuAwakeForData, UART_TX_BUSY, UartIsBusy
<1>3. CASE RxDmaEnd
  <2>0. /\ rxFlag' \in BOOLEAN /\ rxBusy' \in BOOLEAN
        /\ UNCHANGED <<line, sent, rxBuf, rxW, rxR, dma, pc, loopVars, queueVars, sendVars, pmVars>>
    BY <1>t, <1>3 DEF RxDmaEnd, TypeOK
  <2>1. TypeOK' BY <1>t, <2>0 DEF TypeOK
  <2> QED BY <1>t, <1>3, <2>1 DEF RxDmaEnd, IInv, HandlerHasCommand, LineHeld, AsleepIsIdle,
             McuAwakeForData, UART_TX_BUSY, UartIsBusy
<1>4. CASE UartRxIrq
  <2>1. rxW' \in Index /\ dma' \in Slots(RxNum)
    <3>1. rxW' \in Index BY <1>t, <1>4, IncIndex DEF UartRxIrq, TypeOK
    <3>2. Slot(rxW', RxNum) \in Slots(RxNum) BY <1>n, <3>1, SlotIndex
    <3>3. dma \in Slots(RxNum) BY <1>t DEF TypeOK
    <3>4. dma' = Slot(rxW', RxNum) \/ dma' = dma BY <1>4 DEF UartRxIrq
    <3> QED BY <3>1, <3>2, <3>3, <3>4
  <2>2. TypeOK'
    <3>1. line' \in {"high", "low", "float"} /\ sent' \in 0 .. MaxCmds /\ rxBusy' \in BOOLEAN
      BY <1>t, <1>4 DEF UartRxIrq, TypeOK
    <3>2. rxFlag' \in BOOLEAN
      BY <1>t, <1>4 DEF UartRxIrq, TypeOK
    <3>3. rxBuf' \in [Slots(RxNum) -> Cmd \cup {Nothing}] /\ rxR' \in Index
      BY <1>t, <1>4 DEF UartRxIrq, TypeOK
    <3>4. pc' = pc /\ loopVars' = loopVars /\ queueVars' = queueVars /\ sendVars' = sendVars /\ pmVars' = pmVars
      BY <1>t, <1>4 DEF UartRxIrq, TypeOK
    <3> QED BY <1>t, <2>1, <3>1, <3>2, <3>3, <3>4 DEF TypeOK
  <2>3. AsleepIsIdle' BY <1>t, <1>4 DEF UartRxIrq, AsleepIsIdle
  <2> QED BY <1>t, <1>4, <2>2, <2>3 DEF UartRxIrq, IInv, HandlerHasCommand, LineHeld,
             McuAwakeForData, UART_TX_BUSY, UartIsBusy
<1>5. CASE TxDmaEnd
  <2>1. out' \in Seq(Msg \cup {Nothing})
    BY <1>t, <1>5 DEF TxDmaEnd, TypeOK
  <2> QED BY <1>t, <1>5, <2>1 DEF TxDmaEnd, TypeOK, IInv, HandlerHasCommand, LineHeld,
             AsleepIsIdle, McuAwakeForData, UART_TX_BUSY, UartIsBusy
<1>6. CASE TxIrq \/ TxDelayOver
  BY <1>t, <1>6 DEF TxIrq, TxDelayOver, TypeOK, IInv, HandlerHasCommand, LineHeld, AsleepIsIdle,
     McuAwakeForData, UART_TX_BUSY, UartIsBusy
<1>7. CASE StackEvent
  <2>1. events' \in 0 .. MaxEvents /\ MaxCmds + events' \in Msg
    BY <1>t, <1>7, BoundAssumption DEF StackEvent, TypeOK, Msg
  <2>2. hci_send_data(MaxCmds + events') BY <1>7 DEF StackEvent
  <2>3. /\ txBuf' \in [Slots(TxNum) -> Msg \cup {Nothing}] /\ txW' \in Index
        /\ dataFlg' \in BOOLEAN
        /\ dataFlg' \/ (dataFlg' = dataFlg /\ txW' = txW)
    BY <1>t, <2>1, <2>2, SendKeeps
  <2> QED BY <1>t, <1>7, <2>1, <2>3 DEF StackEvent, TypeOK, IInv, HandlerHasCommand, LineHeld,
             AsleepIsIdle, McuAwakeForData, UART_TX_BUSY, UartIsBusy
<1>8. CASE SdkDone
  BY <1>t, <1>8 DEF SdkDone, TypeOK, IInv, HandlerHasCommand, LineHeld, AsleepIsIdle,
     McuAwakeForData, UART_TX_BUSY, UartIsBusy
<1>9. CASE rx_from_uart_cb
  <2>1. Slot(rxR, RxNum) \in Slots(RxNum) BY <1>t, <1>n, SlotIndex DEF TypeOK
  <2>2. cmd' \in Cmd \cup {Nothing} /\ (pc' = "handle" => cmd' \in Cmd)
    BY <1>t, <1>9, <2>1 DEF rx_from_uart_cb, TypeOK
  <2> QED BY <1>t, <1>9, <2>2 DEF rx_from_uart_cb, TypeOK, IInv, HandlerHasCommand, LineHeld,
             AsleepIsIdle, McuAwakeForData, UART_TX_BUSY, UartIsBusy
<1>10. CASE bls_uart_handler
  <2>1. cmd \in Cmd BY <1>t, <1>10 DEF bls_uart_handler, HandlerHasCommand
  <2>2. /\ txBuf' \in [Slots(TxNum) -> Msg \cup {Nothing}] /\ txW' \in Index
        /\ dataFlg' \in BOOLEAN
        /\ dataFlg' \/ (dataFlg' = dataFlg /\ txW' = txW)
    BY <1>t, <1>10, <2>1, SendKeeps, CmdIsMsg DEF bls_uart_handler
  <2>3. got' \in Seq(Cmd \X (Cmd \cup {Nothing}))
    <3>1. rxBuf[Slot(rxR, RxNum)] \in Cmd \cup {Nothing}
      BY <1>t, <1>n, SlotIndex DEF TypeOK
    <3>2. <<cmd, rxBuf[Slot(rxR, RxNum)]>> \in Cmd \X (Cmd \cup {Nothing})
      BY <2>1, <3>1
    <3> QED BY <1>t, <1>10, <3>2 DEF bls_uart_handler, TypeOK
  <2>4. rxR' \in Index BY <1>t, <1>10, IncIndex DEF bls_uart_handler, TypeOK
  <2> QED BY <1>t, <1>10, <2>2, <2>3, <2>4 DEF bls_uart_handler, TypeOK, IInv, HandlerHasCommand,
             LineHeld, AsleepIsIdle, McuAwakeForData, UART_TX_BUSY, UartIsBusy
<1>11. CASE tx_to_uart_cb
  <2>1. Slot(txR, TxNum) \in Slots(TxNum) /\ Inc(txR) \in Index
    BY <1>t, <1>n, SlotIndex, IncIndex DEF TypeOK
  <2>2. tbuf' \in Msg \cup {Nothing} /\ txR' \in Index
    BY <1>t, <1>11, <2>1 DEF tx_to_uart_cb, TypeOK
  <2> QED BY <1>t, <1>11, <2>2 DEF tx_to_uart_cb, TypeOK, IInv, HandlerHasCommand, LineHeld,
             AsleepIsIdle, McuAwakeForData, UART_TX_BUSY, UartIsBusy
<1>12. CASE Suspend
  <2>1. TypeOK'
    <3>1. pc' \in {"pm", "asleep"} BY <1>12 DEF Suspend
    <3>2. pull' \in BOOLEAN /\ tick' \in BOOLEAN /\ mask' \in BOOLEAN
      BY <1>t, <1>12 DEF Suspend, app_suspend_exit, TypeOK
    <3> QED BY <1>t, <1>12, <3>1, <3>2 DEF Suspend, TypeOK
  <2>2. AsleepIsIdle'
    BY <1>t, <1>12 DEF Suspend, AsleepIsIdle, LineHeld, app_module_busy, Pin, UART_TX_BUSY,
       UART_RX_BUSY, UartIsBusy
  <2> QED BY <1>t, <1>12, <2>1, <2>2 DEF Suspend, IInv, HandlerHasCommand, LineHeld,
             McuAwakeForData, UART_TX_BUSY, UartIsBusy
<1>13. CASE WakeUp
  BY <1>t, <1>13 DEF WakeUp, app_suspend_exit, TypeOK, IInv, HandlerHasCommand, LineHeld,
     AsleepIsIdle, McuAwakeForData, UART_TX_BUSY, UartIsBusy
<1>14. CASE app_power_management
  <2>0. /\ dataFlg' \in BOOLEAN /\ mask' \in BOOLEAN /\ pull' \in BOOLEAN /\ tick' \in BOOLEAN
        /\ pc' = "sdk"
        /\ UNCHANGED <<mcuVars, rxVars, loopVars, txBuf, txW, sendVars>>
    BY <1>t, <1>14 DEF app_power_management, TypeOK
  <2>1. TypeOK' BY <1>t, <2>0 DEF TypeOK
  <2>2. McuAwakeForData'
    BY <1>t, <1>14 DEF app_power_management, McuAwakeForData, Drained, UART_TX_BUSY, UartIsBusy
  <2> QED BY <1>t, <1>14, <2>1, <2>2 DEF app_power_management, IInv, HandlerHasCommand, LineHeld,
             AsleepIsIdle
<1>15. CASE UNCHANGED vars
  BY <1>t, <1>15 DEF vars, TypeOK, IInv, HandlerHasCommand, LineHeld, AsleepIsIdle,
     McuAwakeForData, UART_TX_BUSY, UartIsBusy
<1> QED
  BY <1>1, <1>2, <1>3, <1>4, <1>5, <1>6, <1>7, <1>8, <1>9, <1>10, <1>11, <1>12, <1>13, <1>14,
     <1>15 DEF Next, Main, Mcu, Hardware

LEMMA Inductive == Spec => []IInv
BY InitInv, StepInv, PTL DEF Spec

(* The variables keep their types: no index leaves its byte, the DMA       *)
(* always writes into a slot of the fifo.                                  *)
THEOREM TypeCorrect == Spec => []TypeOK
BY Inductive, PTL DEF IInv

(* The module never suspends with a command on the wire or in the fifo, or *)
(* with anything left to send: app_suspend_enter asks for all of it, and   *)
(* nothing begins while the module is asleep.                              *)
THEOREM NeverAsleepBusy == Spec => []AsleepIsIdle
BY Inductive, PTL DEF IInv

(* The MCU is awake while anything for it is queued or on the wire.        *)
THEOREM McuStaysAwake == Spec => []McuAwakeForData
BY Inductive, PTL DEF IInv

-----------------------------------------------------------------------------
(* What the indices rest on: the remainder of a sum, and two numbers less  *)
(* than n apart that have different remainders.                            *)
LEMMA DivMod ==
  ASSUME NEW n \in Nat \ {0}, NEW x \in Int
  PROVE  x % n \in 0 .. n - 1 /\ x \div n \in Int /\ x = n * (x \div n) + (x % n)
OBVIOUS

LEMMA SmallMultiple ==
  ASSUME NEW n \in Nat \ {0}, NEW d \in Int, NEW r \in Int, n * d = r, -n < r, r < n
  PROVE  r = 0
<1>1. CASE d >= 1
  <2>1. n * d >= n BY <1>1
  <2> QED BY <2>1
<1>2. CASE d <= -1
  <2>1. n * d <= -n BY <1>2
  <2> QED BY <2>1
<1>3. CASE d = 0 BY <1>3
<1> QED BY <1>1, <1>2, <1>3

LEMMA ModDistinct ==
  ASSUME NEW n \in Nat \ {0}, NEW x \in Int, NEW y \in Int, x < y, y < x + n
  PROVE  x % n # y % n
<1> DEFINE d == x \div n
           e == y \div n
           r == x % n
           s == y % n
<1>1. d \in Int /\ e \in Int /\ r \in Int /\ s \in Int /\ x = n * d + r /\ y = n * e + s
  BY DivMod
<1> HIDE DEF d, e, r, s
<1> SUFFICES ASSUME r = s PROVE FALSE BY DEF r, s
<1>2. n * (e - d) = y - x
  <2>1. n * (e - d) = n * e - n * d BY <1>1
  <2> QED BY <1>1, <2>1
<1>3. e - d \in Int /\ y - x \in Int /\ -n < y - x /\ y - x < n BY <1>1
<1>4. y - x = 0 BY <1>2, <1>3, SmallMultiple
<1> QED BY <1>4

LEMMA ModIs ==
  ASSUME NEW n \in Nat \ {0}, NEW q \in Int, NEW r \in 0 .. n - 1 PROVE (n * q + r) % n = r
<1> DEFINE x == n * q + r
           y == x \div n
           z == x % n
<1>1. x \in Int OBVIOUS
<1>2. z \in 0 .. n - 1 /\ y \in Int /\ x = n * y + z BY <1>1, DivMod
<1> HIDE DEF y, z
<1>3. n * (q - y) = n * q - n * y BY <1>2
<1>4. n * (q - y) = z - r BY <1>2, <1>3
<1>5. q - y \in Int /\ z - r \in Int /\ -n < z - r /\ z - r < n BY <1>2
<1>6. z - r = 0 BY <1>4, <1>5, SmallMultiple
<1> QED BY <1>2, <1>6 DEF z

LEMMA ModOfSum ==
  ASSUME NEW n \in Nat \ {0}, NEW q \in Int, NEW x \in Int PROVE (n * q + x) % n = x % n
<1> DEFINE d == x \div n
           r == x % n
<1>1. d \in Int /\ r \in 0 .. n - 1 /\ x = n * d + r BY DivMod
<1> HIDE DEF d, r
<1>2. n * q + x = n * (q + d) + r BY <1>1
<1>3. (n * (q + d) + r) % n = r BY <1>1, ModIs
<1> QED BY <1>2, <1>3 DEF r

(* An index that has wrapped addresses the slot of the number it stands    *)
(* for, since the slots divide the range of the index.                     *)
LEMMA Wrapped ==
  ASSUME NEW n \in Nat \ {0}, Wrap % n = 0, NEW x \in Int, NEW y \in Int
  PROVE  ((x % Wrap) + y) % n = (x + y) % n
<1> DEFINE q == Wrap \div n
           d == x \div Wrap
           r == x % Wrap
<1>0. Wrap \in Nat \ {0} BY WrapAssumption
<1>1. q \in Int /\ Wrap = n * q BY <1>0, DivMod
<1>2. d \in Int /\ r \in Int /\ x = Wrap * d + r BY <1>0, DivMod
<1> HIDE DEF q, d, r
<1>3. Wrap * d = n * (q * d) BY <1>1, <1>2
<1>4. x + y = n * (q * d) + (r + y)
  <2> DEFINE t == n * (q * d)
  <2>1. x = t + r BY <1>2, <1>3
  <2>2. t \in Int BY <1>1, <1>2
  <2> HIDE DEF t
  <2>3. x + y = t + (r + y) BY <1>2, <2>1, <2>2
  <2> QED BY <2>3 DEF t
<1>5. q * d \in Int /\ r + y \in Int BY <1>1, <1>2
<1>6. (n * (q * d) + (r + y)) % n = (r + y) % n BY <1>5, ModOfSum
<1> QED BY <1>4, <1>6 DEF r

LEMMA WrappedSlot ==
  ASSUME NEW n \in Nat \ {0}, Wrap % n = 0, NEW x \in Int
  PROVE  Slot(x % Wrap, n) = x % n /\ Inc(x % Wrap) = (x + 1) % Wrap
<1>0. Wrap \in Nat \ {0} /\ x % Wrap \in Int BY WrapAssumption, DivMod
<1>1. ((x % Wrap) + 0) % n = (x + 0) % n BY Wrapped
<1>2. Wrap % Wrap = 0
  <2>1. (Wrap * 1 + 0) % Wrap = 0 BY <1>0, ModIs
  <2> QED BY <1>0, <2>1
<1>3. ((x % Wrap) + 1) % Wrap = (x + 1) % Wrap
  <2>1. ASSUME NEW m \in Nat \ {0}, Wrap % m = 0 PROVE ((x % Wrap) + 1) % m = (x + 1) % m
    BY <2>1, Wrapped
  <2> QED BY <1>0, <1>2, <2>1
<1>4. (x % Wrap) + 0 = x % Wrap /\ x + 0 = x BY <1>0
<1> QED BY <1>1, <1>3, <1>4 DEF Slot, Inc

-----------------------------------------------------------------------------
(* No command is lost.  A command is counted when the interrupt has moved  *)
(* the write index past it; the indices are the numbers of the commands    *)
(* counted and handled, a command lies in its slot from when it is sent    *)
(* until it is handled, and what the queue to the MCU answers has been     *)
(* handled before.                                                         *)
Counted == sent - (IF rxBusy \/ rxFlag THEN 1 ELSE 0)

RxIndices ==
  /\ ~(rxBusy /\ rxFlag)
  /\ Len(got) <= Counted /\ sent <= Len(got) + RxNum
  /\ rxW = Counted % Wrap /\ rxR = Len(got) % Wrap /\ dma = Counted % RxNum

RxSlots == \A k \in (Len(got) + 1) .. sent : rxBuf[(k - 1) % RxNum] = k

Handling == pc = "handle" => Len(got) < Counted /\ cmd = Len(got) + 1

AnswersHandled ==
  /\ \A s \in Slots(TxNum) : txBuf[s] \in Cmd => txBuf[s] <= Len(got)
  /\ tbuf \in Cmd => tbuf <= Len(got)
  /\ \A i \in 1 .. Len(out) : out[i] \in Cmd => out[i] <= Len(got)

RxInv == RxIndices /\ RxSlots /\ Handling /\ AnswersHandled /\ CommandsInOrder

LEMMA RxInit == Init => RxInv
<1> SUFFICES ASSUME Init PROVE RxInv OBVIOUS
<1>1. Len(got) = 0 /\ Counted = 0
  <2>1. got = <<>> /\ sent = 0 /\ ~rxBusy /\ ~rxFlag BY DEF Init
  <2>2. Counted = sent - 0 BY <2>1 DEF Counted
  <2> QED BY <2>1, <2>2
<1>2. 0 % Wrap = 0 /\ 0 % RxNum = 0
  <2>1. \A n \in Nat \ {0} : 0 % n = 0
    <3> TAKE n \in Nat \ {0}
    <3>1. (n * 0 + 0) % n = 0 BY ModIs
    <3> QED BY <3>1
  <2> QED BY <2>1, WrapAssumption, FifoAssumption
<1>3. RxIndices BY <1>1, <1>2, FifoAssumption DEF Init, RxIndices
<1>4. RxSlots BY <1>1 DEF Init, RxSlots
<1>5. AnswersHandled BY CmdIsMsg DEF Init, AnswersHandled
<1>6. Handling /\ CommandsInOrder BY <1>1 DEF Init, Handling, CommandsInOrder
<1> QED BY <1>3, <1>4, <1>5, <1>6 DEF RxInv

(* The steps that have nothing to do with the commands.                    *)
LEMMA RxKept ==
  ASSUME RxInv, UNCHANGED <<sent, rxBusy, rxVars, got, txBuf, tbuf, out>>,
         pc' = "handle" => pc = "handle" /\ cmd' = cmd
  PROVE  RxInv'
BY DEF rxVars, RxInv, RxIndices, RxSlots, Handling, AnswersHandled, CommandsInOrder, Counted

(* The MCU does not write over a command that waits: its slot comes round  *)
(* again RxNum commands later, and before that the MCU waits for the       *)
(* answer to the first that is unhandled, which cannot have come.          *)
LEMMA McuSendRx == ASSUME Window <= RxNum, IInv, RxInv, McuSend PROVE RxInv'
<1> USE DEF RxInv
<1>0. RxNum \in Nat \ {0} /\ Window \in Nat BY FifoAssumption, BoundAssumption
<1>1. /\ ~rxBusy /\ ~rxFlag /\ sent' = sent + 1 /\ rxBusy' = TRUE
      /\ \A k \in Unanswered : k + Window > sent + 1
      /\ rxBuf' = [rxBuf EXCEPT ![dma] = sent + 1]
      /\ UNCHANGED <<dma, rxFlag, rxW, rxR, pc, cmd, got, txBuf, tbuf, out>>
  BY DEF McuSend, loopVars, queueVars, sendVars
<1>2. sent \in Nat /\ Len(got) \in Nat /\ Counted = sent /\ Counted' = sent /\ sent + 1 \in Cmd
  BY <1>1, BoundAssumption DEF IInv, TypeOK, Counted, McuSend, Cmd
<1>3. sent + 1 <= Len(got) + RxNum
  <2>1. CASE Len(got) = sent BY <1>0, <1>2, <2>1
  <2>2. CASE Len(got) < sent
    <3> DEFINE k == Len(got) + 1
    <3>1. k \in 1 .. sent BY <1>2, <2>2
    <3>2. k \in Cmd BY <1>2, <3>1, BoundAssumption DEF Cmd
    <3>3. \A i \in Answers : out[i] # k
      BY <1>2, <3>2 DEF AnswersHandled, Answers
    <3>4. k \in Unanswered BY <3>1, <3>3 DEF Unanswered
    <3> QED BY <1>0, <1>1, <1>2, <3>4
  <2> QED BY <1>2, <2>1, <2>2 DEF RxIndices
<1>4. RxIndices' BY <1>1, <1>2, <1>3 DEF RxIndices
<1>5. RxSlots'
  <2> SUFFICES ASSUME NEW k \in (Len(got) + 1) .. (sent + 1) PROVE rxBuf'[(k - 1) % RxNum] = k
    BY <1>1 DEF RxSlots
  <2>0. dma = sent % RxNum /\ dma \in Slots(RxNum) /\ rxBuf \in [Slots(RxNum) -> Cmd \cup {Nothing}]
    BY <1>2 DEF RxIndices, IInv, TypeOK
  <2>1. CASE k = sent + 1
    <3>1. k - 1 = sent BY <1>2, <2>1
    <3> QED BY <1>1, <2>0, <2>1, <3>1
  <2>2. CASE k # sent + 1
    <3>1. k \in (Len(got) + 1) .. sent /\ k - 1 \in Int /\ sent \in Int /\ k - 1 < sent
          /\ sent < (k - 1) + RxNum
      BY <1>0, <1>2, <1>3, <2>2
    <3>2. (k - 1) % RxNum # sent % RxNum BY <1>0, <3>1, ModDistinct
    <3>3. (k - 1) % RxNum \in Slots(RxNum) BY <1>0, <3>1, DivMod DEF Slots
    <3>4. rxBuf[(k - 1) % RxNum] = k BY <3>1 DEF RxSlots
    <3> QED BY <1>1, <2>0, <3>2, <3>3, <3>4
  <2> QED BY <2>1, <2>2
<1>6. Handling' BY <1>1, <1>2 DEF Handling
<1>7. AnswersHandled' /\ CommandsInOrder' BY <1>1 DEF AnswersHandled, CommandsInOrder
<1> QED BY <1>4, <1>5, <1>6, <1>7

(* The interrupt counts the command the DMA has written, and the DMA goes  *)
(* on to the next slot.                                                    *)
LEMMA UartRxIrqRx == ASSUME IInv, RxInv, UartRxIrq PROVE RxInv'
<1> USE DEF RxInv
<1>0. RxNum \in Nat \ {0} /\ Wrap % RxNum = 0 BY FifoAssumption
<1>1. /\ rxFlag /\ rxFlag' = FALSE
      /\ UNCHANGED <<sent, rxBusy, rxBuf, rxR, pc, cmd, got, txBuf, tbuf, out>>
  BY DEF UartRxIrq, mcuVars, loopVars, queueVars, sendVars
<1>2. sent \in Nat /\ Len(got) \in Nat /\ Counted = sent - 1 /\ Counted' = sent /\ ~rxBusy
  BY <1>1 DEF IInv, TypeOK, Counted, RxIndices
<1>3. rxW = (sent - 1) % Wrap /\ Len(got) <= sent - 1 BY <1>2 DEF RxIndices
<1>4. Slot(rxW, RxNum) = (sent - 1) % RxNum /\ Inc(rxW) = sent % Wrap
      /\ Slot(sent % Wrap, RxNum) = sent % RxNum
  <2>1. sent - 1 \in Int /\ (sent - 1) + 1 = sent BY <1>2
  <2> QED BY <1>0, <1>2, <1>3, <2>1, WrappedSlot
<1>5. rxBuf[Slot(rxW, RxNum)] = sent /\ sent # Nothing
  <2>1. sent \in (Len(got) + 1) .. sent BY <1>2, <1>3
  <2> QED BY <1>2, <1>4, <2>1 DEF RxSlots, Nothing
<1>6. rxW' = sent % Wrap /\ dma' = sent % RxNum BY <1>4, <1>5 DEF UartRxIrq
<1>7. RxIndices' BY <1>1, <1>2, <1>3, <1>6 DEF RxIndices
<1>8. RxSlots' BY <1>1 DEF RxSlots
<1>9. Handling' BY <1>1, <1>2 DEF Handling
<1>10. AnswersHandled' /\ CommandsInOrder' BY <1>1 DEF AnswersHandled, CommandsInOrder
<1> QED BY <1>7, <1>8, <1>9, <1>10

(* The opcode is read from the slot of the first command unhandled.        *)
LEMMA RxCbRx == ASSUME IInv, RxInv, rx_from_uart_cb PROVE RxInv'
<1> USE DEF RxInv
<1>0. RxNum \in Nat \ {0} /\ Wrap % RxNum = 0 BY FifoAssumption
<1>1. UNCHANGED <<sent, rxBusy, rxFlag, rxBuf, rxW, rxR, dma, got, txBuf, tbuf, out>>
  BY DEF rx_from_uart_cb, mcuVars, rxVars, queueVars, sendVars
<1>2. sent \in Nat /\ Len(got) \in Nat /\ Counted \in Int /\ Counted <= sent /\ Len(got) <= Counted
  BY DEF IInv, TypeOK, Counted, RxIndices
<1>3. Handling'
  <2> SUFFICES ASSUME pc' = "handle" PROVE Len(got) < Counted /\ cmd' = Len(got) + 1
    BY <1>1 DEF Handling, Counted
  <2>1. rxR # rxW /\ cmd' = rxBuf[Slot(rxR, RxNum)] BY DEF rx_from_uart_cb
  <2>2. Len(got) < Counted BY <1>2, <2>1 DEF RxIndices
  <2>3. Slot(rxR, RxNum) = Len(got) % RxNum BY <1>0, <1>2, WrappedSlot DEF RxIndices
  <2>4. Len(got) + 1 \in (Len(got) + 1) .. sent /\ (Len(got) + 1) - 1 = Len(got) BY <1>2, <2>2
  <2>5. rxBuf[Len(got) % RxNum] = Len(got) + 1 BY <2>4 DEF RxSlots
  <2> QED BY <2>1, <2>2, <2>3, <2>5
<1>4. RxIndices' /\ RxSlots' /\ AnswersHandled' /\ CommandsInOrder'
  BY <1>1 DEF RxIndices, RxSlots, AnswersHandled, CommandsInOrder, Counted
<1> QED BY <1>3, <1>4

(* And so are the parameters: the slot has not been written in between.    *)
LEMMA HandlerRx == ASSUME IInv, RxInv, bls_uart_handler PROVE RxInv'
<1> USE DEF RxInv
<1>0. RxNum \in Nat \ {0} /\ Wrap % RxNum = 0 /\ TxNum \in Nat \ {0} BY FifoAssumption
<1> DEFINE n == Len(got)
<1>1. /\ pc = "handle" /\ pc' = "tx" /\ rxR' = Inc(rxR) /\ hci_send_data(cmd)
      /\ got' = Append(got, <<cmd, rxBuf[Slot(rxR, RxNum)]>>)
      /\ UNCHANGED <<sent, rxBusy, rxFlag, rxBuf, rxW, dma, tbuf, out>>
  BY DEF bls_uart_handler, mcuVars, sendVars
<1>2. sent \in Nat /\ n \in Nat /\ Counted \in Int /\ Counted <= sent /\ n < Counted /\ cmd = n + 1
      /\ Counted' = Counted
  BY <1>1 DEF IInv, TypeOK, Counted, Handling
<1>3. Slot(rxR, RxNum) = n % RxNum /\ rxR' = (n + 1) % Wrap
  BY <1>0, <1>1, <1>2, WrappedSlot DEF RxIndices
<1>4. rxBuf[n % RxNum] = n + 1
  <2>1. n + 1 \in (n + 1) .. sent /\ (n + 1) - 1 = n BY <1>2
  <2> QED BY <2>1 DEF RxSlots
<1>5. got \in Seq(Cmd \X (Cmd \cup {Nothing})) BY DEF IInv, TypeOK
<1>6. Len(got') = n + 1 /\ got' = Append(got, <<n + 1, n + 1>>)
  BY <1>1, <1>2, <1>3, <1>4, <1>5
<1>7. RxIndices'
  BY <1>0, <1>1, <1>2, <1>3, <1>6 DEF RxIndices
<1>8. RxSlots' BY <1>1, <1>2, <1>6 DEF RxSlots
<1>9. AnswersHandled'
  <2>1. \A s \in Slots(TxNum) : txBuf'[s] = txBuf[s] \/ txBuf'[s] = cmd
    BY <1>1 DEF hci_send_data, queueVars, IInv, TypeOK
  <2>2. \A x \in Cmd : x <= n => x <= n + 1 BY <1>2, BoundAssumption DEF Cmd
  <2> QED BY <1>1, <1>2, <1>6, <2>1, <2>2 DEF AnswersHandled
<1>10. CommandsInOrder'
  <2>1. \A k \in 1 .. n : got'[k] = got[k] BY <1>5, <1>6
  <2>2. got'[n + 1] = <<n + 1, n + 1>> BY <1>5, <1>6
  <2> QED BY <1>2, <1>6, <2>1, <2>2 DEF CommandsInOrder
<1> QED BY <1>1, <1>7, <1>8, <1>9, <1>10 DEF Handling

(* What the MCU receives is what has been queued.                          *)
LEMMA TxRx == ASSUME IInv, RxInv, TxDmaEnd \/ StackEvent \/ tx_to_uart_cb PROVE RxInv'
<1> USE DEF RxInv
<1>0. TxNum \in Nat \ {0} BY FifoAssumption
<1>t. TypeOK BY DEF IInv
<1>1. /\ UNCHANGED <<sent, rxBusy, rxFlag, rxBuf, rxW, rxR, dma, got>>
      /\ pc' = "handle" => pc = "handle" /\ cmd' = cmd
  BY DEF TxDmaEnd, StackEvent, tx_to_uart_cb, mcuVars, rxVars, loopVars
<1>2. RxIndices' /\ RxSlots' /\ Handling' /\ CommandsInOrder'
  BY <1>1 DEF RxIndices, RxSlots, Handling, CommandsInOrder, Counted
<1>3. CASE TxDmaEnd
  <2>1. out' = Append(out, tbuf) /\ UNCHANGED <<txBuf, tbuf>> BY <1>3 DEF TxDmaEnd, queueVars
  <2>2. \A i \in 1 .. Len(out') : out'[i] = tbuf \/ (i \in 1 .. Len(out) /\ out'[i] = out[i])
    BY <1>t, <2>1 DEF TypeOK
  <2> QED BY <1>1, <1>2, <2>1, <2>2 DEF AnswersHandled
<1>4. CASE StackEvent
  <2>1. UNCHANGED <<tbuf, out>> BY <1>4 DEF StackEvent, sendVars
  <2>2. events' \in Nat \ {0} /\ hci_send_data(MaxCmds + events')
    BY <1>t, <1>4 DEF StackEvent, TypeOK
  <2>3. MaxCmds + events' \notin Cmd
    <3>1. \A e \in Nat \ {0} : MaxCmds + e \notin Cmd BY BoundAssumption DEF Cmd
    <3> QED BY <2>2, <3>1
  <2>4. \A s \in Slots(TxNum) : txBuf'[s] = txBuf[s] \/ txBuf'[s] = MaxCmds + events'
    BY <1>t, <2>2 DEF hci_send_data, queueVars, TypeOK
  <2> QED BY <1>1, <1>2, <2>1, <2>3, <2>4 DEF AnswersHandled
<1>5. CASE tx_to_uart_cb
  <2>1. UNCHANGED <<txBuf, out>> BY <1>5 DEF tx_to_uart_cb, queueVars
  <2>2. Slot(txR, TxNum) \in Slots(TxNum) BY <1>t, <1>0, SlotIndex DEF TypeOK
  <2>3. tbuf' = tbuf \/ tbuf' = txBuf[Slot(txR, TxNum)] BY <1>5 DEF tx_to_uart_cb
  <2> QED BY <1>1, <1>2, <2>1, <2>2, <2>3 DEF AnswersHandled
<1> QED BY <1>3, <1>4, <1>5

LEMMA RxDmaEndRx == ASSUME RxInv, RxDmaEnd PROVE RxInv'
<1>1. /\ rxBusy /\ rxBusy' = FALSE /\ rxFlag' = TRUE
      /\ UNCHANGED <<sent, rxBuf, rxW, rxR, dma, pc, cmd, got, txBuf, tbuf, out>>
  BY DEF RxDmaEnd, loopVars, queueVars, sendVars
<1>2. Counted' = Counted BY <1>1 DEF Counted
<1> QED BY <1>1, <1>2 DEF RxInv, RxIndices, RxSlots, Handling, AnswersHandled, CommandsInOrder

LEMMA RxStep == ASSUME Window <= RxNum, IInv, RxInv, [Next]_vars PROVE RxInv'
<1>1. CASE McuDrive \/ TxIrq \/ TxDelayOver \/ SdkDone \/ Suspend \/ WakeUp \/ app_power_management
           \/ UNCHANGED vars
  <2>1. /\ UNCHANGED <<sent, rxBusy, rxVars, got, txBuf, tbuf, out>>
        /\ pc' = "handle" => pc = "handle" /\ cmd' = cmd
    BY <1>1 DEF McuDrive, TxIrq, TxDelayOver, SdkDone, Suspend, WakeUp, app_power_management, vars,
       mcuVars, loopVars, queueVars, sendVars
  <2> QED BY <2>1, RxKept
<1>2. CASE McuSend BY <1>2, McuSendRx
<1>3. CASE RxDmaEnd BY <1>3, RxDmaEndRx
<1>4. CASE UartRxIrq BY <1>4, UartRxIrqRx
<1>5. CASE rx_from_uart_cb BY <1>5, RxCbRx
<1>6. CASE bls_uart_handler BY <1>6, HandlerRx
<1>7. CASE TxDmaEnd \/ StackEvent \/ tx_to_uart_cb BY <1>7, TxRx
<1> QED BY <1>1, <1>2, <1>3, <1>4, <1>5, <1>6, <1>7 DEF Next, Main, Mcu, Hardware

(* Every command the MCU sends is saved until it is handled, once, in      *)
(* order and with its own parameters (main.c:12-43, spp.c:346-381), for a  *)
(* fifo and a window of any size, as long as the MCU has no more commands  *)
(* unanswered than hci_rx_fifo has slots.                                  *)
THEOREM CommandsAreKept == ASSUME Window <= RxNum PROVE Spec => []CommandsKept
<1>1. IInv /\ RxInv => CommandsKept
  <2> SUFFICES ASSUME IInv, RxInv PROVE ReceivedIsSaved BY DEF RxInv, CommandsKept
  <2> SUFFICES ASSUME NEW k \in (Len(got) + 1) .. Received
               PROVE  \E s \in Slots(RxNum) : rxBuf[s] = k
    BY DEF ReceivedIsSaved
  <2>1. sent \in Nat /\ Len(got) \in Nat /\ RxNum \in Nat \ {0} BY FifoAssumption DEF IInv, TypeOK
  <2>2. k \in (Len(got) + 1) .. sent /\ k - 1 \in Int BY <2>1 DEF Received
  <2>3. (k - 1) % RxNum \in Slots(RxNum) BY <2>1, <2>2, DivMod DEF Slots
  <2> QED BY <2>2, <2>3 DEF RxInv, RxSlots
<1>2. IInv /\ RxInv /\ [Next]_vars => RxInv' BY RxStep
<1> QED BY <1>1, <1>2, RxInit, Inductive, PTL DEF Spec

-----------------------------------------------------------------------------
(* The queue to the MCU implements its abstract specification, step by     *)
(* step.  A ring of as many slots as its index has values could not tell   *)
(* full from empty, so TxNum is less than Wrap.                            *)
Any == Msg \cup {Nothing}
Wire == IF tx = "sending" THEN <<tbuf>> ELSE <<>>
Ring(b, w, r) == [k \in 1 .. Count(w, r) |-> b[Slot(r + k - 1, TxNum)]]

LEMMA IncIs == ASSUME NEW x \in Index PROVE Inc(x) = IF x = Wrap - 1 THEN 0 ELSE x + 1
<1>0. Wrap \in Nat \ {0} /\ x \in Int BY WrapAssumption DEF Index
<1>1. CASE x = Wrap - 1
  <2>1. (Wrap * 1 + 0) % Wrap = 0 BY <1>0, ModIs
  <2>2. x + 1 = Wrap * 1 + 0 BY <1>0, <1>1
  <2> QED BY <1>1, <2>1, <2>2 DEF Inc
<1>2. CASE x # Wrap - 1
  <2>1. x + 1 \in 0 .. Wrap - 1 BY <1>0, <1>2 DEF Index
  <2>2. (Wrap * 0 + (x + 1)) % Wrap = x + 1 BY <1>0, <2>1, ModIs
  <2>3. Wrap * 0 + (x + 1) = x + 1 BY <1>0
  <2> QED BY <1>2, <2>2, <2>3 DEF Inc
<1> QED BY <1>1, <1>2

LEMMA CountIs ==
  ASSUME NEW w \in Index, NEW r \in Index
  PROVE  Count(w, r) = IF w >= r THEN w - r ELSE w - r + Wrap
<1>0. Wrap \in Nat \ {0} /\ w \in Int /\ r \in Int BY WrapAssumption DEF Index
<1>1. CASE w >= r
  <2>1. w - r \in 0 .. Wrap - 1 BY <1>0, <1>1 DEF Index
  <2>2. (Wrap * 0 + (w - r)) % Wrap = w - r BY <1>0, <2>1, ModIs
  <2>3. Wrap * 0 + (w - r) = w - r BY <1>0
  <2> QED BY <1>1, <2>2, <2>3 DEF Count
<1>2. CASE w < r
  <2>1. w - r + Wrap \in 0 .. Wrap - 1 BY <1>0, <1>2 DEF Index
  <2>2. (Wrap * (-1) + (w - r + Wrap)) % Wrap = w - r + Wrap BY <1>0, <2>1, ModIs
  <2>3. Wrap * (-1) + (w - r + Wrap) = w - r BY <1>0
  <2> QED BY <1>0, <1>2, <2>2, <2>3 DEF Count
<1> QED BY <1>0, <1>1, <1>2

(* One entry more at the write end, or one less at the read end.           *)
LEMMA CountSteps ==
  ASSUME NEW w \in Index, NEW r \in Index
  PROVE  /\ Count(w, r) \in 0 .. Wrap - 1
         /\ Count(w, r) < Wrap - 1 => Count(Inc(w), r) = Count(w, r) + 1
         /\ w # r => Count(w, r) >= 1 /\ Count(w, Inc(r)) = Count(w, r) - 1
         /\ w = r => Count(w, r) = 0
<1>0. Wrap \in Nat \ {0} /\ w \in 0 .. Wrap - 1 /\ r \in 0 .. Wrap - 1 BY WrapAssumption DEF Index
<1>1. Inc(w) \in 0 .. Wrap - 1 /\ Inc(r) \in 0 .. Wrap - 1 BY IncIndex DEF Index
<1>2. Count(w, r) = IF w >= r THEN w - r ELSE w - r + Wrap BY CountIs
<1>3. Count(Inc(w), r) = IF Inc(w) >= r THEN Inc(w) - r ELSE Inc(w) - r + Wrap
  BY IncIndex, CountIs
<1>4. Count(w, Inc(r)) = IF w >= Inc(r) THEN w - Inc(r) ELSE w - Inc(r) + Wrap
  BY IncIndex, CountIs
<1>5. Inc(w) = (IF w = Wrap - 1 THEN 0 ELSE w + 1) /\ Inc(r) = (IF r = Wrap - 1 THEN 0 ELSE r + 1)
  BY IncIs
<1> QED BY <1>0, <1>1, <1>2, <1>3, <1>4, <1>5

(* The write index addresses the slot behind the last entry.               *)
LEMMA WriteSlot ==
  ASSUME NEW w \in Index, NEW r \in Index, NEW n \in Nat \ {0}, Wrap % n = 0
  PROVE  Slot(w, n) = Slot(r + Count(w, r), n)
<1>0. Wrap \in Nat \ {0} /\ w \in Int /\ r \in Int BY WrapAssumption DEF Index
<1>1. Count(w, r) = IF w >= r THEN w - r ELSE w - r + Wrap BY CountIs
<1>2. CASE w >= r
  <2>1. r + Count(w, r) = w BY <1>0, <1>1, <1>2
  <2> QED BY <2>1
<1>3. CASE ~(w >= r)
  <2> DEFINE q == Wrap \div n
  <2>1. q \in Int /\ Wrap = n * q BY <1>0, DivMod
  <2> HIDE DEF q
  <2>2. r + Count(w, r) = n * q + w BY <1>0, <1>1, <1>3, <2>1
  <2>3. (n * q + w) % n = w % n BY <1>0, <2>1, ModOfSum
  <2> QED BY <2>2, <2>3 DEF Slot
<1> QED BY <1>2, <1>3

LEMMA RingType ==
  ASSUME NEW b \in [Slots(TxNum) -> Any], NEW w \in Index, NEW r \in Index
  PROVE  Ring(b, w, r) \in Seq(Any) /\ Len(Ring(b, w, r)) = Count(w, r)
<1>0. TxNum \in Nat \ {0} /\ r \in Int /\ Count(w, r) \in Nat
  BY FifoAssumption, CountSteps DEF Index
<1>1. ASSUME NEW k \in 1 .. Count(w, r) PROVE b[Slot(r + k - 1, TxNum)] \in Any
  <2>1. r + k - 1 \in Int BY <1>0
  <2>2. Slot(r + k - 1, TxNum) \in Slots(TxNum) BY <1>0, <2>1, DivMod DEF Slot, Slots
  <2> QED BY <2>2
<1> QED BY <1>0, <1>1 DEF Ring

(* What is written into the next slot is appended to the ring.             *)
LEMMA RingAppend ==
  ASSUME TxNum < Wrap, NEW b \in [Slots(TxNum) -> Any], NEW w \in Index, NEW r \in Index,
         Count(w, r) < TxNum, NEW m \in Any
  PROVE  Ring([b EXCEPT ![Slot(w, TxNum)] = m], Inc(w), r) = Append(Ring(b, w, r), m)
<1> DEFINE c == Count(w, r)
           b2 == [b EXCEPT ![Slot(w, TxNum)] = m]
           s == Ring(b2, Inc(w), r)
           t == Ring(b, w, r)
           u == Append(t, m)
<1>0. TxNum \in Nat \ {0} /\ Wrap \in Nat \ {0} /\ Wrap % TxNum = 0 /\ r \in Int /\ c \in Nat
  BY FifoAssumption, WrapAssumption, CountSteps DEF Index
<1>1. Slot(w, TxNum) \in Slots(TxNum) /\ Inc(w) \in Index /\ b2 \in [Slots(TxNum) -> Any]
  BY <1>0, SlotIndex, IncIndex
<1>2. Count(Inc(w), r) = c + 1 BY <1>0, CountSteps
<1>3. s \in Seq(Any) /\ Len(s) = c + 1 /\ t \in Seq(Any) /\ Len(t) = c
  <2> HIDE DEF b2
  <2> QED BY <1>1, <1>2, RingType
<1>4. u \in Seq(Any) /\ Len(u) = c + 1 /\ u[c + 1] = m /\ \A k \in 1 .. c : u[k] = t[k]
  <2> HIDE DEF t
  <2> QED BY <1>3, AppendProperties
<1>5. Slot(w, TxNum) = (r + c) % TxNum BY <1>0, WriteSlot DEF Slot
<1>6. ASSUME NEW k \in 1 .. c + 1 PROVE s[k] = u[k]
  <2>1. s[k] = b2[(r + k - 1) % TxNum]
    <3> HIDE DEF b2
    <3> QED BY <1>2, <1>6 DEF Ring, Slot
  <2>2. CASE k = c + 1
    <3>1. r + k - 1 = r + c BY <1>0, <2>2
    <3>2. b2[(r + c) % TxNum] = m BY <1>1, <1>5
    <3> QED BY <1>4, <2>1, <2>2, <3>1, <3>2
  <2>3. CASE k # c + 1
    <3>1. k \in 1 .. c /\ r + k - 1 \in Int /\ r + c \in Int /\ r + k - 1 < r + c
          /\ r + c < (r + k - 1) + TxNum
      BY <1>0, <2>3
    <3>2. (r + k - 1) % TxNum # (r + c) % TxNum BY <1>0, <3>1, ModDistinct
    <3>3. (r + k - 1) % TxNum \in Slots(TxNum) BY <1>0, <3>1, DivMod DEF Slots
    <3>4. b2[(r + k - 1) % TxNum] = b[(r + k - 1) % TxNum] BY <1>5, <3>2, <3>3
    <3>5. t[k] = b[(r + k - 1) % TxNum] BY <3>1 DEF Ring, Slot
    <3> QED BY <1>4, <2>1, <3>1, <3>4, <3>5
  <2> QED BY <2>2, <2>3
<1>7. s = u
  <2> HIDE DEF s, u
  <2> QED BY <1>3, <1>4, <1>6, SeqEqual
<1> QED BY <1>7

(* The first entry and the ring behind it.                                 *)
LEMMA RingTakes ==
  ASSUME NEW b \in [Slots(TxNum) -> Any], NEW w \in Index, NEW r \in Index, w # r
  PROVE  Ring(b, w, r) = <<b[Slot(r, TxNum)]>> \o Ring(b, w, Inc(r))
<1> DEFINE c == Count(w, r)
           m == b[Slot(r, TxNum)]
           s == Ring(b, w, r)
           t == Ring(b, w, Inc(r))
           u == <<m>> \o t
<1>0. TxNum \in Nat \ {0} /\ Wrap \in Nat \ {0} /\ Wrap % TxNum = 0 /\ r \in Int /\ c \in Nat \ {0}
      /\ Count(w, Inc(r)) = c - 1 /\ Inc(r) \in Index
  BY FifoAssumption, WrapAssumption, CountSteps, IncIndex DEF Index
<1>1. m \in Any BY <1>0, SlotIndex
<1>2. s \in Seq(Any) /\ Len(s) = c /\ t \in Seq(Any) /\ Len(t) = c - 1 BY <1>0, RingType
<1>3. u \in Seq(Any) /\ Len(u) = c /\ \A k \in 1 .. c : u[k] = IF k <= 1 THEN m ELSE t[k - 1]
  <2>1. <<m>> \in Seq(Any) /\ Len(<<m>>) = 1 /\ <<m>>[1] = m BY <1>1
  <2>2. ASSUME NEW x \in Seq(Any), Len(x) = 1
        PROVE  /\ x \o t \in Seq(Any) /\ Len(x \o t) = 1 + Len(t)
               /\ \A k \in 1 .. 1 + Len(t) : (x \o t)[k] = IF k <= 1 THEN x[k] ELSE t[k - 1]
    <3> HIDE DEF t
    <3>1. /\ x \o t \in Seq(Any) /\ Len(x \o t) = Len(x) + Len(t)
          /\ \A k \in 1 .. Len(x) + Len(t) :
               (x \o t)[k] = IF k <= Len(x) THEN x[k] ELSE t[k - Len(x)]
      BY <1>2, ConcatProperties
    <3> QED BY <2>2, <3>1
  <2>3. 1 + (c - 1) = c BY <1>0
  <2> HIDE DEF t, m
  <2>4. u \in Seq(Any) /\ Len(u) = c
        /\ \A k \in 1 .. c : u[k] = IF k <= 1 THEN <<m>>[k] ELSE t[k - 1]
    BY <1>2, <2>1, <2>2, <2>3
  <2>5. \A k \in 1 .. c : k <= 1 => <<m>>[k] = m BY <2>1
  <2> HIDE DEF u
  <2> QED BY <2>4, <2>5
<1>4. ASSUME NEW k \in 1 .. c PROVE s[k] = u[k]
  <2>1. s[k] = b[(r + k - 1) % TxNum] BY DEF Ring, Slot
  <2>2. CASE k = 1
    <3>1. r + k - 1 = r BY <1>0, <2>2
    <3> QED BY <1>3, <2>1, <2>2, <3>1 DEF Slot
  <2>3. CASE k # 1
    <3>0. TxNum \in Nat \ {0} /\ Wrap % TxNum = 0 BY FifoAssumption
    <3>1. k - 1 \in 1 .. c - 1 /\ k - 1 - 1 \in Int /\ r + 1 \in Int BY <1>0, <2>3
    <3>2. t[k - 1] = b[(Inc(r) + (k - 1) - 1) % TxNum] BY <1>0, <3>1 DEF Ring, Slot
    <3>3. (((r + 1) % Wrap) + (k - 1 - 1)) % TxNum = ((r + 1) + (k - 1 - 1)) % TxNum
      BY <3>0, <3>1, Wrapped, Zenon
    <3>4. (r + 1) + (k - 1 - 1) = r + k - 1 BY <1>0
    <3>5. Inc(r) + (k - 1) - 1 = ((r + 1) % Wrap) + (k - 1 - 1)
      BY <1>0, <3>1 DEF Inc, Index
    <3>6. u[k] = t[k - 1] BY <1>3, <2>3
    <3> QED BY <2>1, <3>2, <3>3, <3>4, <3>5, <3>6
  <2> QED BY <2>2, <2>3
<1>5. s = u
  <2> HIDE DEF s, u
  <2> QED BY <1>2, <1>3, <1>4, SeqEqual
<1> QED BY <1>5

(* What hci_send_data accepts is one event more at the end of the queue.   *)
LEMMA SendAccepts ==
  ASSUME TxNum < Wrap, TypeOK, NEW m \in Msg, hci_send_data(m), UNCHANGED sendVars
  PROVE  Channel!Accept(m) \/ UNCHANGED <<Queue, out>>
<1>0. txW \in Index /\ txR \in Index /\ txBuf \in [Slots(TxNum) -> Any] /\ m \in Any
      /\ UNCHANGED <<txR, tbuf, tx, out>> /\ TxNum \in Nat \ {0}
  BY FifoAssumption DEF TypeOK, Any, sendVars
<1>1. CASE Full(txW, txR, TxNum)
  <2>1. UNCHANGED <<txBuf, txW>> BY <1>1 DEF hci_send_data, queueVars
  <2> QED BY <1>0, <2>1 DEF Queue
<1>2. CASE ~Full(txW, txR, TxNum)
  <2> DEFINE t == Ring(txBuf, txW, txR)
  <2>1. txBuf' = [txBuf EXCEPT ![Slot(txW, TxNum)] = m] /\ txW' = Inc(txW)
    BY <1>2 DEF hci_send_data
  <2>2. Count(txW, txR) < TxNum /\ Count(txW, txR) \in Nat
    BY <1>0, <1>2, CountSteps DEF Full
  <2>3. Ring(txBuf', txW', txR') = Append(t, m)
    BY <1>0, <2>1, <2>2, RingAppend
  <2>4. Queue = Wire \o t /\ Queue' = Wire \o Append(t, m)
    <3>1. Queue = Wire \o t BY DEF Queue, Wire, Ring
    <3>2. Queue' = Wire' \o Ring(txBuf', txW', txR') BY DEF Queue, Wire, Ring
    <3>3. Wire' = Wire BY <1>0 DEF Wire
    <3> QED BY <2>3, <3>1, <3>2, <3>3
  <2>5. Wire \in Seq(Any) /\ Len(Wire) <= 1 /\ Len(Wire) \in Nat
    <3>1. <<tbuf>> \in Seq(Any) /\ Len(<<tbuf>>) = 1 BY DEF TypeOK, Any
    <3>2. <<>> \in Seq(Any) /\ Len(<<>>) = 0 OBVIOUS
    <3> QED BY <3>1, <3>2 DEF Wire
  <2>6. t \in Seq(Any) /\ Len(t) = Count(txW, txR) BY <1>0, RingType
  <2> HIDE DEF t
  <2>7. Wire \o Append(t, m) = Append(Wire \o t, m)
    <3>1. Append(t, m) = t \o <<m>> BY <1>0, <2>6, AppendIsConcat
    <3>2. Wire \o t \in Seq(Any) BY <2>5, <2>6, ConcatProperties
    <3>3. Append(Wire \o t, m) = (Wire \o t) \o <<m>> BY <1>0, <3>2, AppendIsConcat
    <3>4. <<m>> \in Seq(Any) BY <1>0
    <3> QED BY <2>5, <2>6, <3>1, <3>3, <3>4, ConcatAssociative
  <2>8. Len(Queue) = Len(Wire) + Len(t) BY <2>4, <2>5, <2>6, ConcatProperties
  <2>9. Len(Queue) < TxNum + 1 BY <1>0, <2>2, <2>5, <2>6, <2>8
  <2> QED BY <1>0, <2>4, <2>7, <2>9 DEF Channel!Accept
<1> QED BY <1>1, <1>2

LEMMA ChannelInit == Init => Channel!Init
<1> SUFFICES ASSUME Init PROVE Queue = <<>> /\ out = <<>> BY DEF Channel!Init
<1>1. tx # "sending" /\ txW = 0 /\ txR = 0 /\ out = <<>> BY DEF Init
<1>2. 0 \in Index BY WrapAssumption DEF Index
<1>3. Count(txW, txR) = 0 BY <1>1, <1>2, CountSteps
<1>4. Queue = <<>> \o [k \in 1 .. 0 |-> txBuf[Slot(txR + k - 1, TxNum)]] BY <1>1, <1>3 DEF Queue
<1>5. [k \in 1 .. 0 |-> txBuf[Slot(txR + k - 1, TxNum)]] = <<>> OBVIOUS
<1> QED BY <1>1, <1>4, <1>5

LEMMA ChannelStep ==
  ASSUME TxNum < Wrap, IInv, [Next]_vars
  PROVE  [Channel!Next]_<<Queue, out>>
<1>t. TypeOK BY DEF IInv
<1>1. CASE StackEvent
  <2>1. events' \in Nat \ {0} /\ events' <= MaxEvents /\ hci_send_data(MaxCmds + events')
        /\ UNCHANGED sendVars
    BY <1>t, <1>1, BoundAssumption DEF StackEvent, TypeOK
  <2>2. MaxCmds + events' \in Msg
    <3>1. \A e \in Nat \ {0} : e <= MaxEvents => MaxCmds + e \in Msg BY BoundAssumption DEF Msg
    <3> QED BY <2>1, <3>1
  <2> QED BY <1>t, <2>1, <2>2, SendAccepts DEF Channel!Next
<1>2. CASE bls_uart_handler
  <2>1. cmd \in Msg BY <1>2, CmdIsMsg DEF bls_uart_handler, IInv, HandlerHasCommand
  <2>2. hci_send_data(cmd) /\ UNCHANGED sendVars BY <1>2 DEF bls_uart_handler
  <2> QED BY <1>t, <2>1, <2>2, SendAccepts DEF Channel!Next
<1>3. CASE TxDmaEnd
  <2> DEFINE t == Ring(txBuf, txW, txR)
  <2>1. tx = "sending" /\ tx' = "sent" /\ out' = Append(out, tbuf)
        /\ UNCHANGED <<txBuf, txW, txR, tbuf>>
    BY <1>3 DEF TxDmaEnd, queueVars
  <2>2. Queue = <<tbuf>> \o t /\ Queue' = <<>> \o t BY <2>1 DEF Queue, Ring
  <2>3. t \in Seq(Any) /\ tbuf \in Any
    <3>1. txBuf \in [Slots(TxNum) -> Any] BY <1>t DEF TypeOK, Any
    <3> QED BY <1>t, <3>1, RingType DEF TypeOK, Any
  <2> HIDE DEF t
  <2>4. Head(<<tbuf>> \o t) = tbuf /\ Tail(<<tbuf>> \o t) = t /\ <<tbuf>> \o t # <<>>
        /\ <<>> \o t = t
    BY <2>3
  <2> QED BY <2>1, <2>2, <2>4 DEF Channel!Next, Channel!Deliver
<1>4. CASE tx_to_uart_cb
  <2>1. CASE txR # txW /\ ~UartIsBusy
    <3> DEFINE t == Ring(txBuf, txW, Inc(txR))
    <3>1. tx = "idle" /\ tx' = "sending" /\ tbuf' = txBuf[Slot(txR, TxNum)] /\ txR' = Inc(txR)
          /\ UNCHANGED <<txBuf, txW, out>>
      BY <1>4, <2>1 DEF tx_to_uart_cb, UartIsBusy, queueVars
    <3>2. Queue = <<>> \o Ring(txBuf, txW, txR) /\ Queue' = <<tbuf'>> \o t
      BY <3>1 DEF Queue, Ring
    <3>3. txBuf \in [Slots(TxNum) -> Any] /\ txW \in Index /\ txR \in Index
      BY <1>t DEF TypeOK, Any
    <3>4. Ring(txBuf, txW, txR) = <<tbuf'>> \o t BY <2>1, <3>1, <3>3, RingTakes
    <3>5. Ring(txBuf, txW, txR) \in Seq(Any) BY <3>3, RingType
    <3>6. <<>> \o Ring(txBuf, txW, txR) = Ring(txBuf, txW, txR)
      BY <3>5, ConcatEmptySeq
    <3> QED BY <3>1, <3>2, <3>4, <3>6
  <2>2. CASE ~(txR # txW /\ ~UartIsBusy)
    BY <1>4, <2>2 DEF tx_to_uart_cb, queueVars, Queue
  <2> QED BY <2>1, <2>2
<1>5. CASE TxIrq \/ TxDelayOver
  BY <1>5 DEF TxIrq, TxDelayOver, queueVars, Queue
<1>6. CASE McuDrive \/ McuSend \/ RxDmaEnd \/ UartRxIrq \/ SdkDone \/ rx_from_uart_cb \/ Suspend
           \/ WakeUp \/ app_power_management \/ UNCHANGED vars
  <2>1. UNCHANGED <<txBuf, txW, txR, tbuf, tx, out>>
    BY <1>6 DEF McuDrive, McuSend, RxDmaEnd, UartRxIrq, SdkDone, rx_from_uart_cb, Suspend, WakeUp,
       app_power_management, vars, queueVars, sendVars
  <2> QED BY <2>1 DEF Queue
<1> QED BY <1>1, <1>2, <1>3, <1>4, <1>5, <1>6 DEF Next, Main, Mcu, Hardware

(* hci_tx_fifo, the send buffer and the transmit DMA together              *)
(* (spp.c:311-381, main.c:36-43) are a bounded queue: what hci_send_data   *)
(* has accepted reaches the MCU once and in order, whatever the sizes.     *)
THEOREM QueueIsChannel == ASSUME TxNum < Wrap PROVE Spec => IsChannel
<1>1. IInv /\ [Next]_vars => [Channel!Next]_<<Queue, out>> BY ChannelStep
<1> QED BY <1>1, ChannelInit, Inductive, PTL DEF Spec, IsChannel, Channel!Spec
=============================================================================
