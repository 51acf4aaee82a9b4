SPECIFICATION FairSpec
CONSTANTS
  Wrap = 4
  RxNum = 2
  TxNum = 2
  Window = 2
  MaxCmds = 3
  MaxEvents = 2
INVARIANTS TypeOK CommandsKept McuAwakeForData AsleepIsIdle
PROPERTIES IsChannel AllServed IdleSuspends
