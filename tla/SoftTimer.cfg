SPECIFICATION Spec
CONSTANTS
  f1 = f1  f2 = f2  f3 = f3  f4 = f4
  Fn = {f1, f2, f3, f4}
  Interval = {2, 4}
  MaxTimers = 4
  Wrap = 32
  Pre = 1
  Post = 5
  Turn = 1
  SelfDelete = FALSE
INVARIANTS TimerInv FirstIsFirst NeverMissed
SYMMETRY Callbacks
