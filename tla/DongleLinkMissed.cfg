SPECIFICATION Spec
CONSTANTS
  s1 = s1  s2 = s2
  Slave = {s1, s2}
  Requests = 2
  MaxBonds = 1
  MaxEvt = 1
INVARIANT NewSlaveIsDiscovered
