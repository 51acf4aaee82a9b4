SPECIFICATION FairSpec
CONSTANTS
  FwSize <- TwoAndTooBig
  FwMax = 64
  FifoDepth = 1
  FifoGuard = 1
  Slave = {s1, s2}
  s1 = s1  s2 = s2
  SlavePars = {"fast", "slow"}
  Steps = 1
INVARIANTS UpdateInv
PROPERTIES Transfers CommandAnswered
