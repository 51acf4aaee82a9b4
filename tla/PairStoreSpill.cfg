SPECIFICATION Spec
CONSTANTS
  a1 = a1  a2 = a2  a3 = a3
  Addr = {a1, a2}
  MaxBonds = 1
  Slots = 4
  CleanAt = 2
  AddsPerCycle = 5
  EraseLeaves <- Whole
INVARIANTS WithinSector
