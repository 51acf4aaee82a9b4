SPECIFICATION Spec
CONSTANTS
  a1 = a1  a2 = a2  a3 = a3
  Addr = {a1, a2, a3}
  MaxBonds = 2
  Slots = 4
  CleanAt = 2
  AddsPerCycle = 2
  EraseLeaves <- TornBytes
SYMMETRY Symmetric
VIEW Observed
INVARIANTS TypeOK NeverTrapped RebootKeepsTable BondsOutlastBoots
PROPERTIES LogDiscipline
