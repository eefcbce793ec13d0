\* Every graph on four nodes, two registers.
CONSTANTS
  N = 4
  NRegs = 2
  Costs <- SomeCosts
SPECIFICATION FairSpec
INVARIANTS TypeOK GraphKept ProperColouring LowDegreeNeverSpilled SpillsNeeded
PROPERTIES Terminates
CHECK_DEADLOCK FALSE
