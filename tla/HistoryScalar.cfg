\* Every layout whose pointer the compiler initialises.
CONSTANTS
  Depth = 3
  Val <- Words
  Zero = 0
  Configs <- InitialisedConfigs
SPECIFICATION Spec
INVARIANTS TypeOK PtrInCycle
PROPERTIES NeighboursUntouched ImplementsHistory
