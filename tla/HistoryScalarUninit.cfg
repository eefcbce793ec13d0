\* The same variable under every combination of options.
CONSTANTS
  Depth = 3
  Val <- Words
  Zero = 0
  Configs <- AllConfigs
SPECIFICATION Spec
INVARIANT PtrInCycle
