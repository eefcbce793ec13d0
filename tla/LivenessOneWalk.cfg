\* Every function of three instructions over two variables.
CONSTANTS
  N = 5
  Vars = {x, y}
  None = None
  Instrs <- Choice
SPECIFICATION Spec
INVARIANT LivenessCalculated
CHECK_DEADLOCK FALSE
