\* Every body of up to four tokens over two variables.
CONSTANTS
  Depth = 2
  Vars = {x, y}
  Val = {u, v}
  None = None
  MaxTokens = 4
SPECIFICATION Spec
INVARIANTS TypeOK BlocksCommitOnce
PROPERTIES Isolation
SYMMETRY Symmetry
CHECK_DEADLOCK FALSE
