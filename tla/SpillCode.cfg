\* Functions of three or four instructions over three registers, two passes that spill.
CONSTANTS
  Bodies <- SomeBodies
  VarRegs = {0}
  TempRegs = {1, 2}
  Val = {u, v}
  Junk = Junk
  None = None
  MaxSpills <- TwoThenOne
SPECIFICATION Spec
INVARIANTS TypeOK EdgesPaired GraphFollowsCode UsesReadLast
CHECK_DEADLOCK FALSE
