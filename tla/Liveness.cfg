\* Every function of three instructions over two variables.
CONSTANTS
  N = 5
  Vars = {x, y}
  None = None
  Instrs <- Choice
SPECIFICATION FairSpec
INVARIANTS TypeOK OnlyLive SecondWalkComplete ClobbersLinked
PROPERTIES Terminates
CHECK_DEADLOCK FALSE
