SPECIFICATION Spec
CONSTANTS
  Node <- MCNode
  Root = "root"
  Path <- MCPath
  Set <- MCSet
  Key <- MCKey
  Retirement = 1
  MinNumDel = 1
  MaxSolves = 2
CHECK_DEADLOCK FALSE
INVARIANT PositionsAligned
PROPERTY PathsAreKept
