SPECIFICATION FairSpec
CONSTANTS
  a = a
  b = b
  c = c
  n = n
  Col <- MCCol
  Elementary <- MCElementary
  Basic <- MCBasic
  OptSol <- MCOptSol
  UB = 16
  Unit = 4
  EtaDiff = 3
  Grain = 2
  MaxIter = 12
  RcRate = 2
  RcFixing = TRUE
  InitialPools <- EmptyPool
  InitialDiagrams <- AllDiagrams
INVARIANT MasterMatchesPool
