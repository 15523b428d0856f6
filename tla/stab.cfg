SPECIFICATION Spec
CONSTANTS
  Col <- MCCol
  Jobs = 3
  Machines = 2
  UB = 20
  MaxDual = 24
  MaxIter = 12
  RcRate = 3
  Techniques = {"base", "static", "dynamic", "hybrid"}
  InitialPools <- NonEmpty
  InitialDiagrams <- NonEmpty
INVARIANTS FixingKeepsWanted GivesUpOnlyAtOptimum ConvergesBeforeLimit
PROPERTY ImplementsNodeBound
