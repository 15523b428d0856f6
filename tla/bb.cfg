SPECIFICATION Spec
CONSTANTS
  Job <- MCJob
  Time <- MCTime
  Schedule <- MCSchedule
  InitUB = 3
  Score <- Product
  MaxCand = 2
INVARIANTS TypeOK ImprovementIsLive NodeBoundsAreStale
PROPERTY FindsOptimum
