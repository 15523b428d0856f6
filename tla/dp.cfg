SPECIFICATION Spec
CONSTANTS
  Instances <- MCInstances
  Pricers = {"time", "arc"}
  JobDuals = {0, 5}
  ConvexDuals = {2}
  MaxCalls = 2
INVARIANTS PricedIsBest RecursionsAgree LpIsSchedule ArcModelAdmitsOptimum
