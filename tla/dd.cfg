SPECIFICATION Spec
CONSTANTS
  Instances <- MCInstances
  DualValues = {0, 3}
  Solvers = {"simple", "cycle", "backward_simple", "backward_cycle"}
CHECK_DEADLOCK FALSE
INVARIANTS ImprovingSchedulesStay ModelAdmitsImproving GivenUpOnlyIfNothingLeft PricedIsBest CheckIsExact FractionalHasCandidate IntegerHasSchedule BranchingIsRespected
PROPERTIES BranchingCutsSolution
