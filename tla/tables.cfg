SPECIFICATION Spec
CONSTANTS
  Specs <- MCSpecs
  SweepRatio = 6
  MaxRounds = 2
  MaxRemoved = 1
CHECK_DEADLOCK FALSE
INVARIANTS LanguageIsKept LabelsAreStates TableIsCompact PendingIsRight
