SPECIFICATION Spec
CONSTANTS
  Instances <- MCInstances
  Moves <- AllMoves
  Perturbations <- MCPerturbations
  MaxPerturb = 1
  IR = 1
INVARIANT PricesAreReal
PROPERTY JobsAreKept
