SPECIFICATION Spec
CONSTANTS
  Instances <- LostInstance
  Moves <- AllMoves
  Perturbations <- AllPerturbations
  MaxPerturb = 0
  IR = 0
INVARIANT BestSolutionIsComplete
