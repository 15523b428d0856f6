--------------------------- MODULE MCStabilisation ---------------------------
(***************************************************************************)
(* Columns of one, two and three jobs on two machines, three jobs in all:  *)
(* costs are such that the best dual lies inside the grid, that mispricing *)
(* goes on to the master's duals, and that the LP bound is not always the  *)
(* cost of a solution.  Every diagram and every pool over them.            *)
(***************************************************************************)
EXTENDS Stabilisation

C(jobs, cost) == [jobs |-> jobs, cost |-> cost]
MCCol == {C(1, 2), C(1, 6), C(2, 11), C(2, 15), C(3, 28)}
NonEmpty == SUBSET MCCol \ {{}}
==============================================================================
