-------------------------- MODULE MCColumnGeneration --------------------------
(***************************************************************************)
(* A node with three elementary columns and one that runs a job twice.     *)
(* {a, b} is the incumbent, {b, c} the schedule the node still has to      *)
(* find, and the others are fractional; a unit of cost is 4 ticks and the  *)
(* tolerance 3, so that stopping with the master 2 ticks above the bound   *)
(* is possible.  Bounds are even: no two of them are exactly ETA_DIFF      *)
(* apart, which doubles are only by coincidence.                           *)
(***************************************************************************)
EXTENDS ColumnGeneration, TLC

CONSTANTS a, b, c, n

MCCol == {a, b, c, n}
MCElementary == {a, b, c}
Sol(cols, cost, integral) == [cols |-> cols, cost |-> cost, integral |-> integral]
MCBasic == {Sol({}, 20, FALSE), Sol({a}, 18, FALSE), Sol({a, b}, 16, TRUE),
            Sol({a, n}, 14, FALSE), Sol({b, c}, 12, TRUE), Sol({c, n}, 10, FALSE)}
MCOptSol == {a, b}
AllPools == SUBSET MCCol \ {{}}
AllDiagrams == SUBSET MCCol
EmptyPool == {{}}
==============================================================================
