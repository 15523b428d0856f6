---------------------------- MODULE MCBranchAndBound ----------------------------
(***************************************************************************)
(* Two jobs that complete at 1..3 and three schedules, a candidate of each *)
(* job for strong branching to probe. The heuristic's value is one above   *)
(* the worst of the schedules.                                             *)
(***************************************************************************)
EXTENDS BranchAndBound

MCJob == {1, 2}
MCTime == 1 .. 3
MCSchedule == {[C |-> <<1, 2>>, cost |-> 2], [C |-> <<2, 1>>, cost |-> 1], [C |-> <<3, 1>>, cost |-> 1]}

\* std::max(left, EPS) * std::max(right, EPS), in units of EPS = 1/10
Product(l, r) == (IF l = 0 THEN 1 ELSE 10 * l) * (IF r = 0 THEN 1 ELSE 10 * r)
================================================================================
