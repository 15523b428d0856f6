------------------------------- MODULE Interval -------------------------------
(***************************************************************************)
(* The order of the jobs within an interval (a, b] of completion times     *)
(* (Interval.h): what sigma, the special pairs, the layers of the diagram  *)
(* and Sol::canonical_order all sort by.                                   *)
(***************************************************************************)
EXTENDS Integers

\* Mutant: long jobs are not put first.
Earlier_ByRatio(jobs, a, b, x, y) ==
  LET wx == IF jobs[x].d >= b THEN 0 ELSE jobs[x].w
      wy == IF jobs[y].d >= b THEN 0 ELSE jobs[y].w
  IN  \/ wx * jobs[y].p > wy * jobs[x].p
      \/ wx * jobs[y].p = wy * jobs[x].p /\ jobs[x].p > jobs[y].p

\* compare_edd: in the interval (a, b], jobs that fill it come first, then those
\* late by its end by weight per unit of time; longer ones first among equals.
Earlier(jobs, a, b, x, y) ==
  LET wx == IF jobs[x].d >= b THEN 0 ELSE jobs[x].w
      wy == IF jobs[y].d >= b THEN 0 ELSE jobs[y].w
      long(j) == jobs[j].p >= b - a
  IN  IF long(x) # long(y) THEN long(x)
      ELSE \/ wx * jobs[y].p > wy * jobs[x].p
           \/ wx * jobs[y].p = wy * jobs[x].p /\ jobs[x].p > jobs[y].p
================================================================================
