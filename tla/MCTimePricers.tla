----------------------------- MODULE MCTimePricers -----------------------------
(***************************************************************************)
(* Small instances with jobs that are late at different times, on one and  *)
(* two machines; every sequence within the horizon, and every LP solution  *)
(* of at most three columns with values in halves.                         *)
(***************************************************************************)
EXTENDS TimePricers, Preprocessed

Orders(js, h) ==
  {s \in UNION {[1 .. n -> DOMAIN js] : n \in 0 .. Len(js)} :
     IsElementary(s) /\ Load(js, JobsOf(s)) <= h}

Lps(js, m, orders) ==
  LET some == {C \in UNION {kSubset(n, orders \ {<<>>}) : n \in 1 .. 3} :
                 UNION {JobsOf(s) : s \in C} = DOMAIN js}
  IN  {x \in UNION {[C -> {5, 10}] : C \in some} :
         /\ MapThenSumSet(LAMBDA s : x[s], DOMAIN x) <= 10 * m
         /\ \A j \in DOMAIN js :
              MapThenSumSet(LAMBDA s : x[s], {s \in DOMAIN x : j \in JobsOf(s)}) = 10}

\* The variables bound by a set hold values: each part is worked out once.
Prepared(p, h) ==
  {[jobs |-> p.jobs, m |-> p.m, H |-> h, orders |-> orders, lps |-> Lps(p.jobs, p.m, orders)] :
     orders \in {Orders(p.jobs, h)}}

MCInstances ==
  UNION {Prepared(p, Max({p.intervals[k].b : k \in DOMAIN p.intervals})) :
    p \in {Preprocess(<<Job(1, 2, 3), Job(2, 2, 3), Job(1, 4, 2)>>, 1),
           Preprocess(<<Job(3, 1, 3), Job(2, 2, 1), Job(1, 5, 2)>>, 1),
           Preprocess(<<Job(2, 2, 3), Job(3, 4, 2), Job(2, 5, 1)>>, 2),
           Preprocess(<<Job(1, 1, 1), Job(1, 1, 1), Job(2, 2, 2)>>, 2)}}
==============================================================================
