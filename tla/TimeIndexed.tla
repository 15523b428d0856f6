------------------------------ MODULE TimeIndexed ------------------------------
(***************************************************************************)
(* The time-indexed pricer PricerSolverSimpleDp: the cheapest schedule by  *)
(* a recursion over the time at which it ends.  Jobs are numbered from 1,  *)
(* H is the horizon Hmax, and pi gives the dual of every job and, as       *)
(* pi[Len(jobs) + 1], that of the convexity row.  No job is the null       *)
(* pointer.                                                                *)
(***************************************************************************)
EXTENDS PricerConstruct

NoJob == 0

\* forward_graph, backward_graph: jobs that may complete, or start, at t.
MayComplete(jobs, t) == {j \in DOMAIN jobs : t >= jobs[j].p}
MayStart(jobs, H, t) == {j \in DOMAIN jobs : t + jobs[j].p <= H}

\* One entry of the forward table, from those before it.  Of equal jobs the last
\* one wins.  Waiting lowers F[t] only: A[t] stays the job that ends at t.
ForwardEntry(jobs, pi, F, t) ==
  LET value(j) == F[t - jobs[j].p].F + WeightedTardiness(jobs[j], t) - pi[j]
      ends  == MayComplete(jobs, t)
      least == Min({value(j) : j \in ends})
  IN  IF ends = {} THEN [F |-> F[t - 1].F, A |-> NoJob]
      ELSE [F |-> Min({least, F[t - 1].F}), A |-> Max({j \in ends : value(j) = least})]

\* forward_evaluator: F[t] is the least reduced cost of a schedule of length t
\* at most.
Forward(jobs, H, pi) ==
  LET table[t \in 0 .. H] ==
        IF t = 0 THEN [F |-> pi[Len(jobs) + 1], A |-> NoJob] ELSE ForwardEntry(jobs, pi, table, t)
  IN  table

\* backward_evaluator: the least reduced cost of what can follow from t on.
Backward(jobs, H, pi) ==
  LET after[t \in 0 .. H] ==
        LET value(j) == LET C == t + jobs[j].p
                        IN  after[C] + WeightedTardiness(jobs[j], C) - pi[j]
        IN  IF t = H THEN 0 ELSE Min({value(j) : j \in MayStart(jobs, H, t)} \cup {after[t + 1]})
  IN  after

Cheapest(table) == {t \in DOMAIN table : \A u \in DOMAIN table : table[t].F <= table[u].F}

\* The cheapest end time pricing starts from; mutant: the last of them.
EndTime_Last(table) == Max(Cheapest(table))
EndTime(table) == Min(Cheapest(table))

\* The jobs found by following A back from t.
Walk(jobs, table) ==
  LET back[t \in DOMAIN table] ==
        IF table[t].A = NoJob THEN <<>> ELSE Append(back[t - jobs[table[t].A].p], table[t].A)
  IN  back

\* pricing_algorithm: what it says a best schedule costs, and the schedule.
CheapestSchedule(jobs, H, pi) ==
  LET table == Forward(jobs, H, pi)
      end   == EndTime(table)
  IN  [obj |-> table[end].F, jobs |-> Walk(jobs, table)[end]]

\* Mutant: time advances before the start is noted.
Starts_Advanced(jobs, s) == {<<s[i], Load(jobs, {s[k] : k \in 1 .. i})>> : i \in DOMAIN s}

\* The starts of the jobs of s on one machine, without idle time.
Starts(jobs, s) == {<<s[i], Load(jobs, {s[k] : k \in 1 .. i - 1})>> : i \in DOMAIN s}
================================================================================
