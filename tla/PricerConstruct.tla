---------------------------- MODULE PricerConstruct ----------------------------
(***************************************************************************)
(* The specification the decision diagram is built from (PricerConstruct): *)
(* one layer for each pair of a job and an interval it may complete in, in *)
(* the order of the intervals and, in one, of the interval's job order.    *)
(* A state is the time at which the machine is free.                       *)
(*                                                                         *)
(* A job is [p, w, d], a layer [job, a, b]; jobs are numbered from 1.      *)
(***************************************************************************)
EXTENDS Integers, Sequences, FiniteSets, FiniteSetsExt, Functions

Late(C, d) == IF C > d THEN C - d ELSE 0

\* Job::weighted_tardiness
WeightedTardiness(job, C) == job.w * Late(C, job.d)

\* Job::weighted_tardiness_start
WeightedTardinessStart(job, S) == job.w * Late(S + job.p, job.d)

\* value_diff_Fij: what running job i and then j, j completing at C if it came
\* first, costs more than running j and then i.
ValueDiff(C, i, j) ==
  WeightedTardinessStart(i, C - j.p) + WeightedTardiness(j, C + i.p)
    - WeightedTardiness(j, C) - WeightedTardinessStart(i, C)

\* A job started at t completes in the interval of the layer.
Fits(jobs, layer, t) == layer.a < t + jobs[layer.job].p /\ t + jobs[layer.job].p <= layer.b

\* What Instance leaves: the first interval begins at 0 and has a job that fits in it,
\* and the layers of a job are for one interval after the other.
IsInstance(I) ==
  /\ I.jobs \in Seq([p : Nat \ {0}, d : Nat, w : Nat]) /\ I.m \in Nat \ {0} /\ I.hmin \in Nat
  /\ I.layers \in Seq([job : DOMAIN I.jobs, a : Nat, b : Nat]) /\ I.layers # <<>>
  /\ Fits(I.jobs, I.layers[1], 0)
  /\ \A k, l \in DOMAIN I.layers :
       k < l /\ I.layers[k].job = I.layers[l].job => I.layers[k].b <= I.layers[l].a

\* min_job: the next layer whose job can be started at t; after taking layer l
\* not the same job again.
MinJob(jobs, layers, l, t, taken) ==
  LET next == {i \in l + 1 .. Len(layers) :
                 /\ Fits(jobs, layers[i], t)
                 /\ taken => layers[i].job # layers[l].job}
  IN  IF next = {} THEN Len(layers) + 1 ELSE Min(next)

\* The two terminals, as nodes.
Zero == <<0, 0>>
One == <<0, 1>>

\* getChild: from layer l at time t, taking the layer's job or not.
GetChild(jobs, layers, l, t, taken) ==
  LET time == IF taken THEN t + jobs[layers[l].job].p ELSE t
      next == MinJob(jobs, layers, l, time, taken)
  IN  IF next <= Len(layers) THEN <<next, time>>
      ELSE IF time <= layers[l].b THEN One ELSE Zero

\* getRoot
RootNode(layers) == <<1, 0>>

\* The job sequences of the paths from each node to the 1-terminal.
PathsFrom(jobs, layers) ==
  LET horizon == IF layers = <<>> THEN 0 ELSE Max({layers[i].b : i \in DOMAIN layers})
      from[l \in 1 .. Len(layers), t \in 0 .. horizon] ==
        LET below(taken) == LET c == GetChild(jobs, layers, l, t, taken)
                            IN  IF c = One THEN {<<>>}
                                ELSE IF c = Zero THEN {}
                                ELSE from[c[1], c[2]]
        IN  below(FALSE) \cup {<<layers[l].job>> \o s : s \in below(TRUE)}
  IN  from

Paths(jobs, layers) == IF layers = <<>> THEN {<<>>} ELSE PathsFrom(jobs, layers)[1, 0]
------------------------------------------------------------------------------
(* What the paths are compared with: schedules, whoever found them. *)

Load(jobs, S) == SumFunction([j \in S |-> jobs[j].p])

\* The cost of running a sequence of jobs without idle time.
SequenceCost(jobs, s) ==
  LET at[i \in 0 .. Len(s)] ==
        IF i = 0 THEN [t |-> 0, c |-> 0]
        ELSE LET t == at[i - 1].t + jobs[s[i]].p
             IN  [t |-> t, c |-> at[i - 1].c + WeightedTardiness(jobs[s[i]], t)]
  IN  at[Len(s)].c

JobsOf(s) == {s[i] : i \in DOMAIN s}
IsElementary(s) == Cardinality(JobsOf(s)) = Len(s)

Infinity == 1000000

\* The cheapest way to split the jobs over at most m machines, a machine with
\* the jobs S costing cost[S].
CheapestSplit(jobs, m, cost) ==
  LET best[k \in 0 .. m] ==
        [S \in SUBSET DOMAIN jobs |->
          IF S = {} THEN 0
          ELSE IF k = 0 THEN Infinity
          ELSE Min({cost[T] + best[k - 1][S \ T] : T \in {T \in SUBSET S : Max(S) \in T}})]
  IN  best[m][DOMAIN jobs]

\* The cheapest order of each set of jobs on one machine.
OrderCost(jobs) ==
  LET best[S \in SUBSET DOMAIN jobs] ==
        IF S = {} THEN 0
        ELSE Min({best[S \ {j}] + WeightedTardiness(jobs[j], Load(jobs, S)) : j \in S})
  IN  best

\* The optimal value of the instance.
OptimalCost(jobs, m) == CheapestSplit(jobs, m, OrderCost(jobs))

\* The cheapest schedule whose machines all run a sequence of the set P.
CheapestOver(jobs, m, P) ==
  CheapestSplit(jobs, m,
    [S \in SUBSET DOMAIN jobs |->
       LET costs == {SequenceCost(jobs, s) : s \in {s \in P : IsElementary(s) /\ JobsOf(s) = S}}
       IN  IF costs = {} THEN Infinity ELSE Min(costs)])
================================================================================
