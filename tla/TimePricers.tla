------------------------------ MODULE TimePricers ------------------------------
(***************************************************************************)
(* A node's calls of a pricer over time: PricerSolverSimpleDp ("time") or  *)
(* PricerSolverArcTimeDp ("arc").  The pricer keeps its tables from one    *)
(* call to the next, and the LP solution it was last given.  The tables of *)
(* the time-indexed pricer are overwritten before they are read; those of  *)
(* the other are not.                                                      *)
(***************************************************************************)
EXTENDS PricerConstruct, Functions

CONSTANTS
  Instances,              \* preprocessed: [jobs, m, H, orders, lps], orders
                          \* being sequences within the horizon, lps LP solutions
  Pricers,                \* those in use
  JobDuals, ConvexDuals,  \* values of the master's duals
  MaxCalls                \* bound on the number of calls

ASSUME TimePricersAssumption ==
  /\ Pricers \subseteq {"time", "arc"}
  /\ JobDuals \subseteq Nat /\ ConvexDuals \subseteq Int
  /\ MaxCalls \in Nat

VARIABLES
  pricer, inst,
  graph,          \* arcs, of the arc-time-indexed pricer
  table, after,   \* its forward_F, A and B, and its backward_F
  pi, sol,        \* duals and result of the last pricing
  bounds,         \* what both recursions find in the last evaluate_nodes
  lp,             \* lp_x, in tenths
  model,          \* build_mip of the arc-time pricer was called
  calls

vars == <<pricer, inst, graph, table, after, pi, sol, bounds, lp, model, calls>>

jobs == inst.jobs
H    == inst.H
Duals == {Append(d, c) : d \in [DOMAIN jobs -> JobDuals], c \in ConvexDuals}

Time == INSTANCE TimeIndexed
Arc  == INSTANCE ArcTime

None == <<>>

Init ==
  /\ pricer \in Pricers /\ inst \in Instances
  /\ IF pricer = "time" THEN graph = {} /\ table = None /\ after = None
     ELSE /\ graph = Arc!Graph(inst.jobs, inst.H)
          /\ table = Arc!NewForward(inst.jobs, inst.H, graph)
          /\ after = Arc!NewBackward(inst.jobs, inst.H, graph)
  /\ pi = None /\ sol = None /\ bounds = None /\ lp = None
  /\ model = FALSE /\ calls = 0

Call == calls < MaxCalls /\ calls' = calls + 1 /\ UNCHANGED <<pricer, inst, graph>>

\* pricing_algorithm
PriceOverTime ==
  /\ Call /\ pricer = "time"
  /\ pi' \in Duals
  /\ sol' = Time!CheapestSchedule(jobs, H, pi')
  /\ UNCHANGED <<table, after, bounds, lp, model>>

PriceOverArcs ==
  /\ Call /\ pricer = "arc"
  /\ pi' \in Duals
  /\ table' = Arc!Forward(jobs, H, graph, pi', table)
  /\ sol' = Arc!CheapestSchedule(jobs, H, pi', table')
  /\ UNCHANGED <<after, bounds, lp, model>>

\* evaluate_nodes fixes nothing: it computes both tables and returns false.
EvaluateOverTime ==
  /\ Call /\ pricer = "time"
  /\ \E d \in Duals :
       bounds' = [forward  |-> Time!Forward(jobs, H, d)[H].F - d[Len(d)],
                  backward |-> Time!Backward(jobs, H, d)[0]]
  /\ UNCHANGED <<table, after, pi, sol, lp, model>>

EvaluateOverArcs ==
  /\ Call /\ pricer = "arc"
  /\ \E d \in Duals : /\ table' = Arc!Forward(jobs, H, graph, d, table)
                      /\ after' = Arc!Backward(jobs, H, graph, d, after)
  /\ bounds' = [forward  |-> table'[Arc!Idle(jobs), H].F,
                backward |-> after'[Arc!Idle(jobs), 0]]
  /\ UNCHANGED <<pi, sol, lp, model>>

\* construct_lp_sol_from_rmp: each column adds its value to what it uses.
Used(s) == IF pricer = "time" THEN Time!Starts(jobs, s) ELSE Arc!ArcsOf(jobs, H, s)

ConstructLp ==
  /\ Call
  /\ \E x \in inst.lps :
       lp' = [u \in UNION {Used(s) : s \in DOMAIN x} |->
                MapThenSumSet(LAMBDA s : x[s], {s \in DOMAIN x : u \in Used(s)})]
  /\ UNCHANGED <<table, after, pi, sol, bounds, model>>

\* build_mip, of the arc-time-indexed pricer.
BuildMip ==
  /\ Call /\ pricer = "arc"
  /\ model' = TRUE
  /\ UNCHANGED <<table, after, pi, sol, bounds, lp>>

Done == calls = MaxCalls /\ UNCHANGED vars

Next == PriceOverTime \/ PriceOverArcs \/ EvaluateOverTime \/ EvaluateOverArcs
        \/ ConstructLp \/ BuildMip \/ Done

Spec == Init /\ [][Next]_vars
------------------------------------------------------------------------------
Best == OrderCost(jobs)

\* Pricing ends with a schedule within the horizon whose reduced cost, run without
\* waiting, is the one reported, and no order of any set of jobs has a smaller one:
\* neither the arcs taken out of the graph, nor jobs that may be repeated, nor what
\* the tables hold from earlier calls spoils it.
PricedIsBest ==
  sol # None =>
    /\ pricer = "arc" => sol.ends
    /\ Load(jobs, JobsOf(sol.jobs)) <= H
    /\ sol.obj = pi[Len(pi)] + SequenceCost(jobs, sol.jobs)
                   - MapThenSumSet(LAMBDA i : pi[sol.jobs[i]], DOMAIN sol.jobs)
    /\ \A S \in SUBSET DOMAIN jobs :
         Load(jobs, S) <= H /\ (S # {} \/ pricer = "time")
           => sol.obj <= pi[Len(pi)] + Best[S] - MapThenSumSet(LAMBDA j : pi[j], S)

\* The forward and the backward recursion find the same least reduced cost; of the
\* arc-time pricer only the backward one counts the machine that does nothing.
RecursionsAgree ==
  bounds # None =>
    bounds.backward = IF pricer = "arc" THEN Min({0, bounds.forward}) ELSE bounds.forward

\* The LP solution kept over times or arcs runs every job once and never uses more
\* than the machines there are.
LpIsSchedule ==
  lp # None =>
    IF pricer = "time"
    THEN /\ \A j \in DOMAIN jobs : MapThenSumSet(LAMBDA v : lp[v], {v \in DOMAIN lp : v[1] = j}) = 10
         /\ \A t \in 0 .. H :
              MapThenSumSet(LAMBDA v : lp[v], {v \in DOMAIN lp : v[2] <= t /\ t < v[2] + jobs[v[1]].p})
                <= 10 * inst.m
    ELSE LET arcs == Arc!AllArcs(jobs, H)
         IN  /\ \A j \in DOMAIN jobs : Arc!Flow(lp, {a \in arcs : a[2] = j}) = 10
             /\ \A j \in DOMAIN jobs : \A t \in 0 .. H - jobs[j].p : Arc!Conserved(jobs, arcs, lp, j, t)
             /\ \A t \in 0 .. H - 1 : Arc!Conserved(jobs, arcs, lp, Arc!Idle(jobs), t)
             /\ Arc!Flow(lp, {a \in arcs : a[1] = Arc!Idle(jobs) /\ a[3] = 0}) <= 10 * inst.m

\* Schedules of the instance, a sequence for each machine, that cost the optimum.
Plans == {x \in [1 .. inst.m -> inst.orders] :
            /\ UNION {JobsOf(x[k]) : k \in 1 .. inst.m} = DOMAIN jobs
            /\ MapThenSumSet(LAMBDA k : Len(x[k]), 1 .. inst.m) = Len(jobs)
            /\ MapThenSumSet(LAMBDA k : SequenceCost(jobs, x[k]), 1 .. inst.m)
                 = OptimalCost(jobs, inst.m)}

\* The mixed-integer model over arcs has an optimal schedule among its solutions:
\* no arc it needs was dropped, and the flow rows allow machines to stop early.
ArcModelAdmitsOptimum ==
  LET arcs(x, k) == Arc!ArcsOf(jobs, H, x[k])
      point(x) == [a \in UNION {arcs(x, k) : k \in DOMAIN x} |->
                     Cardinality({k \in DOMAIN x : a \in arcs(x, k)})]
  IN  model =>
        \E x \in Plans : Arc!ModelAccepts(jobs, inst.m, H, graph, point(x))
==============================================================================
