---------------------------- MODULE DecisionDiagram ----------------------------
(***************************************************************************)
(* The pricer over a decision diagram (PricerSolverBdd and its four        *)
(* solvers): construction, the filters, pricing, reduced-cost fixing,      *)
(* cloning and branching on a completion time.                             *)
(*                                                                         *)
(* A node is <<layer, time>>; its 1-arc starts the layer's job, its 0-arc  *)
(* does not.  Once a node's 1-arc is gone, the reduction forwards what     *)
(* points to it along its 0-arc, so a diagram is its root and the arcs of  *)
(* the nodes that still have a 1-arc.  Rows and columns of the node table, *)
(* which the reduction renumbers, are abstracted to that.                  *)
(***************************************************************************)
EXTENDS PricerConstruct, SequencesExt

CONSTANTS
  Instances,    \* preprocessed: [jobs, m, hmin, layers]
  DualValues,   \* duals of the jobs
  Solvers       \* the kinds of solver

\* The driver's solvers over a decision diagram; "backward_cycle" is the default.
SolverKinds == {"simple", "cycle", "backward_simple", "backward_cycle"}

ASSUME DiagramAssumption ==
  /\ DualValues \subseteq Int
  /\ Solvers \subseteq SolverKinds
  /\ \A I \in Instances : IsInstance(I)

VARIABLES
  inst, solver,  \* the instance and the kind of solver
  dd,            \* the diagram: [root, lo, hi]
  labels,        \* its forward labels, as last evaluated
  UB,            \* PricerSolverBase::UB
  sol,           \* the column last priced: [pi, f, seq]
  lp,            \* the LP solution: the values of its columns, in units
  cuts,          \* branching decisions, [job, time, left]
  targets        \* history: the schedules within the decisions, [cost, paths]

vars == <<inst, solver, dd, labels, UB, sol, lp, cuts, targets>>

Nodes(D) == DOMAIN D.lo
JobAt(I, n) == I.layers[n[1]].job
Length(I, n) == I.jobs[JobAt(I, n)].p

Horizon(I) == Max({I.layers[l].b : l \in DOMAIN I.layers})

\* DdBuilder: the nodes that are reached, row by row, equal states being merged.
Built(I) ==
  LET child(n, taken) == GetChild(I.jobs, I.layers, n[1], n[2], taken)
      below(S, l) == S \cup UNION {{child(n, FALSE), child(n, TRUE)} : n \in {n \in S : n[1] = l}}
      nodes == FoldLeft(below, {RootNode(I.layers)}, [l \in DOMAIN I.layers |-> l]) \ {Zero, One}
  IN  [root |-> RootNode(I.layers),
       lo |-> [n \in nodes |-> child(n, FALSE)], hi |-> [n \in nodes |-> child(n, TRUE)]]

\* compressBdd: what points to a node of S points to where its 0-arcs lead.
Redirected(D, S) ==
  LET to[x \in Nodes(D) \cup {One}] == IF x \in S THEN to[D.lo[x]] ELSE x
  IN  to

Root(D, to) == to[D.root]

\* remove_edges: the nodes of S lose their 1-arc.
Compress(D, S) ==
  LET to == Redirected(D, S)
      root == Root(D, to)
      kept == {n \in Nodes(D) \ S : root # One /\ n[1] >= root[1]}
  IN  [root |-> root, lo |-> [n \in kept |-> to[D.lo[n]]], hi |-> [n \in kept |-> to[D.hi[n]]]]

\* The most work on a path from a node.
Farthest(I, D) ==
  LET far[n \in Nodes(D) \cup {One}] ==
        IF n = One THEN 0
        ELSE LET low == far[D.lo[n]]
                 high == far[D.hi[n]] + Length(I, n)
             IN  IF low > high THEN low ELSE high
  IN  far

\* cleanup_arcs: a 1-arc that no path with the least load uses goes.
Cleanup(I, D) ==
  LET far == Farthest(I, D)
  IN  Compress(D, {n \in Nodes(D) : n[2] + far[D.hi[n]] + Length(I, n) < I.hmin})

\* The jobs that are on all paths to a node.
AlwaysAbove(I, D) ==
  LET on[n \in Nodes(D)] ==
        LET above == {on[u] : u \in {u \in Nodes(D) : D.lo[u] = n}}
                     \cup {on[u] \cup {JobAt(I, u)} : u \in {u \in Nodes(D) : D.hi[u] = n}}
        IN  {j \in UNION above : \A s \in above : j \in s}
  IN  on

\* topdown_filtering: such a job cannot start at the node.
Topdown(I, D) ==
  LET on == AlwaysAbove(I, D)
      S == {n \in Nodes(D) : JobAt(I, n) \in on[n]}
  IN  IF S = {} THEN D ELSE Cleanup(I, Compress(D, S))

\* The jobs that are on all paths from a node.
AlwaysBelow(I, D) ==
  LET on[n \in Nodes(D) \cup {One}] ==
        IF n = One THEN {} ELSE (on[D.hi[n]] \cup {JobAt(I, n)}) \cap on[D.lo[n]]
  IN  on

\* bottum_up_filtering: nor can one that is on all paths from where the node leads.
BottomUp(I, D) ==
  LET on == AlwaysBelow(I, D)
      S == {n \in Nodes(D) : JobAt(I, n) \in on[D.hi[n]]}
  IN  IF S = {} THEN D ELSE Cleanup(I, Compress(D, S))

\* The constructor and the copy constructor filter in this order...
Copy(I, D) == Topdown(I, BottomUp(I, Cleanup(I, D)))

\* ... and whoever takes arcs away in that one.
RemoveArcs(I, D, S) ==
  IF S = {} THEN D ELSE Cleanup(I, Topdown(I, BottomUp(I, Compress(D, S))))
--------------------------------------------------------------------------------
(* Labels: the value of a partial path, the job next to its open end, and  *)
(* the jobs on it.                                                         *)

Huge == 1000000    \* numeric_limits<double>::max()

\* No path comes near it.
ASSUME HugeAssumption ==
  \A I \in Instances : \E B \in 0 .. Huge :
    /\ Len(I.layers) * B < Huge
    /\ \A j \in DOMAIN I.jobs, t \in 0 .. Horizon(I), v \in DualValues :
         WeightedTardinessStart(I.jobs[j], t) - v <= B

Plus(x, c) == IF x = Huge THEN Huge ELSE x + c
NoLabel == [f |-> Huge, job |-> 0, seq |-> <<>>]
Start == [f |-> 0, job |-> 0, seq |-> <<>>]

\* A 1-arc counts once in its job's row (init_coeff_constraints).
ReducedCost(I, pi, n) == WeightedTardinessStart(I.jobs[JobAt(I, n)], n[2]) - pi[JobAt(I, n)]

Prepend(l, j, c) == [f |-> Plus(l.f, c), job |-> j, seq |-> <<j>> \o l.seq]
Extend(l, j, c) == [f |-> Plus(l.f, c), job |-> j, seq |-> Append(l.seq, j)]

\* BackwardBddSimple::evalNode
BackwardSimple(I, D, pi) ==
  LET label[n \in Nodes(D) \cup {One}] ==
        IF n = One THEN <<Start, NoLabel>>
        ELSE LET low == label[D.lo[n]][1]
                 high == Prepend(label[D.hi[n]][1], JobAt(I, n), ReducedCost(I, pi, n))
             IN  <<IF low.f > high.f THEN high ELSE low, NoLabel>>
  IN  label

\* Of two labels, the one job j can go next to.
Usable_Best(pair, j) == pair[1]
Usable(pair, j) == IF pair[1].job # j THEN pair[1] ELSE pair[2]

\* A label for job j joins the two of a node, which are for different jobs.
JoinHigh(old, high, j) ==
  CASE high.f < old[1].f -> <<high, IF old[1].job # j THEN old[1] ELSE old[2]>>
    [] high.f >= old[1].f /\ high.f < old[2].f /\ old[1].job # j -> <<old[1], high>>
    [] OTHER -> old

\* BackwardBddCycle::evalNode: the best two labels that start with different jobs
BackwardCycle(I, D, pi) ==
  LET label[n \in Nodes(D) \cup {One}] ==
        IF n = One THEN <<Start, NoLabel>>
        ELSE LET j == JobAt(I, n)
             IN  JoinHigh(label[D.lo[n]],
                          Prepend(Usable(label[D.hi[n]], j), j, ReducedCost(I, pi, n)), j)
  IN  label

\* Nodes of the root's row that are not the root are left by arcs that went; no
\* path reaches them.
Rowmates(D) == {n \in Nodes(D) : n[1] = D.root[1] /\ n # D.root}

\* initializenode and initializerootnode
Fresh(n) == <<IF n # One /\ n[2] = 0 THEN Start ELSE NoLabel, NoLabel>>

\* evaluate_forward initialises the root and the rows below the root's only: the
\* root's rowmates keep their old labels.
ForwardStart(D, old) ==
  [n \in Nodes(D) \cup {One} |-> IF n \in Rowmates(D) THEN old[n] ELSE Fresh(n)]

\* ForwardBddSimple::evalNode
Better(f, n, l) == IF l.f < f[n][1].f THEN [f EXCEPT ![n] = <<l, @[2]>>] ELSE f
EvalSimple(I, D, pi, f, n) ==
  Better(Better(f, D.hi[n], Extend(f[n][1], JobAt(I, n), ReducedCost(I, pi, n))), D.lo[n], f[n][1])

\* ForwardBddCycle::evalNode, the low edge: both labels of the parent join.  prev
\* is the job of the parent's label that was used for the high edge.
JoinLow(old, new, prev) ==
  IF new[1].f < old[1].f
  THEN LET second == IF prev # old[1].job THEN old[1] ELSE old[2]
       IN  <<new[1], IF new[2].f < second.f THEN new[2] ELSE second>>
  ELSE IF new[1].f < old[2].f /\ old[1].job # prev THEN <<old[1], new[1]>>
  ELSE IF new[2].f < old[2].f THEN <<old[1], new[2]>>
  ELSE old

EvalCycle(I, D, pi, f, n) ==
  LET j == JobAt(I, n)
      used == Usable(f[n], j)
      g == [f EXCEPT ![D.hi[n]] = JoinHigh(@, Extend(used, j, ReducedCost(I, pi, n)), j)]
  IN  [g EXCEPT ![D.lo[n]] = JoinLow(@, f[n], used.job)]

Cyclic(s) == s \in {"cycle", "backward_cycle"}
Eval(I, D, pi, s, f, n) == IF Cyclic(s) THEN EvalCycle(I, D, pi, f, n) ELSE EvalSimple(I, D, pi, f, n)

\* The nodes row by row, the root's first, and by time in a row.
Times(I) == [i \in 1 .. Horizon(I) + 1 |-> i - 1]
ForwardRow(I, D, pi, s, f, l) ==
  FoldLeft(LAMBDA g, t : IF <<l, t>> \in Nodes(D) THEN Eval(I, D, pi, s, g, <<l, t>>) ELSE g, f, Times(I))
Forward(I, D, pi, s, old) ==
  FoldLeftDomain(LAMBDA f, l : ForwardRow(I, D, pi, s, f, l), ForwardStart(D, old), I.layers)
Backward(I, D, pi, s) == IF Cyclic(s) THEN BackwardCycle(I, D, pi) ELSE BackwardSimple(I, D, pi)

\* pricing_algorithm: the label of the whole path, followed by get_objective
Priced(I, D, pi, s, old) ==
  IF s \in {"simple", "cycle"} THEN Forward(I, D, pi, s, old)[One][1]
                               ELSE Backward(I, D, pi, s)[D.root][1]

\* The solvers differ in whether they keep what is only as good as the incumbent.
Exceeds_OffByOne(lb, ub, s) == lb > ub - (IF s = "backward_cycle" THEN 2 ELSE 1)
Exceeds(lb, ub, s) == lb > ub - (IF s = "backward_cycle" THEN 1 ELSE 0)

\* calculate_constLB: every job's dual, each job being required once.
ConstLB(I, pi) == SumFunctionOnSet(pi, DOMAIN I.jobs)

\* evaluate_nodes: the nodes whose 1-arc no schedule better than ub can use, by
\* the best path through the arc and m - 1 best paths.
Fixable(I, D, pi, ub, s, fw) ==
  LET bw == Backward(I, D, pi, s)
      best == IF s = "backward_cycle" THEN bw[D.root][1].f ELSE fw[One][1].f
      side(l, j) == IF Cyclic(s) /\ l[1].job = j THEN l[2].f ELSE l[1].f
      through(n) == LET j == JobAt(I, n)
                    IN  Plus(Plus(side(fw[n], j), side(bw[D.hi[n]], j)), ReducedCost(I, pi, n))
  IN  {n \in Nodes(D) : Exceeds(ConstLB(I, pi) + (I.m - 1) * best + through(n), ub, s)}
--------------------------------------------------------------------------------
Arrived_Anywhere(s, i) == TRUE
Arrived(s, i) == i = Len(s) + 1

\* check_schedule_set, construct_lp_sol_from_rmp: the arcs a column takes, its jobs
\* by 1-arcs, and whether it ends where it should.
Walk(I, D, s) ==
  LET from[n \in Nodes(D) \cup {One}] ==
        [i \in 1 .. Len(s) + 1 |->
          IF n = One THEN [arcs |-> {}, found |-> Arrived(s, i)]
          ELSE IF i <= Len(s) /\ s[i] = JobAt(I, n)
          THEN [from[D.hi[n]][i + 1] EXCEPT !.arcs = @ \cup {<<n, TRUE>>}]
          ELSE [from[D.lo[n]][i] EXCEPT !.arcs = @ \cup {<<n, FALSE>>}]]
  IN  from[D.root][1]

\* structure_feasible: as many rows as jobs
Rows(D) == Cardinality({n[1] : n \in Nodes(D)})
StructureFeasible_Strict(I, D) == Rows(D) > Len(I.jobs)
StructureFeasible(I, D) == Rows(D) >= Len(I.jobs)

\* The values of the LP solution are multiples of 1 / Unit.
Unit == 2

\* lp_x[1] of each node
Flow(I, D, x) ==
  [n \in Nodes(D) |-> MapThenSumSet(LAMBDA s : x[s], {s \in DOMAIN x : <<n, TRUE>> \in Walk(I, D, s).arcs})]

Whole_Rounded(v) == v = 0 \/ 2 * v >= Unit
Whole(v) == v = 0 \/ v >= Unit
IsInteger(I, D, x) == LET flow == Flow(I, D, x)
                      IN  \A n \in Nodes(D) : Whole(flow[n])

(* The mixed-integer model over the diagram, solved instead of branching.   *)

\* construct_mipgraph
MipArcs(D) == Nodes(D) \X BOOLEAN
Target(D, a) == IF a[2] THEN D.hi[a[1]] ELSE D.lo[a[1]]

\* project_sol_on_original_variables: the machines of a solution that use each arc.
Projected(I, D, machines) ==
  [a \in MipArcs(D) |-> Cardinality({k \in DOMAIN machines : a \in Walk(I, D, machines[k]).arcs})]

\* build_mip: each job is started once, and m units flow from the root to the
\* terminal, of which any number may share a 0-arc.
MipAccepts_Binary(I, D, x) ==
  LET sum(A) == MapThenSumSet(LAMBDA a : x[a], A)
      gain(v) == sum({a \in MipArcs(D) : Target(D, a) = v}) - sum({a \in MipArcs(D) : a[1] = v})
  IN  /\ \A a \in MipArcs(D) : x[a] \in 0 .. 1
      /\ \A j \in DOMAIN I.jobs : sum({a \in MipArcs(D) : a[2] /\ JobAt(I, a[1]) = j}) = 1
      /\ \A v \in Nodes(D) \cup {One} :
           gain(v) = CASE v = D.root -> -I.m [] v = One -> I.m [] OTHER -> 0
MipAccepts(I, D, x) ==
  LET sum(A) == MapThenSumSet(LAMBDA a : x[a], A)
      gain(v) == sum({a \in MipArcs(D) : Target(D, a) = v}) - sum({a \in MipArcs(D) : a[1] = v})
  IN  /\ \A a \in MipArcs(D) : x[a] \in 0 .. (IF a[2] THEN 1 ELSE I.m)
      /\ \A j \in DOMAIN I.jobs : sum({a \in MipArcs(D) : a[2] /\ JobAt(I, a[1]) = j}) = 1
      /\ \A v \in Nodes(D) \cup {One} :
           gain(v) = CASE v = D.root -> -I.m [] v = One -> I.m [] OTHER -> 0
MipCost(I, D, x) ==
  MapThenSumSet(LAMBDA n : x[<<n, TRUE>>] * WeightedTardinessStart(I.jobs[JobAt(I, n)], n[2]), Nodes(D))
--------------------------------------------------------------------------------
Mostly_More(v) == v > Unit
Mostly(v) == 5 * v >= 4 * Unit
Middle_Later(t, u) == t
Middle(t, u) == (t + u) \div 2

\* calculate_job_time and branch(): of a job's completion times, in order, the
\* first after the earliest at which at least 80% of the job is done, gives the
\* middle time with its predecessor.
Candidates(I, D, x) ==
  LET flow == Flow(I, D, x)
      ends(j) == {n[2] + I.jobs[j].p : n \in {n \in Nodes(D) : JobAt(I, n) = j /\ flow[n] > 0}}
      done(j, t) == MapThenSumSet(LAMBDA n : flow[n],
                      {n \in Nodes(D) : JobAt(I, n) = j /\ n[2] + I.jobs[j].p <= t})
      late(j) == {t \in ends(j) : t # Min(ends(j)) /\ Mostly(done(j, t))}
      middle(j) == LET t == Min(late(j))
                   IN  Middle(t, Max({u \in ends(j) : u < t}))
  IN  {<<j, middle(j)>> : j \in {j \in DOMAIN I.jobs : ends(j) # {} /\ late(j) # {}}}

\* split_job_time
SplitArcs_ByStart(I, D, j, time, left) ==
  {n \in Nodes(D) : JobAt(I, n) = j /\ (n[2] <= time) = left}
SplitArcs(I, D, j, time, left) ==
  {n \in Nodes(D) : JobAt(I, n) = j /\ (n[2] + Length(I, n) <= time) = left}
Split(I, D, j, time, left) == RemoveArcs(I, D, SplitArcs(I, D, j, time, left))
--------------------------------------------------------------------------------
(* The job sequences of the paths. *)
PathsBelow(I, D) ==
  LET from[n \in Nodes(D) \cup {One}] ==
        IF n = One THEN {<<>>}
        ELSE from[D.lo[n]] \cup {<<JobAt(I, n)>> \o s : s \in from[D.hi[n]]}
  IN  from
PathsOf(I, D) == PathsBelow(I, D)[D.root]

\* Completion time of the i-th job of a sequence.
EndOf(I, s, i) ==
  LET end[k \in 0 .. i] == IF k = 0 THEN 0 ELSE end[k - 1] + I.jobs[s[k]].p
  IN  end[i]
Within(I, s, c) == \A i \in DOMAIN s : s[i] = c.job => (EndOf(I, s, i) > c.time) = c.left

\* The complete schedules of the diagram, [paths, cost]: each job on one machine, each
\* machine that is used with the least load.
Plans(I, D) ==
  LET heavy == {s \in PathsOf(I, D) : IsElementary(s) /\ s # <<>> /\ Load(I.jobs, JobsOf(s)) >= I.hmin}
  IN  {x \in [1 .. I.m -> heavy \cup {<<>>}] :
         /\ UNION {JobsOf(x[k]) : k \in 1 .. I.m} = DOMAIN I.jobs
         /\ \A k, l \in 1 .. I.m : k # l => JobsOf(x[k]) \cap JobsOf(x[l]) = {}}
Planned(I, x) ==
  [paths |-> {x[k] : k \in 1 .. I.m} \ {<<>>},
   cost |-> SumFunction([k \in 1 .. I.m |-> SequenceCost(I.jobs, x[k])])]
Complete(I, D) == {Planned(I, x) : x \in Plans(I, D)}

None == [pi |-> <<>>, f |-> Huge, seq |-> <<>>]
NoLP == [s \in {} |-> 0]

\* The constructor.
Init ==
  /\ inst \in Instances /\ solver \in Solvers
  /\ dd = Copy(inst, Built(inst))
  /\ targets = Complete(inst, Built(inst))
  /\ UB \in {OptimalCost(inst.jobs, inst.m) + k : k \in 1 .. 2}
  /\ labels = [n \in Nodes(dd) |-> <<NoLabel, NoLabel>>]
  /\ sol = None /\ lp = NoLP /\ cuts = {}

\* pricing_algorithm
Price ==
  /\ dd.root # One /\ sol = None /\ lp = NoLP
  /\ \E pi \in [DOMAIN inst.jobs -> DualValues] :
       LET label == Priced(inst, dd, pi, solver, labels)
       IN  sol' = [pi |-> pi, f |-> label.f, seq |-> label.seq]
  /\ UNCHANGED <<inst, solver, dd, labels, UB, lp, cuts, targets>>

\* evaluate_nodes
Fix ==
  /\ sol # None
  /\ LET fw == Forward(inst, dd, sol.pi, solver, labels)
     IN  /\ dd' = RemoveArcs(inst, dd, Fixable(inst, dd, sol.pi, UB, solver, fw))
         /\ labels' = Restrict(fw, Nodes(dd'))
  /\ sol' = None
  /\ UNCHANGED <<inst, solver, UB, lp, cuts, targets>>

\* The tree has a better incumbent by the time the node is branched on
\* (update_UB, branch()).
Improve ==
  /\ sol = None /\ lp = NoLP
  /\ \E s \in targets : s.cost < UB /\ UB' = s.cost
  /\ UNCHANGED <<inst, solver, dd, labels, sol, lp, cuts, targets>>

\* ConstraintAssignment, evaluated on a column: the times it starts the job.
Covers(s, j) == Cardinality({i \in DOMAIN s : s[i] = j})

\* solve_relaxation, construct_lp_sol_from_rmp: columns that cover each job.
Solve ==
  /\ sol = None /\ lp = NoLP /\ StructureFeasible(inst, dd)
  /\ LET cols == {s \in PathsOf(inst, dd) : s # <<>> /\ \A i \in 2 .. Len(s) : s[i] # s[i - 1]}
     IN  \E k \in Unit .. Unit * inst.m : \E c \in [1 .. k -> cols] :
           /\ \A j \in DOMAIN inst.jobs : MapThenSumSet(LAMBDA i : Covers(c[i], j), 1 .. k) >= Unit
           /\ lp' = [s \in {c[i] : i \in 1 .. k} |-> Cardinality({i \in 1 .. k : c[i] = s})]
  /\ UNCHANGED <<inst, solver, dd, labels, UB, sol, cuts, targets>>

\* branch(): one of the two children, cloned and split.
Branch ==
  /\ lp # NoLP /\ ~IsInteger(inst, dd, lp)
  /\ \E c \in Candidates(inst, dd, lp), left \in BOOLEAN :
       LET cut == [job |-> c[1], time |-> c[2], left |-> left]
       IN  /\ dd' = Split(inst, Copy(inst, dd), c[1], c[2], left)
           /\ cuts' = cuts \cup {cut}
           /\ targets' = {s \in targets : \A p \in s.paths : Within(inst, p, cut)}
  /\ lp' = NoLP
  /\ labels' = Restrict(labels, Nodes(dd'))
  /\ UNCHANGED <<inst, solver, UB, sol>>

Next == Price \/ Fix \/ Improve \/ Solve \/ Branch
Spec == Init /\ [][Next]_vars
--------------------------------------------------------------------------------
\* Whatever the duals, the filters, fixing and branching take no path away that a
\* schedule better than the incumbent, within the branching decisions, needs.
ImprovingSchedulesStay ==
  \A s \in targets : s.cost < UB => s.paths \subseteq PathsOf(inst, dd)

\* A schedule's machines, those without jobs last.
Machines(s) == SetToSeq(s.paths) \o [k \in 1 .. inst.m - Cardinality(s.paths) |-> <<>>]

\* At the root, the mixed-integer model has every schedule better than the incumbent
\* among its solutions, at its cost: after any fixing, solving it loses nothing.
ModelAdmitsImproving ==
  cuts = {} /\ sol = None /\ lp = NoLP =>
    \A s \in targets : s.cost < UB =>
      LET x == Projected(inst, dd, Machines(s))
      IN  MipAccepts(inst, dd, x) /\ MipCost(inst, dd, x) = s.cost

\* A node is given up for its structure only when nothing better is left.
GivenUpOnlyIfNothingLeft ==
  (\E s \in targets : s.cost < UB) => StructureFeasible(inst, dd)

PathCost(s) == SequenceCost(inst.jobs, s) - FoldLeft(LAMBDA c, j : c + sol.pi[j], 0, s)

\* Labels of another diagram and other duals that a forward solver starts from.
Stale == solver \in {"simple", "cycle"} /\ \E n \in Rowmates(dd) : labels[n][1].f # Huge

\* Unless it starts from stale labels, the column priced is a path with the value
\* its label says, no path that could be a machine's schedule is better, and a
\* cyclic solver repeats no job at once.
PricedIsBest ==
  sol # None /\ ~Stale =>
    /\ sol.seq \in PathsOf(inst, dd)
    /\ sol.f = PathCost(sol.seq)
    /\ \A s \in PathsOf(inst, dd) : IsElementary(s) => sol.f <= PathCost(s)
    /\ Cyclic(solver) => \A i \in 2 .. Len(sol.seq) : sol.seq[i] # sol.seq[i - 1]

\* A column is recognised as a path exactly when it is one: columns found before
\* arcs were removed are kept or deleted by this test.
CheckIsExact ==
  \A t \in targets : \A s \in t.paths : Walk(inst, dd, s).found <=> s \in PathsOf(inst, dd)

\* "no branching found" cannot happen: a fractional solution has a candidate.
FractionalHasCandidate ==
  lp # NoLP /\ ~IsInteger(inst, dd, lp) => Candidates(inst, dd, lp) # {}

\* A solution taken for an integer one contains a schedule of at most its cost, which its
\* objective is then taken for: whole paths over its arcs that do every job, though its
\* columns may be fractional and its arcs may carry one and a half.
IntegerHasSchedule ==
  lp # NoLP /\ IsInteger(inst, dd, lp) =>
    LET flow == Flow(inst, dd, lp)
        cost(s) == SequenceCost(inst.jobs, s)
        within == {s \in PathsOf(inst, dd) \cup {<<>>} :
                     \A n \in Nodes(dd) : <<n, TRUE>> \in Walk(inst, dd, s).arcs => flow[n] >= Unit}
    IN  \E machine \in [1 .. inst.m -> within] :
          /\ DOMAIN inst.jobs = UNION {JobsOf(machine[k]) : k \in 1 .. inst.m}
          /\ Unit * SumFunction([k \in 1 .. inst.m |-> cost(machine[k])])
               <= SumFunction([s \in DOMAIN lp |-> lp[s] * cost(s)])

\* The paths of a node respect every branching decision above it.
BranchingIsRespected ==
  \A c \in cuts : \A s \in PathsOf(inst, dd) : Within(inst, s, c)

\* Each child excludes part of its parent's LP solution: branching makes progress.
BranchingCutsSolution ==
  [][cuts' # cuts => \E s \in DOMAIN lp : s \notin PathsOf(inst, dd')]_vars
================================================================================
