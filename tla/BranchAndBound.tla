----------------------------- MODULE BranchAndBound -----------------------------
(***************************************************************************)
(* The search: BranchNodeBase (branch, compute_bounds, is_terminal_state)  *)
(* driven by the tree of the branch-and-bound library, which is external.  *)
(*                                                                         *)
(* A node is known by the completion times its diagram allows each job,    *)
(* since branching takes arcs of one job away by their completion time.    *)
(* What column generation returns for a node is anything NodeBound allows: *)
(* a bound no schedule of the node better than the incumbent is below, or  *)
(* "infeasible" when there is none.                                        *)
(***************************************************************************)
EXTENDS Integers, FiniteSets, Sequences

CONSTANTS
  Job, Time,
  Schedule,         \* complete schedules: [C : Job -> Time, cost : Nat]
  InitUB,           \* opt_sol.tw of the heuristic
  Score(_, _),      \* parms.scoring_function on the gains of the two children
  MaxCand           \* NumStrBrCandidates

ASSUME TreeAssumption ==
  /\ Schedule \subseteq [C : [Job -> Time], cost : Nat]
  /\ Time \subseteq Int /\ InitUB \in Nat /\ MaxCand \in Nat \ {0}

VARIABLES
  strong,    \* parms.use_strong_branching
  pc,        \* "root", "select", "branch", "process", "done"
  ub,        \* the tree's global upper bound
  open,      \* nodes waiting in the tree
  cur,       \* the node being branched on
  cands,     \* branching candidates not yet probed
  best,      \* best_right and best_left: a pair of nodes or <<>>
  gain,      \* best_min_gain
  queue      \* children to be handed to process_state

vars == <<strong, pc, ub, open, cur, cands, best, gain, queue>>

Allowed(n) == {s \in Schedule : \A j \in Job : s.C[j] \in n.times[j]}

\* What the node still has to find, and the bounds that are sound for it.
Wanted(n) == {s \in Allowed(n) : s.cost < n.ub}
Bounds(n) == {v \in 0 .. n.ub : \A s \in Wanted(n) : v <= s.cost}

\* Branching candidates, <<job, middle time>>: the job may complete both up to and
\* after the middle time.
Splits(n) == {p \in Job \X Time : /\ \E u \in n.times[p[1]] : u <= p[2]
                                  /\ \E u \in n.times[p[1]] : u > p[2]}

\* What branch() may derive from the LP solution of a node: one candidate at most of each
\* job, of which it goes on with the best NumStrBrCandidates.
Candidates(n) == {c \in SUBSET Splits(n) : /\ Cardinality(c) \in 1 .. MaxCand
                                           /\ \A p, q \in c : p[1] = q[1] => p = q}

\* What compute_lower_bound may return for a node: it is infeasible; its LP is a
\* schedule (is_integer_solution); or its LP is fractional, and some job completes at
\* two times.
Infeasible(n) == [n EXCEPT !.status = "infeasible", !.lb = n.ub]
Integral(n, s) == [n EXCEPT !.status = "LP_bound_computed", !.lb = s.cost, !.integer = TRUE]
Fractional(n, v) == [n EXCEPT !.status = "LP_bound_computed", !.lb = v]

Bounded(n) ==
  (IF Wanted(n) = {} THEN {Infeasible(n)} ELSE {})
  \cup {Integral(n, s) : s \in {a \in Allowed(n) : Wanted(n) = {} \/ a.cost \in Bounds(n)}}
  \cup (IF Splits(n) # {} THEN {Fractional(n, v) : v \in Bounds(n)} ELSE {})

\* Mutant: the bounds are swapped.
Clone_SwappedBounds(n, j, t, left) ==
  [n EXCEPT !.status = "initialized", !.ub = n.lb, !.integer = FALSE,
            !.times[j] = {u \in @ : IF left THEN u > t ELSE u <= t}]

\* NodeData's copy constructor and split_job_time: the clone keeps what its
\* parent may do, except completing job j up to t (left) or after t.
Clone(n, j, t, left) ==
  [n EXCEPT !.status = "initialized", !.ub = n.ub, !.integer = FALSE,
            !.times[j] = {u \in @ : IF left THEN u > t ELSE u <= t}]

Fresh == [times |-> [j \in Job |-> Time], ub |-> InitUB, lb |-> 0,
          status |-> "initialized", integer |-> FALSE]

\* Mutant: a node one below the incumbent is dropped.
Process_OffByOne(n) ==
  /\ ub' = IF n.integer /\ n.lb < ub THEN n.lb ELSE ub
  /\ open' = IF n.status # "infeasible" /\ ~n.integer /\ n.lb < ub - 1
             THEN open \cup {n} ELSE open

\* process_state of a node whose bounds are known: a terminal node may improve
\* the incumbent (is_terminal_state, update_data), any other one is kept if its
\* bound leaves room for improvement.
Process(n) ==
  LET feasible == n.status # "infeasible"
      terminal == n.integer \/ ~feasible
  IN  /\ ub' = IF terminal /\ feasible /\ n.lb < ub THEN n.lb ELSE ub
      /\ open' = IF ~terminal /\ n.lb < ub THEN open \cup {n} ELSE open

Init ==
  /\ strong \in BOOLEAN
  /\ pc = "root" /\ ub = InitUB /\ open = {} /\ cur = Fresh
  /\ cands = {} /\ best = <<>> /\ gain = 0 /\ queue = <<>>

\* BranchBoundTree: the root is bounded in the constructor of BranchNodeBase.
Root ==
  /\ pc = "root" /\ pc' = "select"
  /\ \E n \in Bounded(Fresh) : Process(n)
  /\ UNCHANGED <<strong, cur, cands, best, gain, queue>>

\* explore: the library picks a node by its strategy and drops it when its bound
\* has been reached meanwhile.  branch() starts by taking over the global bound.
Select ==
  /\ pc = "select" /\ \E n \in open :
       /\ open' = open \ {n}
       /\ IF n.lb >= ub
          THEN UNCHANGED <<pc, cur, cands>>
          ELSE /\ pc' = "branch"
               /\ cur' = [n EXCEPT !.ub = IF ub < n.ub THEN ub ELSE n.ub]
               /\ cands' \in Candidates(n)
  /\ best' = <<>> /\ gain' = 0
  /\ UNCHANGED <<strong, ub, queue>>

Finish ==
  /\ pc = "select" /\ open = {} /\ pc' = "done"
  /\ UNCHANGED <<strong, ub, open, cur, cands, best, gain, queue>>

\* create_child_nodes
Children(n, j, t) == <<Clone(n, j, t, FALSE), Clone(n, j, t, TRUE)>>

\* The tree does not retain a node it has branched on, nor branch() its variables.
Forget == cur' = Fresh /\ cands' = {} /\ best' = <<>> /\ gain' = 0

\* Without strong branching the best-ranked candidate's children are bounded by
\* the tree when they are processed.
BranchDirectly ==
  /\ pc = "branch" /\ ~strong
  /\ \E c \in cands : queue' = Children(cur, c[1], c[2])
  /\ pc' = "process" /\ Forget
  /\ UNCHANGED <<strong, ub, open>>

\* A child is fathomed if its LP lies above the heuristic's value less one, so that
\* the rounded bound reaches the value itself, or if it is integral.
Fathom(n) == n.lb >= InitUB \/ n.integer

\* Mutant: the sign is kept.
Distance_Signed(a, b) == a - b

Distance(a, b) == IF a < b THEN b - a ELSE a - b

\* Mutant: of the pair kept so far the better one replaces the first node only.
Keep_Half(l, r, better) ==
  best' = IF ~better THEN best ELSE IF best = <<>> THEN <<l, r>> ELSE <<l, best[2]>>

\* best_right and best_left: a better pair replaces both.
Keep(l, r, better) == best' = IF better THEN <<l, r>> ELSE best

\* One probe of strong branching: both children are bounded; the pair is kept if
\* it scores better than the best so far or one child is fathomed.
Probe ==
  /\ pc = "branch" /\ strong /\ cands # {}
  /\ \E c \in cands :
     \E l \in Bounded(Children(cur, c[1], c[2])[1]), r \in Bounded(Children(cur, c[1], c[2])[2]) :
       LET score == Score(Distance(l.lb, cur.lb), Distance(r.lb, cur.lb))
           stop == Fathom(l) \/ Fathom(r)
           better == score > gain \/ stop
       IN  /\ Keep(l, r, better)
           /\ gain' = IF better THEN score ELSE gain
           /\ cands' = IF stop THEN {} ELSE cands \ {c}
  /\ UNCHANGED <<strong, pc, ub, open, cur, queue>>

\* The children are handed to the tree, the second one first.
Commit ==
  /\ pc = "branch" /\ strong /\ cands = {}
  /\ pc' = "process" /\ Forget
  /\ queue' = IF best = <<>> THEN <<>> ELSE <<best[2], best[1]>>
  /\ UNCHANGED <<strong, ub, open>>

ProcessChild ==
  /\ pc = "process" /\ queue # <<>>
  /\ \E n \in IF strong THEN {Head(queue)} ELSE Bounded(Head(queue)) : Process(n)
  /\ queue' = Tail(queue)
  /\ pc' = IF Len(queue) = 1 THEN "select" ELSE pc
  /\ UNCHANGED <<strong, cur, cands, best, gain>>

Done == pc = "done" /\ UNCHANGED vars

Next == Root \/ Select \/ Finish \/ BranchDirectly \/ Probe \/ Commit \/ ProcessChild \/ Done
Spec == Init /\ [][Next]_vars /\ WF_vars(Next)
--------------------------------------------------------------------------------
NodeType == [times : [Job -> SUBSET Time], ub : Nat, lb : Nat,
             status : {"initialized", "infeasible", "LP_bound_computed"},
             integer : BOOLEAN]

TypeOK ==
  /\ strong \in BOOLEAN
  /\ pc \in {"root", "select", "branch", "process", "done"}
  /\ ub \in Nat /\ gain \in Nat
  /\ open \subseteq NodeType /\ cur \in NodeType
  /\ cands \subseteq Job \X Time
  /\ best \in {<<>>} \cup (NodeType \X NodeType)
  /\ queue \in Seq(NodeType)

\* The nodes the search still has to look at.
Live == open \cup {queue[i] : i \in DOMAIN queue}
        \cup (IF pc \in {"root", "branch"} THEN {cur} ELSE {})

\* A schedule better than the incumbent is never lost: not to branching, to the
\* probes of strong branching that are thrown away, to the order in which
\* children are processed or to the stale bounds nodes carry.
ImprovementIsLive ==
  \A s \in Schedule : s.cost < ub => \E n \in Live : s \in Allowed(n)

\* The incumbent of a node is never better than the tree's: what its diagram was
\* filtered by and what it may be dropped for is still dispensable.
NodeBoundsAreStale == \A n \in Live : n.ub >= ub

\* The global bound only improves.
IncumbentImproves == [][ub' <= ub]_vars

\* The search ends, with the value of the best schedule.
FindsOptimum ==
  <>(pc = "done" /\ \A s \in Schedule : ub <= s.cost)
================================================================================
