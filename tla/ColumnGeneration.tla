--------------------------- MODULE ColumnGeneration ---------------------------
(***************************************************************************)
(* Column generation at one node of the tree: NodeData::build_rmp,         *)
(* compute_lower_bound and solve_pricing, with the Wentges stabilisation   *)
(* (PricingStabilizationStat, the default) they drive.                     *)
(*                                                                         *)
(* A column is a schedule of one machine.  The decision diagram is the set *)
(* of columns that are its paths, the column pool and the restricted       *)
(* master are sets of columns (ColumnPool keeps their positions), and the  *)
(* linear program is given by its basic solutions: solving a master over a *)
(* set of columns returns a cheapest basic solution supported by it.       *)
(* Costs are integers counted in ticks, Unit ticks to one unit of cost, so *)
(* that the tolerance of the stopping test can be told from a whole unit.  *)
(***************************************************************************)
EXTENDS Integers, FiniteSets

CONSTANTS
  Col,               \* the schedules of one machine
  Elementary,        \* those that run no job twice
  Basic,             \* basic solutions: [cols, cost, integral]
  OptSol,            \* the columns of the incumbent, opt_sol
  UB,                \* its cost, upper_bound
  Unit, EtaDiff,     \* one unit of cost, and ETA_DIFF, in ticks
  Grain,             \* Lagrangian bounds are multiples of Grain ticks
  MaxIter,           \* NB_CG_ITERATIONS
  RcRate,            \* RC_FIXING_RATE
  RcFixing,          \* parms.reduce_cost_fixing == yes_reduced_cost
  InitialPools,      \* what localColPool may hold before build_rmp
  InitialDiagrams    \* what the pricer's diagram may hold

ASSUME ColAssumption ==
  /\ Elementary \subseteq Col
  /\ OptSol \subseteq Col
  /\ InitialPools \subseteq SUBSET Col
  /\ InitialDiagrams \subseteq SUBSET Col

ASSUME NumberAssumption ==
  /\ Unit \in Nat \ {0} /\ EtaDiff \in Nat \ {0} /\ UB \in Nat
  /\ MaxIter \in Nat \ {0} /\ RcRate \in Nat \ {0} /\ Grain \in Nat \ {0}
  /\ RcFixing \in BOOLEAN

\* Schedules have integral cost.  The artificial columns of build_rmp cost
\* 100 * (opt_sol.tw + 1) each and keep every master feasible.
ASSUME BasicAssumption ==
  /\ Basic \subseteq [cols : SUBSET Col, cost : Nat, integral : BOOLEAN]
  /\ \A b \in Basic : b.integral => b.cost % Unit = 0
  /\ \E b \in Basic : b.cols = {}
  /\ \A b \in Basic : b.cols = {} => ~b.integral /\ b.cost >= UB + EtaDiff

VARIABLES
  pc, status,
  dd,          \* paths of the decision diagram
  dd0,         \* the diagram at the start, never used by the code
  pool, rmp,   \* localColPool, and the columns of the master
  lpSol,       \* the master's solution
  lowerBound,  \* lower_bound, as read by the tree
  iterations, prevFix, etaIn, etaOut, continueLP, center,
  priced       \* the column found by the last pricing: a singleton or empty

node == <<dd0, status, lowerBound>>
stab == <<iterations, prevFix, etaIn, etaOut, continueLP, center, priced>>
vars == <<pc, dd, pool, rmp, lpSol, node, stab>>

Supported(S) == {b \in Basic : b.cols \subseteq S}
Optimal(S)   == {b \in Supported(S) : \A c \in Supported(S) : b.cost <= c.cost}

\* The solutions the search still has to find.
Improving == {b \in Basic : b.integral /\ b.cost <= UB - Unit}

\* ceil() to a whole unit
RoundUp(x) == Unit * ((x + Unit - 1) \div Unit)

NodeStatus == {"initialized", "infeasible", "LP_bound_computed"}

Init ==
  /\ pc = "build" /\ status = "initialized" /\ lowerBound = 0
  /\ dd \in InitialDiagrams /\ dd0 = dd
  /\ pool \in InitialPools /\ rmp = {}
  /\ lpSol \in Optimal({})
  /\ iterations = 0 /\ prevFix = 0 /\ etaIn = 0 /\ etaOut = 0
  /\ continueLP = FALSE /\ center = FALSE /\ priced = {}

\* build_rmp and the solve_relaxation that follows it in the constructor and in
\* compute_bounds of BranchNodeBase.
Build ==
  /\ pc = "build" /\ pc' = "enter"
  /\ rmp' = pool
  /\ lpSol' \in Optimal(rmp')
  /\ UNCHANGED <<dd, pool, node, stab>>

\* Mutant: the schedules leave the pool, their columns stay in the master.
Clean_PoolOnly(p) == /\ pool' = p \cap dd'
                     /\ rmp' = rmp

\* check_schedules and delete_infeasible_schedules on the pool p: the schedules
\* that are no longer paths leave the pool, and their columns the master.
Clean(p) == /\ pool' = p \cap dd'
            /\ rmp' = rmp \ (p \ dd')

Resolve == lpSol' \in Optimal(rmp')    \* solve_relaxation

\* compute_lower_bound up to its loop.  The master exists since build_rmp, so
\* the schedules of opt_sol join the pool only.
Enter ==
  /\ pc = "enter" /\ pc' = "loop"
  /\ dd' = dd
  /\ LET p == IF pool = {} THEN OptSol ELSE pool
     IN  Clean(p) /\ IF pool' = p THEN UNCHANGED lpSol ELSE Resolve
  /\ UNCHANGED <<node, stab>>

\* Mutants: the loop stops one unit early; it goes on at equality.
HasCols_Early == etaIn <= etaOut - EtaDiff - Unit /\ etaIn <= UB - Unit
HasCols_Late == etaIn <= etaOut /\ etaIn <= UB - Unit

\* stopping_criteria and the bound test: the loop goes on
HasCols == /\ etaIn <= etaOut - EtaDiff
           /\ etaIn <= UB - Unit

InLoop == /\ iterations < MaxIter
          /\ dd # {}
          /\ iterations > 0 => HasCols

\* One turn of the loop: the master is solved and PricingStabilizationStat::solve
\* prices at a point between the stability centre and the master's duals, until
\* a column with negative reduced cost is found (Found) or the duals themselves
\* have been tried (NotFound).  etaSep is the Lagrangian bound of the last
\* point; continueLP is computed before etaIn moves.
Price(found, etaSep) ==
  /\ pc = "loop" /\ InLoop /\ pc' = "center"
  /\ UNCHANGED rmp /\ Resolve
  /\ iterations' = iterations + 1
  /\ status' = "infeasible"
  /\ etaOut' = lpSol'.cost
  /\ continueLP' = (EtaDiff < etaOut' - etaIn)
  /\ center' = (etaSep > etaIn)
  /\ etaIn' = IF center' THEN etaSep ELSE etaIn
  /\ priced' = found
  /\ UNCHANGED <<dd, dd0, pool, lowerBound, prevFix>>

\* Mutant: the bound of the master's columns instead of the diagram's.
LagrangianBounds_OfMaster ==
  {e \in UNION {0 .. b.cost : b \in Optimal(rmp)} : e % Grain = 0}

\* The Lagrangian bounds a pricing over the diagram can give.
LagrangianBounds == {e \in UNION {0 .. b.cost : b \in Optimal(dd)} : e % Grain = 0}

Found == \E s \in dd \ rmp, e \in LagrangianBounds : Price({s}, e)

\* No path prices out at the duals: the master is optimal over the diagram too.
NotFound ==
  \E e \in LagrangianBounds :
    /\ Price({}, e)
    /\ e >= lpSol'.cost
    /\ \A b \in Supported(dd \cup rmp) : lpSol'.cost <= b.cost

\* Mutants: fixing compares with UB - 2 instead of UB - 1; the diagram is built
\* anew, without the node's branching.
FixedDiagrams_OffByOne(keep) ==
  {d \in SUBSET dd : \A b \in Improving :
                       b.cols \subseteq dd /\ b.cost < UB - Unit => b.cols \subseteq d}
FixedDiagrams_Anew(keep) ==
  {d \in SUBSET Elementary : \A b \in Improving : b.cols \subseteq dd => b.cols \subseteq d}

\* Reduced-cost fixing: evaluate_nodes removes arcs whose best completion has a
\* Lagrangian bound above UB - 1, and the filters remove arcs no elementary
\* schedule uses.  Columns keep are known to survive.
FixedDiagrams(keep) ==
  {d \in SUBSET dd : /\ keep \subseteq d
                     /\ \A b \in Improving : b.cols \subseteq dd => b.cols \subseteq d}

\* reduced_cost_fixing, check_schedules, delete_infeasible_schedules,
\* solve_relaxation and update_continueLP
Fix(keep) ==
  /\ prevFix' = iterations
  /\ dd' \in FixedDiagrams(keep)
  /\ Clean(pool) /\ Resolve
  /\ etaOut' = lpSol'.cost
  /\ continueLP' = (EtaDiff < etaOut' - etaIn)
  /\ UNCHANGED <<iterations, etaIn, center, priced>>

\* do_reduced_cost_fixing.  The counters are unsigned: before RcRate iterations
\* the difference wraps around and the test holds.
DoFixing == \/ iterations = 1
            \/ ~continueLP
            \/ iterations < RcRate
            \/ prevFix <= iterations - RcRate

\* solve_pricing, first half: fixing when the stability centre has moved.  The
\* priced path is a cheapest one at the point where fixing is done, so fixing
\* keeps its arcs as long as the bound is below the incumbent; the filters can
\* only take it if it runs a job twice.
FixAtCenter ==
  /\ pc = "center" /\ pc' = "column"
  /\ center /\ DoFixing /\ RcFixing
  /\ Fix(IF etaIn <= UB - Unit THEN priced \cap Elementary ELSE {})
  /\ UNCHANGED node

NoFixAtCenter ==
  /\ pc = "center" /\ pc' = "column"
  /\ ~(center /\ DoFixing /\ RcFixing)
  /\ UNCHANGED <<dd, pool, rmp, lpSol, node, stab>>

\* solve_pricing, second half
AddsColumn == priced # {} /\ continueLP /\ etaIn <= UB - Unit

AddColumn ==
  /\ pc = "column" /\ pc' = "loop"
  /\ AddsColumn
  /\ pool' = pool \cup priced
  /\ rmp' = rmp \cup priced
  /\ UNCHANGED <<dd, lpSol, node, stab>>

FixAndClean ==
  /\ pc = "column" /\ pc' = "loop"
  /\ ~AddsColumn
  /\ Fix({})
  /\ UNCHANGED node

\* The end of compute_lower_bound.  If the loop was never entered status_RMP is
\* still GRB_LOADED and neither branch of the switch is taken.
Finish ==
  /\ pc = "loop" /\ ~InLoop /\ pc' = "done"
  /\ IF iterations = 0
     THEN UNCHANGED <<lpSol, status>> /\ lowerBound' = RoundUp(lpSol.cost)
     ELSE /\ UNCHANGED rmp /\ Resolve
          /\ IF pool # {} /\ dd # {}
             THEN status' = "LP_bound_computed" /\ lowerBound' = RoundUp(lpSol'.cost)
             ELSE status' = "infeasible" /\ lowerBound' = UB
  /\ UNCHANGED <<dd, dd0, pool, rmp, stab>>

Done == pc = "done" /\ UNCHANGED vars

Next == Build \/ Enter \/ Found \/ NotFound \/ FixAtCenter \/ NoFixAtCenter
        \/ AddColumn \/ FixAndClean \/ Finish \/ Done

Spec == Init /\ [][Next]_vars

\* compute_lower_bound runs alone and does not block.
FairSpec == Spec /\ WF_vars(Next)
------------------------------------------------------------------------------
TypeOK ==
  /\ pc \in {"build", "enter", "loop", "center", "column", "done"}
  /\ status \in NodeStatus
  /\ dd0 \subseteq Col /\ dd \subseteq dd0
  /\ pool \subseteq Col /\ rmp \subseteq Col
  /\ lpSol \in Basic
  /\ lowerBound \in Nat /\ iterations \in Nat /\ prevFix \in Nat
  /\ etaIn \in Nat /\ etaOut \in Nat
  /\ continueLP \in BOOLEAN /\ center \in BOOLEAN
  /\ priced \subseteq Col

\* The columns of the master are the schedules of the pool.  grow_ages,
\* delete_infeasible_schedules and check_schedules assert the counts equal: they
\* address one by positions in the other.
MasterMatchesPool == pc # "build" => rmp = pool

\* The solutions of this node still to be found.
Wanted == {b \in Improving : b.cols \subseteq dd0}

\* A node may be pruned as infeasible only if it holds nothing better than the
\* incumbent: is_terminal_state drops it without looking again.
InfeasibleIsSound == pc = "done" /\ status = "infeasible" /\ iterations < MaxIter => Wanted = {}

\* What the node reports is within the stopping tolerance of a bound on every
\* schedule better than the incumbent, whatever was fixed, filtered or deleted.
ObjectiveIsBound ==
  pc = "done" /\ status = "LP_bound_computed" /\ iterations < MaxIter
    => \A b \in Wanted : lpSol.cost < b.cost + EtaDiff

\* No iteration limit is needed: the stopping tests end the loop.
ConvergesBeforeLimit == iterations < MaxIter

\* The node keeps the promise of NodeBound.
Bound == INSTANCE NodeBound WITH
  wanted  <- {b.cost : b \in Wanted},
  bound   <- etaIn,
  verdict <- IF pc # "done" \/ status = "initialized" THEN "open"
             ELSE IF iterations >= MaxIter THEN "capped" ELSE status,
  value   <- IF pc = "done" /\ status = "LP_bound_computed" THEN lpSol.cost ELSE 0

ImplementsNodeBound == Bound!Spec
==============================================================================
