------------------------ MODULE ColumnGenerationProofs ------------------------
(***************************************************************************)
(* ColumnGeneration for every set of columns, every linear program and     *)
(* every tolerance: the master and the pool stay aligned, the dual bound   *)
(* holds for every schedule still wanted, and the verdict of the node is   *)
(* the one NodeBound promises.                                             *)
(***************************************************************************)
EXTENDS ColumnGeneration, FiniteSums

\* The bound found so far is a bound on every schedule the node still has to
\* find, and none of those has lost a column.
BoundInv == \A b \in Wanted : b.cols \subseteq dd /\ etaIn <= b.cost

\* The master's solution is a solution over the master's columns, and eta_out
\* is its cost once the loop has started.
MasterInv == /\ lpSol.cols \subseteq rmp
             /\ rmp \subseteq pool \/ pc = "build"
             /\ iterations > 0 /\ pc # "done" => lpSol.cost = etaOut
             /\ pc \in {"build", "enter"} => iterations = 0
             /\ pc \in {"center", "column"} => iterations > 0
             /\ pc = "build" => rmp = {}

\* What the verdict means, and that it is not there too early.
VerdictInv == /\ pc # "done" => status # "LP_bound_computed"
              /\ iterations = 0 => status = "initialized"
              /\ iterations > 0 => status # "initialized"
              /\ InfeasibleIsSound
              /\ ObjectiveIsBound

IInv == TypeOK /\ BoundInv /\ MasterInv /\ VerdictInv

USE DEF node, stab, vars

\* A basic solution is a record of the declared type.
LEMMA BasicType == ASSUME NEW b \in Basic
                   PROVE  b.cols \subseteq Col /\ b.cost \in Nat /\ b.integral \in BOOLEAN
BY BasicAssumption

\* A Lagrangian bound of the diagram is a bound on every basic solution it
\* supports.
LEMMA LagrangianBound == ASSUME NEW e \in LagrangianBounds,
                                NEW b \in Basic, b.cols \subseteq dd
                         PROVE  e \in Nat /\ e <= b.cost
<1>1. PICK c \in Optimal(dd) : e \in 0 .. c.cost
  BY DEF LagrangianBounds
<1>2. c \in Basic /\ c.cost <= b.cost
  BY DEF Optimal, Supported
<1> QED BY <1>1, <1>2, BasicType

\* An empty diagram holds no schedule worth looking for.
LEMMA NothingInEmptyDiagram == ASSUME BoundInv, dd = {} PROVE Wanted = {}
<1> SUFFICES ASSUME NEW b \in Wanted PROVE FALSE
  OBVIOUS
<1>1. b \in Basic /\ b.integral /\ b.cols = {}
  BY DEF BoundInv, Wanted, Improving
<1> QED BY <1>1, BasicAssumption

\* Once the bound reaches the incumbent nothing is wanted.
LEMMA NothingAboveUB == ASSUME BoundInv, etaIn \in Nat, ~(etaIn <= UB - Unit)
                        PROVE  Wanted = {}
<1> SUFFICES ASSUME NEW b \in Wanted PROVE FALSE
  OBVIOUS
<1>1. b.cost \in Nat /\ b.cost <= UB - Unit /\ etaIn <= b.cost
  BY BasicType DEF BoundInv, Wanted, Improving
<1> QED BY <1>1, NumberAssumption

LEMMA InitInv == Init => IInv
<1> SUFFICES ASSUME Init PROVE IInv
  OBVIOUS
<1>1. lpSol \in Basic /\ lpSol.cols = {}
  BY DEF Init, Optimal, Supported
<1>2. TypeOK
  BY <1>1, ColAssumption DEF TypeOK, Init, NodeStatus
<1>3. BoundInv
  <2> SUFFICES ASSUME NEW b \in Wanted PROVE b.cols \subseteq dd /\ etaIn <= b.cost
    BY DEF BoundInv
  <2> QED BY BasicType DEF Init, Wanted, Improving
<1>4. MasterInv
  BY <1>1 DEF Init, MasterInv
<1>5. VerdictInv
  BY DEF Init, VerdictInv, InfeasibleIsSound, ObjectiveIsBound
<1> QED BY <1>2, <1>3, <1>4, <1>5 DEF IInv

\* A step that only fixes, cleans and solves again keeps what is wanted.
LEMMA FixInv ==
  ASSUME IInv, NEW keep, Fix(keep), UNCHANGED node, pc = "center" \/ pc = "column",
         pc' = "column" \/ pc' = "loop"
  PROVE  IInv'
<1>1. lpSol' \in Basic /\ lpSol'.cols \subseteq rmp' /\ lpSol'.cost \in Nat
  BY BasicType DEF Fix, Resolve, Optimal, Supported
<1>2. dd' \subseteq dd /\ pool' = pool \cap dd' /\ rmp' = rmp \ (pool \ dd')
  BY DEF Fix, Clean, FixedDiagrams
<1>3. Wanted' = Wanted
  BY DEF Wanted
<1>4. TypeOK'
  BY <1>1, <1>2 DEF IInv, TypeOK, Fix
<1>5. BoundInv'
  <2> SUFFICES ASSUME NEW b \in Wanted PROVE b.cols \subseteq dd' /\ etaIn' <= b.cost
    BY <1>3 DEF BoundInv
  <2>1. b \in Improving /\ b.cols \subseteq dd /\ etaIn <= b.cost
    BY DEF IInv, BoundInv, Wanted
  <2> QED BY <2>1 DEF Fix, FixedDiagrams
<1>6. MasterInv'
  BY <1>1, <1>2 DEF IInv, MasterInv, Fix, TypeOK
<1>7. VerdictInv'
  BY DEF IInv, VerdictInv, InfeasibleIsSound, ObjectiveIsBound, Fix
<1> QED BY <1>4, <1>5, <1>6, <1>7 DEF IInv

\* A turn of the loop raises the bound no further than the diagram allows.
LEMMA PriceInv ==
  ASSUME IInv, NEW found \in SUBSET Col, NEW e \in LagrangianBounds, Price(found, e)
  PROVE  IInv'
<1>1. lpSol' \in Basic /\ lpSol'.cols \subseteq rmp' /\ lpSol'.cost \in Nat
  BY BasicType DEF Price, Resolve, Optimal, Supported
<1>2. Wanted' = Wanted
  BY DEF Wanted, Price
<1>3. e \in Nat
  <2>1. PICK b \in Optimal(dd) : e \in 0 .. b.cost
    BY DEF LagrangianBounds
  <2> QED BY <2>1, BasicType DEF Optimal, Supported
<1>4. TypeOK'
  BY <1>1, <1>3 DEF IInv, TypeOK, Price, NodeStatus
<1>5. BoundInv'
  <2> SUFFICES ASSUME NEW b \in Wanted PROVE b.cols \subseteq dd' /\ etaIn' <= b.cost
    BY <1>2 DEF BoundInv
  <2>1. b \in Basic /\ b.cols \subseteq dd /\ etaIn <= b.cost
    BY DEF IInv, BoundInv, Wanted, Improving
  <2>2. e <= b.cost
    BY <2>1, LagrangianBound
  <2> QED BY <2>1, <2>2 DEF Price
<1>6. MasterInv'
  BY <1>1 DEF IInv, MasterInv, Price, TypeOK
<1>7. VerdictInv'
  BY DEF IInv, VerdictInv, InfeasibleIsSound, ObjectiveIsBound, Price, TypeOK
<1> QED BY <1>4, <1>5, <1>6, <1>7 DEF IInv

\* The verdict is given on a bound: the loop stopped because the diagram is
\* empty, because the bound reached the incumbent, or because the master's
\* objective came within the tolerance of the bound.
LEMMA FinishInv == ASSUME IInv, Finish PROVE IInv'
<1>1. Wanted' = Wanted /\ BoundInv'
  BY DEF IInv, BoundInv, Wanted, Finish, Improving
<1>2. CASE iterations = 0
  <2>1. TypeOK'
    <3>1. lowerBound' \in Nat
      BY <1>2, BasicType, NumberAssumption DEF IInv, TypeOK, Finish, RoundUp
    <3> QED BY <1>2, <3>1 DEF IInv, TypeOK, Finish
  <2>2. MasterInv'
    BY <1>2 DEF IInv, MasterInv, Finish, TypeOK
  <2>3. VerdictInv'
    BY <1>2 DEF IInv, VerdictInv, InfeasibleIsSound, ObjectiveIsBound, Finish
  <2> QED BY <1>1, <2>1, <2>2, <2>3 DEF IInv
<1>3. CASE iterations # 0
  <2>1. /\ lpSol' \in Basic /\ lpSol'.cols \subseteq rmp /\ lpSol'.cost \in Nat
        /\ rmp' = rmp /\ pool' = pool /\ etaIn' = etaIn
    BY <1>3, BasicType DEF Finish, Resolve, Optimal, Supported
  <2>2. lpSol'.cost <= etaOut
    <3>1. lpSol \in Supported(rmp) /\ lpSol.cost = etaOut
      BY <1>3 DEF IInv, MasterInv, Finish, TypeOK, Supported
    <3> QED BY <1>3, <2>1, <3>1 DEF Finish, Resolve, Optimal
  <2>3. ASSUME iterations < MaxIter, NEW b \in Wanted
        PROVE  lpSol'.cost < b.cost + EtaDiff /\ b.cost <= UB - Unit
    <3>1. b.cost \in Nat /\ b.cost <= UB - Unit /\ etaIn <= b.cost
      BY BasicType DEF IInv, BoundInv, Wanted, Improving
    <3>2. dd # {} /\ etaIn <= UB - Unit
      BY <2>3, NothingInEmptyDiagram, NothingAboveUB DEF IInv, TypeOK
    <3>3. ~(etaIn <= etaOut - EtaDiff)
      BY <1>3, <2>3, <3>2 DEF Finish, InLoop, HasCols
    <3> QED BY <2>1, <2>2, <3>1, <3>3, NumberAssumption DEF IInv, TypeOK
  <2>4. TypeOK'
    <3>1. lowerBound' \in Nat
      BY <1>3, <2>1, NumberAssumption DEF IInv, TypeOK, Finish, RoundUp
    <3> QED BY <1>3, <2>1, <3>1 DEF IInv, TypeOK, Finish, NodeStatus
  <2>5. MasterInv'
    BY <1>3, <2>1 DEF IInv, MasterInv, Finish, TypeOK
  <2>6. InfeasibleIsSound'
    <3> SUFFICES ASSUME status' = "infeasible", iterations < MaxIter, NEW b \in Wanted
                 PROVE  FALSE
      BY <1>1 DEF InfeasibleIsSound, Finish
    <3>1. dd # {}
      BY NothingInEmptyDiagram DEF IInv
    <3>2. pool = {} /\ lpSol'.cols = {}
      BY <1>3, <2>1, <3>1 DEF Finish, IInv, MasterInv
    <3>3. lpSol'.cost >= UB + EtaDiff
      BY <2>1, <3>2, BasicAssumption
    <3>4. lpSol'.cost < b.cost + EtaDiff /\ b.cost <= UB - Unit /\ b.cost \in Nat
      BY <2>3, BasicType DEF Wanted, Improving
    <3> QED BY <2>1, <3>3, <3>4, NumberAssumption
  <2>7. ObjectiveIsBound'
    BY <1>1, <2>3 DEF ObjectiveIsBound, Finish
  <2>8. VerdictInv'
    BY <1>3, <2>6, <2>7 DEF IInv, VerdictInv, Finish, TypeOK
  <2> QED BY <1>1, <2>4, <2>5, <2>8 DEF IInv
<1> QED BY <1>2, <1>3

LEMMA NextInv == IInv /\ [Next]_vars => IInv'
<1> SUFFICES ASSUME IInv, [Next]_vars PROVE IInv'
  OBVIOUS
<1>1. CASE Build
  <2>1. lpSol' \in Basic /\ lpSol'.cols \subseteq rmp'
    BY <1>1 DEF Build, Optimal, Supported
  <2>2. Wanted' = Wanted
    BY <1>1 DEF Build, Wanted
  <2>3. TypeOK' /\ BoundInv'
    BY <1>1, <2>1, <2>2 DEF Build, IInv, TypeOK, BoundInv
  <2>4. MasterInv' /\ VerdictInv'
    BY <1>1, <2>1 DEF Build, IInv, MasterInv, VerdictInv, InfeasibleIsSound, ObjectiveIsBound, TypeOK
  <2> QED BY <2>3, <2>4 DEF IInv
<1>2. CASE Enter
  <2> DEFINE p == IF pool = {} THEN OptSol ELSE pool
  <2>1. pool' = p \cap dd /\ rmp' = rmp \ (p \ dd) /\ rmp \subseteq p /\ p \subseteq Col
    BY <1>2, ColAssumption DEF Enter, Clean, IInv, MasterInv, TypeOK
  <2>2. lpSol' \in Basic /\ lpSol'.cols \subseteq rmp'
    <3>1. CASE pool' = p
      BY <1>2, <2>1, <3>1 DEF Enter, IInv, MasterInv, TypeOK
    <3>2. CASE pool' # p
      BY <1>2, <3>2 DEF Enter, Resolve, Optimal, Supported
    <3> QED BY <3>1, <3>2
  <2>3. Wanted' = Wanted
    BY <1>2 DEF Enter, Wanted
  <2>4. TypeOK' /\ BoundInv'
    BY <1>2, <2>1, <2>2, <2>3 DEF Enter, IInv, TypeOK, BoundInv
  <2>5. MasterInv' /\ VerdictInv'
    BY <1>2, <2>1, <2>2 DEF Enter, IInv, MasterInv, VerdictInv, InfeasibleIsSound, ObjectiveIsBound, TypeOK
  <2> QED BY <2>4, <2>5 DEF IInv
<1>3. CASE Found
  <2>1. PICK s \in dd \ rmp, e \in LagrangianBounds : Price({s}, e)
    BY <1>3 DEF Found
  <2>2. {s} \in SUBSET Col
    BY <2>1 DEF IInv, TypeOK
  <2> QED BY <2>1, <2>2, PriceInv
<1>4. CASE NotFound
  BY <1>4, PriceInv DEF NotFound
<1>5. CASE FixAtCenter
  BY <1>5, FixInv DEF FixAtCenter
<1>6. CASE NoFixAtCenter
  BY <1>6 DEF NoFixAtCenter, IInv, TypeOK, BoundInv, MasterInv, VerdictInv,
              InfeasibleIsSound, ObjectiveIsBound, Wanted
<1>7. CASE AddColumn
  <2>1. TypeOK' /\ BoundInv'
    BY <1>7 DEF AddColumn, IInv, TypeOK, BoundInv, Wanted
  <2>2. MasterInv' /\ VerdictInv'
    BY <1>7 DEF AddColumn, IInv, MasterInv, VerdictInv, InfeasibleIsSound, ObjectiveIsBound
  <2> QED BY <2>1, <2>2 DEF IInv
<1>8. CASE FixAndClean
  BY <1>8, FixInv DEF FixAndClean
<1>9. CASE Finish
  BY <1>9, FinishInv
<1>10. CASE UNCHANGED vars
  BY <1>10 DEF IInv, TypeOK, BoundInv, MasterInv, VerdictInv, InfeasibleIsSound,
               ObjectiveIsBound, Wanted
<1> QED BY <1>1, <1>2, <1>3, <1>4, <1>5, <1>6, <1>7, <1>8, <1>9, <1>10 DEF Next, Done

\* What each step of the loop keeps, on which the theorems below rest.
THEOREM Invariance == Spec => []IInv
BY InitInv, NextInv, PTL DEF Spec

\* Every variable keeps its type.
THEOREM TypeCorrect == Spec => []TypeOK
<1>1. IInv => TypeOK
  BY DEF IInv
<1> QED BY Invariance, <1>1, PTL

\* compute_lower_bound prunes a node only when no schedule better than the
\* incumbent is left in it.
THEOREM InfeasibleSound == Spec => []InfeasibleIsSound
<1>1. IInv => InfeasibleIsSound
  BY DEF IInv, VerdictInv
<1> QED BY Invariance, <1>1, PTL

\* The objective it reports is within ETA_DIFF of a bound on all of them.
THEOREM ObjectiveBound == Spec => []ObjectiveIsBound
<1>1. IInv => ObjectiveIsBound
  BY DEF IInv, VerdictInv
<1> QED BY Invariance, <1>1, PTL

\* The pool is not empty before the loop, and has its columns in the master.
AlignedInv == /\ MasterMatchesPool
              /\ pc \in {"build", "enter"} => pool # {}

\* The assertion nb_cols - id_pseudo_schedules == localColPool.size() of
\* grow_ages, check_schedules and delete_infeasible_schedules holds whenever a
\* heuristic filled the pool before the master was built.
THEOREM MasterAligned == ASSUME {} \notin InitialPools
                         PROVE  Spec => []MasterMatchesPool
<1>1. Init => AlignedInv
  BY DEF Init, AlignedInv, MasterMatchesPool
<1>2. AlignedInv /\ [Next]_vars => AlignedInv'
  <2> SUFFICES ASSUME AlignedInv, [Next]_vars PROVE AlignedInv'
    OBVIOUS
  <2> USE DEF AlignedInv, MasterMatchesPool
  <2>1. CASE Build
    BY <2>1 DEF Build
  <2>2. CASE Enter
    BY <2>2 DEF Enter, Clean
  <2>3. ASSUME NEW found, NEW e, Price(found, e) PROVE AlignedInv'
    BY <2>3 DEF Price
  <2>4. ASSUME NEW keep, Fix(keep), pc = "center" \/ pc = "column",
               pc' = "column" \/ pc' = "loop"
        PROVE  AlignedInv'
    BY <2>4 DEF Fix, Clean
  <2>5. CASE NoFixAtCenter \/ AddColumn \/ Finish \/ UNCHANGED vars
    BY <2>5 DEF NoFixAtCenter, AddColumn, Finish
  <2> QED BY <2>1, <2>2, <2>3, <2>4, <2>5
       DEF Next, Done, Found, NotFound, FixAtCenter, FixAndClean
<1>3. AlignedInv => MasterMatchesPool
  BY DEF AlignedInv
<1> QED BY <1>1, <1>2, <1>3, PTL DEF Spec

\* Column generation keeps the promise of NodeBound: every step raises a valid
\* dual bound, gives a verdict that is right, or changes nothing the tree sees.
THEOREM Refinement == Spec => ImplementsNodeBound
<1> USE DEF Bound!vars
<1>1. Init => Bound!Init
  <2> SUFFICES ASSUME Init PROVE Bound!Init
    OBVIOUS
  <2>1. \A b \in Wanted : b.cost \in Nat
    BY BasicType DEF Wanted, Improving
  <2> QED BY <2>1 DEF Init, Bound!Init
<1>2. IInv /\ IInv' /\ [Next]_vars => [Bound!Next]_(Bound!vars)
  <2> SUFFICES ASSUME IInv, IInv', [Next]_vars PROVE [Bound!Next]_(Bound!vars)
    OBVIOUS
  <2> USE DEF Wanted
  <2>1. CASE Build \/ Enter \/ FixAtCenter \/ NoFixAtCenter \/ AddColumn \/ FixAndClean
    BY <2>1 DEF Build, Enter, FixAtCenter, NoFixAtCenter, AddColumn, FixAndClean, Fix
  <2>2. CASE Found \/ NotFound
    <3>1. PICK found \in SUBSET Col, e \in LagrangianBounds : Price(found, e)
      BY <2>2 DEF Found, NotFound, IInv, TypeOK
    <3>2. \A b \in Wanted : etaIn' <= b.cost
      BY <3>1 DEF IInv, BoundInv, Price
    <3>3. e \in Nat /\ etaIn \in Nat
      <4>1. PICK b \in Optimal(dd) : e \in 0 .. b.cost
        BY DEF LagrangianBounds
      <4> QED BY <4>1, BasicType DEF Optimal, Supported, IInv, TypeOK
    <3>4. etaIn' >= etaIn /\ Wanted' = Wanted /\ pc # "done" /\ pc' # "done"
      <4>1. etaIn' = IF e > etaIn THEN e ELSE etaIn
        BY <3>1, Zenon DEF Price
      <4>2. dd0' = dd0 /\ pc # "done" /\ pc' # "done"
        BY <3>1 DEF Price
      <4> QED BY <3>3, <4>1, <4>2
    <3> QED BY <3>2, <3>4 DEF Bound!Next, Bound!Raise
  <2>3. CASE Finish
    <3>1. /\ pc = "loop" /\ pc' = "done" /\ dd0' = dd0 /\ etaIn' = etaIn
          /\ iterations' = iterations /\ iterations \in Nat
      BY <2>3 DEF Finish, IInv, TypeOK
    <3>2. CASE status' = "initialized"
      BY <3>1, <3>2
    <3>3. CASE status' # "initialized" /\ iterations >= MaxIter
      BY <3>1, <3>3 DEF Bound!Next, Bound!GiveUp
    <3>4. CASE status' = "LP_bound_computed" /\ ~(iterations >= MaxIter)
      <4>1. \A b \in Wanted : lpSol'.cost < b.cost + EtaDiff
        BY <3>1, <3>4, NumberAssumption DEF IInv, VerdictInv, ObjectiveIsBound
      <4> QED BY <3>1, <3>4, <4>1 DEF Bound!Next, Bound!Compute
    <3>5. CASE status' = "infeasible" /\ ~(iterations >= MaxIter)
      <4>1. Wanted = {}
        BY <3>1, <3>5, NumberAssumption DEF IInv, VerdictInv, InfeasibleIsSound
      <4> QED BY <3>1, <3>5, <4>1 DEF Bound!Next, Bound!Prune
    <3> QED BY <3>2, <3>3, <3>4, <3>5 DEF IInv, TypeOK, NodeStatus
  <2>4. CASE UNCHANGED vars
    BY <2>4
  <2> QED BY <2>1, <2>2, <2>3, <2>4 DEF Next, Done
<1> QED BY <1>1, <1>2, Invariance, PTL DEF Spec, ImplementsNodeBound, Bound!Spec
------------------------------------------------------------------------------
(* The loop ends if there are finitely many columns and a master's objective *)
(* is never exactly ETA_DIFF above a bound: has_cols goes on at equality,    *)
(* where continueLP adds no column.  Every turn but the last then does some  *)
(* of the work that is left: a path leaves the diagram or joins the master.  *)

Work == WorkOf(Col, dd, rmp)

Limit == WorkLimit(Col)

NoCoincidence == \A b \in Basic, e \in Nat : e % Grain = 0 => b.cost - e # EtaDiff

\* What a turn leaves to solve_pricing: a path to add, or the end of the loop.
PricedInv == /\ priced \subseteq dd \ rmp
             /\ priced = {} => ~(etaIn <= etaOut - EtaDiff)
             /\ ~continueLP => ~(etaIn <= etaOut - EtaDiff)

PricedWork ==
  \/ iterations + Work <= Limit - 1
  \/ iterations + Work <= Limit /\ priced \subseteq dd
  \/ iterations + Work <= Limit + 1 /\ PricedInv

WorkInv ==
  /\ pc = "loop" => \/ iterations + Work <= Limit
                    \/ iterations + Work <= Limit + 1 /\ iterations > 0 /\ ~HasCols
  /\ pc \in {"center", "column"} => PricedWork
  /\ pc = "done" => iterations <= Limit + 1

LoopInv == /\ etaIn % Grain = 0
           /\ priced = {} \/ \E s \in Col : priced = {s}

TerminationInv == IInv /\ LoopInv /\ WorkInv

\* The work left, over the columns there are.
LEMMA WorkLeft ==
  ASSUME IsFiniteSet(Col), NEW D \in SUBSET Col, NEW R \in SUBSET Col
  PROVE  /\ WorkOf(Col, D, R) \in Nat /\ WorkOf(Col, D, R) <= Limit - 1
         /\ Limit \in Nat /\ Cardinality(Col) \in Nat
BY WorkType DEF Limit

\* The two tests of the loop, where the bound has risen to l and the master is at u.
LEMMA Tests ==
  ASSUME NEW l \in Int, NEW u \in Int, NEW k \in Int, NEW m \in Int
  PROVE  /\ l >= u => ~(l <= u - EtaDiff)
         /\ ~(EtaDiff < u - k) /\ u - k # EtaDiff /\ l >= k => ~(l <= u - EtaDiff)
         /\ ~(EtaDiff < u - l) /\ u - l # EtaDiff => ~(l <= u - EtaDiff)
         /\ ~(l <= u - EtaDiff) /\ m <= u => ~(l <= m - EtaDiff)
BY NumberAssumption

\* Pricing leaves diagram and master alone; its column is new, or the bound is there.
LEMMA PriceTermination ==
  ASSUME IsFiniteSet(Col), NoCoincidence, TerminationInv, IInv',
         NEW found, NEW e \in LagrangianBounds, Price(found, e),
         \/ found = {} /\ e >= lpSol'.cost
         \/ \E s \in dd \ rmp : found = {s}
  PROVE  LoopInv' /\ WorkInv'
<1> USE DEF TerminationInv
<1>1. /\ pc = "loop" /\ InLoop /\ pc' = "center" /\ rmp' = rmp /\ dd' = dd
      /\ iterations' = iterations + 1 /\ etaOut' = lpSol'.cost
      /\ continueLP' = (EtaDiff < etaOut' - etaIn) /\ priced' = found
      /\ etaIn' = IF center' THEN e ELSE etaIn
      /\ center' = (e > etaIn)
  BY DEF Price
<1>2. /\ etaIn \in Nat /\ etaIn' \in Nat /\ etaOut' \in Nat /\ iterations \in Nat
      /\ lpSol' \in Basic /\ dd \in SUBSET Col /\ rmp \in SUBSET Col /\ e % Grain = 0
  BY DEF IInv, TypeOK, LagrangianBounds
<1>3. e \in Nat
  <2>1. PICK b \in Optimal(dd) : e \in 0 .. b.cost
    BY DEF LagrangianBounds
  <2> QED BY <2>1, BasicType DEF Optimal, Supported
<1>4. etaIn' >= e /\ etaIn' >= etaIn /\ etaIn' % Grain = 0
  <2>1. center' <=> e > etaIn
    BY <1>1
  <2>2. CASE e > etaIn
    BY <1>1, <1>2, <1>3, <2>1, <2>2
  <2>3. CASE ~(e > etaIn)
    BY <1>1, <1>2, <1>3, <2>1, <2>3 DEF LoopInv
  <2> QED BY <2>2, <2>3
<1>5. LoopInv'
  BY <1>1, <1>2, <1>4 DEF LoopInv
<1>6. PricedInv'
  <2>1. priced' \subseteq dd' \ rmp'
    BY <1>1
  <2>2. priced' = {} => ~(etaIn' <= etaOut' - EtaDiff)
    <3> SUFFICES ASSUME priced' = {} PROVE ~(etaIn' <= etaOut' - EtaDiff)
      OBVIOUS
    <3>1. e >= etaOut'
      BY <1>1
    <3>2. etaIn' >= etaOut' /\ etaIn' \in Int /\ etaOut' \in Int
      BY <1>2, <1>3, <1>4, <3>1
    <3> QED BY <3>2, Tests
  <2>3. ~continueLP' => ~(etaIn' <= etaOut' - EtaDiff)
    <3> SUFFICES ASSUME ~continueLP' PROVE ~(etaIn' <= etaOut' - EtaDiff)
      OBVIOUS
    <3>1. ~(EtaDiff < etaOut' - etaIn)
      BY <1>1, Zenon
    <3>2. etaOut' - etaIn # EtaDiff
      BY <1>1, <1>2 DEF NoCoincidence, LoopInv
    <3>3. etaIn \in Int /\ etaIn' \in Int /\ etaOut' \in Int
      BY <1>2
    <3> QED BY <1>4, <3>1, <3>2, <3>3, Tests
  <2> QED BY <2>1, <2>2, <2>3 DEF PricedInv
<1>7. iterations + Work <= Limit
  BY <1>1, NumberAssumption DEF WorkInv, InLoop
<1>8. iterations' + Work' <= Limit' + 1
  <2>1. Work' = Work /\ Limit' = Limit
    BY <1>1 DEF Work, Limit
  <2>2. Work \in Nat /\ Limit \in Nat
    BY <1>2, WorkLeft DEF Work
  <2>3. iterations + 1 + Work <= Limit + 1
    BY <1>2, <1>7, <2>2
  <2> QED BY <1>1, <2>1, <2>3
<1> QED BY <1>1, <1>5, <1>6, <1>8 DEF WorkInv, PricedWork

\* Fixing and cleaning: either work is done, or the master is what it was, no dearer.
LEMMA FixWork ==
  ASSUME IsFiniteSet(Col), IInv, IInv', NEW keep, Fix(keep), pc \in {"center", "column"}
  PROVE  /\ Work \in Int /\ Work' \in Int
         /\ \/ Work' <= Work - 2
            \/ Work' = Work - 1 /\ dd' = dd
            \/ Work' = Work /\ dd' = dd /\ rmp' = rmp /\ etaOut' <= etaOut
<1>1. /\ dd \in SUBSET Col /\ rmp \in SUBSET Col /\ dd' \in SUBSET dd /\ rmp' = rmp \cap dd'
      /\ dd' \in SUBSET Col /\ rmp' \in SUBSET Col
      /\ lpSol' \in Optimal(rmp') /\ etaOut' = lpSol'.cost
  BY DEF IInv, TypeOK, MasterInv, Fix, FixedDiagrams, Clean, Resolve
<1>2. Work \in Int /\ Work' \in Int
  <2>1. WorkOf(Col, dd, rmp) \in Nat
    BY <1>1, WorkLeft
  <2>2. WorkOf(Col, dd', rmp') \in Nat
    BY <1>1, WorkLeft
  <2> QED BY <2>1, <2>2 DEF Work
<1>3. CASE dd' # dd
  BY <1>1, <1>2, <1>3, WorkFallsWithDiagram DEF Work
<1>4. CASE dd' = dd /\ ~(rmp \subseteq dd)
  BY <1>1, <1>2, <1>4, WorkOfCleaned DEF Work
<1>5. CASE dd' = dd /\ rmp \subseteq dd
  <2>1. rmp' = rmp /\ Work' = Work
    BY <1>1, <1>5 DEF Work
  <2>2. lpSol \in Supported(rmp') /\ lpSol.cost = etaOut
    BY <2>1 DEF IInv, TypeOK, MasterInv, Supported
  <2>3. etaOut' <= etaOut
    BY <1>1, <2>2 DEF Optimal
  <2> QED BY <1>2, <1>5, <2>1, <2>3
<1> QED BY <1>2, <1>3, <1>4, <1>5

\* How the budget of work is kept.
LEMMA Budgets ==
  ASSUME NEW i \in Int, NEW w \in Int, NEW v \in Int, NEW l \in Int
  PROVE  /\ i + w <= l - 1 /\ v <= w => i + v <= l - 1
         /\ i + w <= l - 1 /\ v <= w => i + v <= l
         /\ i + w <= l - 1 /\ v <= w + 1 => i + v <= l
         /\ i + w <= l /\ v <= w => i + v <= l
         /\ i + w <= l /\ v <= w - 2 => i + v <= l - 1
         /\ i + w <= l + 1 /\ v <= w => i + v <= l + 1
         /\ i + w <= l + 1 /\ v <= w - 1 => i + v <= l
         /\ i + w <= l + 1 /\ v <= w - 2 => i + v <= l - 1
OBVIOUS

LEMMA FixTermination ==
  ASSUME IsFiniteSet(Col), NoCoincidence, TerminationInv, IInv', NEW keep, Fix(keep),
         \/ pc = "center" /\ pc' = "column"
         \/ pc = "column" /\ pc' = "loop" /\ ~AddsColumn
  PROVE  LoopInv' /\ WorkInv'
<1> USE DEF TerminationInv
<1>1. /\ iterations' = iterations /\ priced' = priced /\ etaIn' = etaIn
      /\ dd' \subseteq dd /\ rmp' = rmp \cap dd'
      /\ iterations \in Int /\ iterations > 0
      /\ etaIn \in Int /\ etaOut \in Int /\ etaOut' \in Int
      /\ lpSol' \in Basic /\ etaOut' = lpSol'.cost /\ etaIn \in Nat
  BY DEF Fix, FixedDiagrams, Clean, IInv, TypeOK, MasterInv
<1>2. LoopInv'
  BY <1>1 DEF LoopInv
<1>3. Limit' = Limit /\ Limit \in Int
  <2>1. Limit \in Nat
    BY WorkLeft, {} \in SUBSET Col
  <2> QED BY <2>1 DEF Limit
<1>4. /\ Work \in Int /\ Work' \in Int
      /\ \/ Work' <= Work - 2
         \/ Work' = Work - 1 /\ dd' = dd
         \/ Work' = Work /\ dd' = dd /\ rmp' = rmp /\ etaOut' <= etaOut
  BY FixWork
<1>5. PricedWork
  BY DEF WorkInv
<1>6. /\ iterations + Work <= Limit - 1 /\ Work' <= Work => iterations + Work' <= Limit - 1
      /\ iterations + Work <= Limit - 1 /\ Work' <= Work => iterations + Work' <= Limit
      /\ iterations + Work <= Limit /\ Work' <= Work => iterations + Work' <= Limit
      /\ iterations + Work <= Limit /\ Work' <= Work - 2 => iterations + Work' <= Limit - 1
      /\ iterations + Work <= Limit + 1 /\ Work' <= Work => iterations + Work' <= Limit + 1
      /\ iterations + Work <= Limit + 1 /\ Work' <= Work - 1 => iterations + Work' <= Limit
      /\ iterations + Work <= Limit + 1 /\ Work' <= Work - 2 => iterations + Work' <= Limit - 1
  <2>1. iterations \in Int /\ Work \in Int /\ Work' \in Int /\ Limit \in Int
    BY <1>1, <1>3, <1>4
  <2> HIDE DEF Work, Limit
  <2> QED BY <2>1, Budgets
<1>7. Work' <= Work
  BY <1>4
<1>8. CASE pc' = "column"
  <2> SUFFICES PricedWork'
    BY <1>2, <1>8 DEF WorkInv
  <2>1. CASE iterations + Work <= Limit - 1
    BY <1>1, <1>3, <1>6, <1>7, <2>1 DEF PricedWork
  <2>2. CASE iterations + Work <= Limit /\ priced \subseteq dd
    <3>1. CASE Work' <= Work - 2
      BY <1>1, <1>3, <1>6, <2>2, <3>1 DEF PricedWork
    <3>2. CASE dd' = dd
      BY <1>1, <1>3, <1>6, <1>7, <2>2, <3>2 DEF PricedWork
    <3> QED BY <1>4, <3>1, <3>2
  <2>3. CASE iterations + Work <= Limit + 1 /\ PricedInv
    <3>1. CASE Work' <= Work - 2
      BY <1>1, <1>3, <1>6, <2>3, <3>1 DEF PricedWork
    <3>2. CASE Work' = Work - 1 /\ dd' = dd
      BY <1>1, <1>3, <1>4, <1>6, <2>3, <3>2 DEF PricedWork, PricedInv
    <3>3. CASE Work' = Work /\ dd' = dd /\ rmp' = rmp /\ etaOut' <= etaOut
      <4>1. PricedInv'
        <5>1. priced' = {} => ~(etaIn' <= etaOut' - EtaDiff)
          BY <1>1, <2>3, <3>3, Tests DEF PricedInv
        <5>2. ~continueLP' => ~(etaIn' <= etaOut' - EtaDiff)
          <6>1. continueLP' = (EtaDiff < etaOut' - etaIn)
            BY DEF Fix
          <6>2. ~continueLP' => ~(EtaDiff < etaOut' - etaIn)
            BY <6>1, Zenon
          <6>3. etaOut' - etaIn # EtaDiff
            BY <1>1 DEF NoCoincidence, LoopInv
          <6> QED BY <1>1, <6>2, <6>3, Tests
        <5> QED BY <1>1, <2>3, <3>3, <5>1, <5>2 DEF PricedInv
      <4> QED BY <1>1, <1>3, <1>6, <2>3, <3>3, <4>1 DEF PricedWork
    <3> QED BY <1>4, <3>1, <3>2, <3>3
  <2> QED BY <1>5, <2>1, <2>2, <2>3 DEF PricedWork
<1>9. CASE pc' = "loop" /\ ~AddsColumn
  <2>1. iterations + Work' <= Limit \/ (iterations + Work' <= Limit + 1 /\ ~HasCols')
    <3>1. CASE iterations + Work <= Limit - 1
      BY <1>6, <1>7, <3>1
    <3>2. CASE iterations + Work <= Limit
      BY <1>6, <1>7, <3>2
    <3>3. CASE iterations + Work <= Limit + 1 /\ PricedInv
      <4>1. CASE Work' <= Work - 1
        BY <1>6, <3>3, <4>1
      <4>2. CASE Work' = Work /\ etaOut' <= etaOut
        <5>1. ~(etaIn <= etaOut - EtaDiff) \/ ~(etaIn <= UB - Unit)
          BY <1>9, <3>3 DEF AddsColumn, PricedInv
        <5>2. ~HasCols'
          BY <1>1, <4>2, <5>1, NumberAssumption DEF HasCols
        <5> QED BY <1>6, <1>7, <3>3, <5>2
      <4> QED BY <1>4, <4>1, <4>2
    <3> QED BY <1>5, <3>1, <3>2, <3>3 DEF PricedWork
  <2> QED BY <1>1, <1>2, <1>3, <1>9, <2>1 DEF WorkInv
<1> QED BY <1>8, <1>9

LEMMA AddColumnTermination ==
  ASSUME IsFiniteSet(Col), TerminationInv, IInv', AddColumn PROVE LoopInv' /\ WorkInv'
<1> USE DEF TerminationInv
<1>1. /\ pc = "column" /\ pc' = "loop" /\ priced # {}
      /\ rmp' = rmp \cup priced /\ dd' = dd /\ priced' = priced
      /\ iterations' = iterations /\ etaIn' = etaIn /\ iterations \in Int
      /\ dd \in SUBSET Col /\ rmp \in SUBSET Col
  BY DEF AddColumn, AddsColumn, IInv, TypeOK
<1>2. LoopInv'
  BY <1>1 DEF LoopInv
<1>3. PICK s \in Col : priced = {s}
  BY <1>1 DEF LoopInv
<1>4. Limit' = Limit /\ Limit \in Int
  <2>1. Limit \in Nat
    BY WorkLeft, {} \in SUBSET Col
  <2> QED BY <2>1 DEF Limit
<1>5. WorkOf(Col, dd, rmp) \in Nat /\ WorkOf(Col, dd, rmp \cup {s}) \in Nat
  <2>1. rmp \cup {s} \in SUBSET Col
    BY <1>1
  <2>2. WorkOf(Col, dd, rmp) \in Nat
    BY <1>1, WorkLeft
  <2> QED BY <1>1, <2>1, <2>2, WorkLeft
<1>6. Work = WorkOf(Col, dd, rmp) /\ Work' = WorkOf(Col, dd, rmp \cup {s})
  BY <1>1, <1>3 DEF Work
<1>7. PricedWork
  BY <1>1 DEF WorkInv
<1>8. iterations + WorkOf(Col, dd, rmp \cup {s}) <= Limit
  <2>1. CASE iterations + Work <= Limit - 1
    <3>1. WorkOf(Col, dd, rmp \cup {s}) <= WorkOf(Col, dd, rmp) + 1
      BY <1>1, WorkOfAdded
    <3> QED BY <1>1, <1>4, <1>5, <1>6, <2>1, <3>1
  <2>2. CASE iterations + Work <= Limit /\ priced \subseteq dd
    <3>1. WorkOf(Col, dd, rmp \cup {s}) <= WorkOf(Col, dd, rmp)
      BY <1>1, <1>3, <2>2, WorkOfAdded
    <3> QED BY <1>1, <1>4, <1>5, <1>6, <2>2, <3>1
  <2>3. CASE iterations + Work <= Limit + 1 /\ PricedInv
    <3>1. WorkOf(Col, dd, rmp \cup {s}) = WorkOf(Col, dd, rmp) - 1
      <4>1. s \in dd /\ s \notin rmp
        BY <1>3, <2>3 DEF PricedInv
      <4> QED BY <1>1, <4>1, WorkOfAdded
    <3> QED BY <1>1, <1>4, <1>5, <1>6, <2>3, <3>1
  <2> QED BY <1>7, <2>1, <2>2, <2>3 DEF PricedWork
<1> QED BY <1>1, <1>2, <1>4, <1>6, <1>8 DEF WorkInv

LEMMA InitTermination == ASSUME IsFiniteSet(Col) PROVE Init => TerminationInv
<1> SUFFICES ASSUME Init PROVE LoopInv /\ WorkInv
  BY InitInv DEF TerminationInv
<1> QED BY NumberAssumption DEF Init, LoopInv, WorkInv

LEMMA TerminationStep ==
  ASSUME IsFiniteSet(Col), NoCoincidence PROVE TerminationInv /\ [Next]_vars => TerminationInv'
<1> SUFFICES ASSUME TerminationInv, [Next]_vars PROVE LoopInv' /\ WorkInv'
  BY NextInv DEF TerminationInv
<1>1. IInv'
  BY NextInv DEF TerminationInv
<1>2. CASE Found
  <2>1. PICK s \in dd \ rmp, e \in LagrangianBounds : Price({s}, e)
    BY <1>2 DEF Found
  <2> QED BY <1>1, <2>1, PriceTermination
<1>3. CASE NotFound
  <2>1. PICK e \in LagrangianBounds : Price({}, e) /\ e >= lpSol'.cost
    BY <1>3 DEF NotFound
  <2> QED BY <1>1, <2>1, PriceTermination
<1>4. CASE FixAtCenter
  <2>1. PICK keep : Fix(keep) /\ pc = "center" /\ pc' = "column"
    BY <1>4 DEF FixAtCenter
  <2> QED BY <1>1, <2>1, FixTermination
<1>5. CASE FixAndClean
  <2>1. Fix({}) /\ pc = "column" /\ pc' = "loop" /\ ~AddsColumn
    BY <1>5 DEF FixAndClean
  <2> QED BY <1>1, <2>1, FixTermination
<1>6. CASE NoFixAtCenter
  <2>1. LoopInv'
    BY <1>6 DEF NoFixAtCenter, TerminationInv, LoopInv
  <2>2. WorkInv'
    BY <1>6 DEF NoFixAtCenter, TerminationInv, WorkInv, Work, PricedWork, PricedInv, Limit
  <2> QED BY <2>1, <2>2
<1>7. CASE Build
  BY <1>7 DEF Build, TerminationInv, LoopInv, WorkInv
<1>8. CASE Enter
  <2>1. LoopInv' /\ pc' = "loop" /\ iterations' = 0
    BY <1>8 DEF Enter, TerminationInv, LoopInv, IInv, MasterInv
  <2>2. WorkOf(Col, dd', rmp') \in Nat /\ WorkOf(Col, dd', rmp') <= Limit - 1 /\ Limit \in Nat
    <3>1. dd' \in SUBSET Col /\ rmp' \in SUBSET Col
      BY <1>1 DEF IInv, TypeOK
    <3> QED BY <3>1, WorkLeft
  <2>3. 0 + WorkOf(Col, dd', rmp') <= Limit
    BY <2>2
  <2>4. Limit' = Limit /\ Work' = WorkOf(Col, dd', rmp')
    BY DEF Limit, Work
  <2> QED BY <2>1, <2>3, <2>4 DEF WorkInv
<1>9. CASE Finish
  <2>1. /\ pc = "loop" /\ pc' = "done" /\ iterations' = iterations /\ priced' = priced
        /\ iterations \in Nat /\ etaIn' = etaIn
    BY <1>9 DEF Finish, TerminationInv, IInv, TypeOK
  <2>2. Work \in Nat /\ Limit \in Nat /\ Limit' = Limit
    BY WorkLeft DEF Work, TerminationInv, IInv, TypeOK, Limit
  <2>3. iterations <= Limit + 1
    BY <2>1, <2>2 DEF TerminationInv, WorkInv
  <2>4. LoopInv'
    BY <2>1 DEF TerminationInv, LoopInv
  <2> QED BY <2>1, <2>2, <2>3, <2>4 DEF WorkInv
<1>10. CASE UNCHANGED vars
  BY <1>10 DEF TerminationInv, LoopInv, WorkInv, Work, PricedWork, PricedInv, HasCols, Limit
<1> QED BY <1>1, <1>2, <1>3, <1>4, <1>5, <1>6, <1>7, <1>8, <1>9, <1>10, AddColumnTermination
     DEF Next, Done

\* The stopping tests of compute_lower_bound end its loop, after no more turns than the
\* square of the number of columns, and some, whatever the stabilisation finds and
\* fixing takes.
THEOREM LoopIsBounded ==
  ASSUME IsFiniteSet(Col), NoCoincidence
  PROVE  Spec => [](iterations <= (Cardinality(Col) + 1) * (Cardinality(Col) + 3))
<1>1. TerminationInv => iterations <= (Cardinality(Col) + 1) * (Cardinality(Col) + 3)
  <2> SUFFICES ASSUME TerminationInv PROVE iterations <= (Cardinality(Col) + 1) * (Cardinality(Col) + 3)
    OBVIOUS
  <2>1. iterations \in Nat /\ Work \in Nat /\ Limit \in Nat /\ Cardinality(Col) \in Nat
    BY WorkLeft DEF TerminationInv, IInv, TypeOK, Work
  <2>2. iterations <= Limit + 1
    <3>1. pc \in {"build", "enter"} => iterations = 0
      BY DEF TerminationInv, IInv, MasterInv
    <3> QED BY <2>1, <3>1 DEF TerminationInv, IInv, TypeOK, WorkInv, PricedWork
  <2>3. Limit + 1 = (Cardinality(Col) + 1) * (Cardinality(Col) + 3)
    BY <2>1 DEF Limit, WorkLimit
  <2> QED BY <2>2, <2>3
<1> QED BY InitTermination, TerminationStep, <1>1, PTL DEF Spec

\* A limit beyond that is never met.
THEOREM Converges ==
  ASSUME IsFiniteSet(Col), NoCoincidence, MaxIter > (Cardinality(Col) + 1) * (Cardinality(Col) + 3)
  PROVE  Spec => []ConvergesBeforeLimit
<1>1. /\ iterations <= (Cardinality(Col) + 1) * (Cardinality(Col) + 3) /\ iterations \in Nat
      => ConvergesBeforeLimit
  <2>1. Cardinality(Col) \in Nat
    BY WorkLeft, {} \in SUBSET Col
  <2> QED BY <2>1, NumberAssumption DEF ConvergesBeforeLimit
<1>2. TypeOK => iterations \in Nat
  BY DEF TypeOK
<1> QED BY LoopIsBounded, TypeCorrect, <1>1, <1>2, PTL
==============================================================================
