------------------------------ MODULE ColumnPool ------------------------------
(***************************************************************************)
(* The column pools of the nodes (NodeData::localColPool) and the columns  *)
(* of their masters, by position.  A master is a solver's array addressed  *)
(* with indices counted from id_pseudo_schedules; a pool is a vector of    *)
(* shared pointers, so a ScheduleSet, its age and its del flag belong to   *)
(* every node that got it from its parent.  Nodes run one after another.   *)
(***************************************************************************)
EXTENDS Integers, Sequences, FiniteSets, SequencesExt

CONSTANTS
  Node, Root,
  Path,         \* schedules as job lists, numbered in the order of job_list
  Set,          \* the ScheduleSet objects there may be
  Key(_),       \* the job list of an object
  Retirement,   \* retirementage
  MinNumDel,    \* nb_jobs * min_nb_del_row_ratio, rounded down
  MaxSolves     \* bound on the solves of one node

ASSUME PoolAssumption == /\ Root \in Node
                         /\ Path \subseteq Nat
                         /\ \A s \in Set : Key(s) \in Path
                         /\ Retirement \in Nat /\ MinNumDel \in Nat

VARIABLES
  pc,        \* where each node is: "none", "ready", "entry", "loop", "solved", "done"
  diagram,   \* the paths of the node's decision diagram
  pool,      \* localColPool
  master,    \* the job lists of the columns of the master, by position
  zero,      \* zero_count
  solves,    \* solves of the node, a bound
  age, del,  \* of each object, shared by the nodes
  used       \* objects created so far

shared == <<age, del, used>>
vars == <<pc, diagram, pool, master, zero, solves, shared>>

Keys(p) == [i \in DOMAIN p |-> Key(p[i])]

Init ==
  /\ pc = [n \in Node |-> IF n = Root THEN "ready" ELSE "none"]
  /\ diagram \in {[n \in Node |-> D] : D \in SUBSET Path}
  \* the heuristic adds the schedules of every improved solution, duplicates and all
  /\ \E p \in {<<s, t>> : s \in Set, t \in Set} \cup {<<s, t, u>> : s \in Set, t \in Set, u \in Set} :
       /\ IsInjective(p)
       /\ pool = [n \in Node |-> IF n = Root THEN p ELSE <<>>]
       /\ used = ToSet(p)
  /\ master = [n \in Node |-> <<>>]
  /\ zero = [n \in Node |-> 0]
  /\ solves = [n \in Node |-> 0]
  /\ age = [s \in Set |-> 0]
  /\ del = [s \in Set |-> FALSE]

Idle == \A n \in Node : pc[n] \in {"none", "ready", "done"}

\* prune_duplicated_sets: sorted by job list, one of equal ones kept (the sort does
\* not say which comes first).
Prunings(p) ==
  {q \in [1 .. Cardinality(ToSet(Keys(p))) -> ToSet(p)] :
     /\ \A i, j \in DOMAIN q : i < j => Key(q[i]) < Key(q[j])
     /\ ToSet(Keys(q)) = ToSet(Keys(p))}

\* build_rmp: a column for every schedule of the pool, in its order
Build(n) ==
  /\ Idle /\ pc[n] = "ready"
  /\ pc' = [pc EXCEPT ![n] = "entry"]
  /\ \E q \in Prunings(pool[n]) :
       /\ pool' = [pool EXCEPT ![n] = q]
       /\ master' = [master EXCEPT ![n] = Keys(q)]
  /\ UNCHANGED <<diagram, zero, solves, shared>>

\* Ages count up to one past retirement: beyond that the code does not tell them
\* apart.
Older(a) == IF a <= Retirement THEN a + 1 ELSE a

\* grow_ages: a column that is not basic grows older, a basic one is young again;
\* zero_count, left at z by what came before, is counted anew unless the pool is empty.
GrowAges(n, z, basic) ==
  /\ age' = [s \in Set |->
       IF \E i \in DOMAIN pool'[n] : pool'[n][i] = s /\ i \in basic THEN 0
       ELSE IF s \in ToSet(pool'[n]) THEN Older(age[s])
       ELSE age[s]]
  /\ zero' = [zero EXCEPT ![n] =
       IF pool'[n] = <<>> THEN z ELSE Cardinality({s \in ToSet(pool'[n]) : age'[s] > Retirement})]

Solve(n, z) == \E basic \in SUBSET (DOMAIN master'[n]) : GrowAges(n, z, basic)

\* The positions of a sequence that are not in dels, in order.
DropPositions(q, dels) == FoldLeftDomain(LAMBDA r, i : IF i \in dels THEN r ELSE Append(r, q[i]),
                                         <<>>, q)

\* Mutant: the index is only counted for the schedules that stay.
DelList_Skipping(p, gone) ==
  {1 + Cardinality({j \in 1 .. i - 1 : p[j] \notin gone}) : i \in {i \in DOMAIN p : p[i] \in gone}}

\* dellist: the positions whose schedule is removed
DelList(p, gone) == {i \in DOMAIN p : p[i] \in gone}

\* remove_if, one pass that keeps the others in order
Without(p, gone) == FoldLeft(LAMBDA r, s : IF s \in gone THEN r ELSE Append(r, s), <<>>, p)

\* remove_if on the pool, delete_cols_array on the master
RemoveSchedules(n, gone) ==
  /\ pool' = [pool EXCEPT ![n] = Without(@, gone)]
  /\ master' = [master EXCEPT ![n] = DropPositions(@, DelList(pool[n], gone))]

\* Mutant: a schedule that has grown old keeps the flag it has.
Checked_Sticky(n) == [s \in Set |-> IF s \in ToSet(pool[n]) /\ age[s] = 0
                                    THEN Key(s) \in diagram'[n] ELSE del[s]]

\* check_schedules: del is 1 for the schedules that are paths
Checked(n) == [s \in Set |-> IF s \in ToSet(pool[n]) THEN Key(s) \in diagram'[n] ELSE del[s]]

\* check_schedules and delete_infeasible_schedules, which resets zero_count; the
\* master is solved again when something was deleted.
CheckAndDelete(n) ==
  /\ del' = Checked(n)
  /\ RemoveSchedules(n, {s \in Set : ~del'[s]})
  /\ IF pool'[n] = pool[n] THEN zero' = [zero EXCEPT ![n] = 0] /\ UNCHANGED age ELSE Solve(n, 0)

\* compute_lower_bound before its loop
Enter(n) ==
  /\ pc[n] = "entry"
  /\ pc' = [pc EXCEPT ![n] = "loop"]
  /\ UNCHANGED <<diagram, solves, used>>
  /\ CheckAndDelete(n)

\* NodeData::status, by its enumeration value: initialized until the first
\* pricing, infeasible (4) from then on, LP_bound_computed (2) on return.
Status(n) == IF pc[n] = "done" THEN 2 ELSE IF solves[n] > 0 THEN 4 ELSE 0

GrbOptimal == 2    \* the solver's GRB_OPTIMAL, which the code compares it with

\* delete_old_schedules
DeleteOld(n) ==
  IF Cardinality({s \in ToSet(pool[n]) : age[s] > 0}) > MinNumDel
  THEN RemoveSchedules(n, {s \in Set : age[s] > Retirement})
  ELSE UNCHANGED <<pool, master>>

\* The top of the loop: old columns are deleted and the master is solved.
Relax(n) ==
  /\ pc[n] = "loop" /\ solves[n] < MaxSolves
  /\ pc' = [pc EXCEPT ![n] = "solved"]
  /\ solves' = [solves EXCEPT ![n] = @ + 1]
  /\ IF zero[n] > MinNumDel /\ Status(n) = GrbOptimal
     THEN DeleteOld(n) /\ Solve(n, 0)
     ELSE UNCHANGED <<pool, master>> /\ Solve(n, zero[n])
  /\ UNCHANGED <<diagram, del, used>>

\* solve_pricing adds the column it found: a new path, not in the master.
AddColumn(n) ==
  /\ pc[n] = "solved"
  /\ pc' = [pc EXCEPT ![n] = "loop"]
  /\ \E s \in Set \ used :
       /\ Key(s) \in diagram[n] /\ Key(s) \notin ToSet(master[n])
       /\ pool' = [pool EXCEPT ![n] = Append(@, s)]
       /\ master' = [master EXCEPT ![n] = Append(@, Key(s))]
       /\ used' = used \cup {s}
  /\ UNCHANGED <<diagram, zero, solves, age, del>>

\* solve_pricing fixes arcs by reduced cost, and cleans.
Fix(n) ==
  /\ pc[n] = "solved"
  /\ pc' = [pc EXCEPT ![n] = "loop"]
  /\ \E d \in SUBSET diagram[n] : diagram' = [diagram EXCEPT ![n] = d]
  /\ CheckAndDelete(n)
  /\ UNCHANGED <<solves, used>>

Return(n) ==
  /\ pc[n] = "loop"
  /\ pc' = [pc EXCEPT ![n] = "done"]
  /\ UNCHANGED <<diagram, pool, master, zero, solves, shared>>

\* NodeData(const NodeData&): a child shares its parent's schedules, has a copy
\* of its diagram (that split_job_time then restricts) and an empty master.
Clone(n, child) ==
  /\ Idle /\ pc[n] = "done" /\ pc[child] = "none"
  /\ pc' = [pc EXCEPT ![child] = "ready"]
  /\ \E d \in SUBSET diagram[n] : diagram' = [diagram EXCEPT ![child] = d]
  /\ pool' = [pool EXCEPT ![child] = pool[n]]
  /\ UNCHANGED <<master, zero, solves, shared>>

Next == \/ \E n \in Node : \/ Build(n) \/ Enter(n) \/ Relax(n) \/ AddColumn(n)
                           \/ Fix(n) \/ Return(n)
        \/ \E n, child \in Node : Clone(n, child)

Spec == Init /\ [][Next]_vars
------------------------------------------------------------------------------
\* Position i of the pool is column i of the master, whatever was deleted from
\* either and in whatever order: ages, values and deletions go by position.
PositionsAligned ==
  \A n \in Node : pc[n] \in {"entry", "loop", "solved"} => master[n] = Keys(pool[n])

\* A schedule that is a path of the node's diagram is never lost to another
\* node's flags or ages: del and age are shared, the diagrams are not.
PathsAreKept ==
  [][\A n \in Node : ToSet(Keys(pool[n])) \cap diagram'[n] \subseteq ToSet(Keys(pool'[n]))]_vars

==============================================================================
