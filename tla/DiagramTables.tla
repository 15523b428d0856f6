----------------------------- MODULE DiagramTables -----------------------------
(***************************************************************************)
(* The node table of a decision diagram: its construction row by row       *)
(* (DdBuilder) while dead nodes are swept out (DdSweeper), the numbering of *)
(* its nodes by job and time (PricerSolverBdd), and the reduction that      *)
(* renumbers rows and nodes whenever 1-arcs have gone (DdReducer).         *)
(*                                                                         *)
(* A node is known by its row and its column, columns from 1; row 0 holds  *)
(* the terminals.  A specification gives the children of a state           *)
(* <<level, time>>; every specification here runs a job of length p[level] *)
(* along the 1-arcs of a level, and merges no two different states.         *)
(***************************************************************************)
EXTENDS Integers, Sequences, FiniteSets, SequencesExt

CONSTANTS
  Specs,        \* [n, p, root, lo, hi]: levels, job lengths, and children by state
  SweepRatio,   \* DdSweeper::SWEEP_RATIO
  MaxRounds,    \* bound: how often arcs are removed
  MaxRemoved    \* bound: how many at a time

Zero == <<0, 0>>
One == <<0, 1>>
Terminals == {Zero, One}

ASSUME TablesAssumption ==
  /\ SweepRatio \in Nat /\ MaxRounds \in Nat /\ MaxRemoved \in Nat
  /\ \A S \in Specs :
       /\ \A s \in DOMAIN S.lo : /\ S.lo[s][1] < s[1] /\ S.lo[s] \in DOMAIN S.lo \cup Terminals
                                 /\ S.hi[s][1] < s[1] /\ S.hi[s] \in DOMAIN S.lo \cup Terminals
                                 /\ S.lo[s] \notin Terminals => S.lo[s][2] = s[2]
                                 /\ S.hi[s] \notin Terminals => S.hi[s][2] = s[2] + S.p[s[1]]
       /\ S.root \in Terminals \/ S.root = <<S.n, 0>>

VARIABLES
  spec,      \* what is built
  pc,        \* "construct", "reduce", "number" or "ready"
  level,     \* the row that is next constructed or reduced
  table,     \* the rows of nodes, [state, lo, hi, job, time, id]
  root,
  pending,   \* spec_node_table: by level, states and the branch that waits for each
  sweeper,   \* [sweepLevel, deadCount, allCount, maxCount]
  reducer,   \* [input, newId, lower, counter] of the reduction under way
  layers,    \* ordered_jobs_new: the layers, by the level they had in spec
  kept,      \* history: the paths the table should have, as sets of states
  rounds     \* how often arcs were removed

vars == <<spec, pc, level, table, root, pending, sweeper, reducer, layers, kept, rounds>>

Positions(T) == UNION {{r} \X DOMAIN T[r] : r \in DOMAIN T}
NodeAt(T, f) == T[f[1]][f[2]]
Put(T, f, b, id) == IF b = 0 THEN [T EXCEPT ![f[1]][f[2]].lo = id]
                             ELSE [T EXCEPT ![f[1]][f[2]].hi = id]

Unset == <<-1, 0>>     \* what a lookup outside the table yields
Waiting == <<-2, 0>>   \* a branch whose node has no number yet
NewNode(s) == [state |-> s, lo |-> Waiting, hi |-> Waiting, job |-> 0, time |-> 0, id |-> Zero]
--------------------------------------------------------------------------------
(* DdBuilder and DdSweeper *)

\* The states of a level in the order of their list, each once.
Distinct(list) ==
  FoldLeft(LAMBDA seq, p : IF Contains(seq, p.state) THEN seq ELSE Append(seq, p.state),
           <<>>, list)

Child(S, s, b) == IF b = 0 THEN S.lo[s] ELSE S.hi[s]

\* construct(i): the distinct states of the level become its row, whatever waits
\* for one is told its number, and the children wait for theirs, last come first.
Numbered(T, i, states, list) ==
  FoldLeft(LAMBDA U, p : IF p.src = <<>> THEN U
                         ELSE Put(U, p.src, p.src[3],
                                  <<i, CHOOSE c \in DOMAIN states : states[c] = p.state>>),
           [T EXCEPT ![i] = [c \in DOMAIN states |-> NewNode(states[c])]], list)

Branches(states) == FlattenSeq([c \in DOMAIN states |-> <<<<c, 0>>, <<c, 1>>>>])

Ended(S, T, i, states) ==
  FoldLeft(LAMBDA U, cb : LET to == Child(S, states[cb[1]], cb[2])
                          IN  IF to \in Terminals THEN Put(U, <<i, cb[1]>>, cb[2], to) ELSE U,
           T, Branches(states))

Scheduled(S, P, i, states) ==
  FoldLeft(LAMBDA Q, cb : LET to == Child(S, states[cb[1]], cb[2])
                          IN  IF to \in Terminals THEN Q
                              ELSE [Q EXCEPT ![to[1]] = <<[state |-> to, src |-> <<i, cb[1], cb[2]>>]>> \o @],
           [P EXCEPT ![i] = <<>>], Branches(states))

IsDead(n) == n.lo = Zero /\ n.hi = Zero
Size(T) == Cardinality(Positions(T))

\* sweepLevel: no row from here on waits for a node of a lower row.
MarkLevels_Here(w, i, child) ==
  [w EXCEPT !.sweepLevel = [l \in DOMAIN @ |->
     IF l \in child .. i /\ \A k \in child .. l : @[k] = 0 THEN i ELSE @[l]]]
MarkLevels(w, i, child) ==
  [w EXCEPT !.sweepLevel = [l \in DOMAIN @ |->
     IF l \in child .. i /\ \A k \in child .. l : @[k] = 0 THEN i + 1 ELSE @[l]]]

\* The dead nodes that are now in rows nothing waits in.
Gathered(w, i, dead) ==
  LET k == w.sweepLevel[i - 1]
      d == [w.deadCount EXCEPT ![i] = dead]
      rows == {l \in DOMAIN d : k < l /\ l <= w.sweepLevel[i]}
  IN  [w EXCEPT !.deadCount = [l \in DOMAIN d |->
         IF l = k THEN MapThenSumSet(LAMBDA r : d[r], rows \cup {k})
         ELSE IF l \in rows THEN 0 ELSE d[l]]]

\* The sweep itself: nodes of the rows from k on that have become dead go, and the
\* others move up in their rows.
Swept(T, k) ==
  LET row(acc, r) ==
        LET new(f) == IF f[1] >= k THEN acc.to[f] ELSE f
            nodes == [c \in DOMAIN T[r] |-> [T[r][c] EXCEPT !.lo = new(@), !.hi = new(@)]]
            at(c) == Cardinality({d \in 1 .. c : ~IsDead(nodes[d])})
        IN  [T |-> [acc.T EXCEPT ![r] = SelectSeq(nodes, LAMBDA n : ~IsDead(n))],
             to |-> acc.to @@ [f \in {r} \X DOMAIN nodes |->
                                 IF IsDead(nodes[f[2]]) THEN Zero ELSE <<r, at(f[2])>>]]
  IN  FoldLeft(row, [T |-> T, to |-> <<>>], [j \in 1 .. Len(T) + 1 - k |-> k + j - 1])

\* DdSweeper::update
Updated(w, T, f, i, child, dead) ==
  IF i <= 1 THEN [w |-> w, T |-> T, root |-> f]
  ELSE LET v == Gathered(MarkLevels([w EXCEPT !.allCount = @ + Len(T[i])], i, child), i, dead)
           u == [v EXCEPT !.maxCount = IF @ < v.allCount THEN v.allCount ELSE @]
           k == u.sweepLevel[i - 1]
       IN  IF u.deadCount[k] * SweepRatio < u.maxCount THEN [w |-> u, T |-> T, root |-> f]
           ELSE LET s == Swept(T, k)
                IN  [w |-> [u EXCEPT !.deadCount[k] = 0, !.allCount = Size(s.T)],
                     T |-> s.T, root |-> s.to[f]]
--------------------------------------------------------------------------------
(* DdReducer *)

\* makeReadyForSequentialReduction: no branch leads to a node without a 1-arc.
Ready(T) ==
  LET over(U, f) == IF f \in Positions(U) /\ NodeAt(U, f).hi = Zero THEN NodeAt(U, f).lo ELSE f
      row(U, r) == [U EXCEPT ![r] = [c \in DOMAIN @ |->
                      [@[c] EXCEPT !.lo = over(U, @), !.hi = over(U, @)]]]
  IN  FoldLeft(row, T, [j \in 1 .. Len(T) - 1 |-> j + 1])

\* makeIndex: the rows that a row refers to and no higher one does.
LowerLevels_Any(T) ==
  [i \in DOMAIN T |-> {r \in 1 .. i - 1 : \E c \in DOMAIN T[i] : r \in {T[i][c].lo[1], T[i][c].hi[1]}}]
LowerLevels(T) ==
  LET refers(i, r) == \E c \in DOMAIN T[i] : r \in {T[i][c].lo[1], T[i][c].hi[1]}
  IN  [i \in DOMAIN T |-> {r \in 1 .. i - 1 :
                             refers(i, r) /\ \A q \in i + 1 .. Len(T) : ~refers(q, r)}]

Idle == [input |-> <<>>, newId |-> <<>>, lower |-> <<>>, counter |-> 0]

\* The constructor leaves an empty table of as many rows.
Reducer(T) == LET U == Ready(T)
              IN  [input |-> U, newId |-> [r \in DOMAIN T |-> <<>>],
                   lower |-> LowerLevels(U), counter |-> 1]
Emptied(T) == [r \in DOMAIN T |-> <<>>]

\* algorithmR(i): nodes without a 1-arc give way to where their 0-arc leads, and
\* the others become the next row.
NewIds(R, i, nodes) ==
  LET at(c) == Cardinality({d \in 1 .. c : nodes[d].hi # Zero})
  IN  [c \in DOMAIN nodes |-> IF nodes[c].hi = Zero THEN nodes[c].lo ELSE <<R.counter, at(c)>>]

Remapped(R, i) ==
  LET new(f) == IF f[1] <= 0 THEN f
                ELSE IF f[2] \in DOMAIN R.newId[f[1]] THEN R.newId[f[1]][f[2]] ELSE Unset
  IN  [c \in DOMAIN R.input[i] |-> [R.input[i][c] EXCEPT !.lo = new(@), !.hi = new(@)]]

KeptRow_SameIds(R, i, nodes) == SelectSeq(nodes, LAMBDA n : n.hi # Zero)
KeptRow(R, i, nodes) ==
  LET row == SelectSeq(nodes, LAMBDA n : n.hi # Zero)
  IN  [c \in DOMAIN row |-> [row[c] EXCEPT !.id = <<R.counter, c>>]]

Counter_Always(R, row) == R.counter + 1
Counter(R, row) == IF row = <<>> THEN R.counter ELSE R.counter + 1
--------------------------------------------------------------------------------
(* The paths to the 1-terminal, as the sets of states whose 1-arc they use. *)
PathsIn(lo, hi, label, f) ==
  LET paths[g \in DOMAIN lo \cup Terminals] ==
        IF g = Zero THEN {} ELSE IF g = One THEN {{}}
        ELSE LET below(h) == IF h \in DOMAIN lo \cup Terminals THEN paths[h] ELSE {{h}}
             IN  below(lo[g]) \cup {{label[g]} \cup s : s \in below(hi[g])}
  IN  IF f \in DOMAIN lo \cup Terminals THEN paths[f] ELSE {{f}}

Language(T, f) ==
  PathsIn([g \in Positions(T) |-> NodeAt(T, g).lo], [g \in Positions(T) |-> NodeAt(T, g).hi],
          [g \in Positions(T) |-> NodeAt(T, g).state], f)

\* initialize(root)
Init ==
  /\ spec \in Specs
  /\ table = [r \in 1 .. spec.n |-> <<>>]
  /\ level = spec.root[1]
  /\ pc = "construct"
  /\ root = IF level = 0 THEN spec.root ELSE Waiting
  /\ pending = [l \in 1 .. spec.n |-> IF l = level THEN <<[state |-> spec.root, src |-> <<>>]>> ELSE <<>>]
  /\ sweeper = [sweepLevel |-> [l \in 0 .. spec.n |-> 0], deadCount |-> [l \in 0 .. spec.n + 1 |-> 0],
                allCount |-> 0, maxCount |-> 0]
  /\ reducer = Idle
  /\ layers = [l \in 1 .. spec.n |-> spec.n + 1 - l]
  /\ kept = PathsIn(spec.lo, spec.hi, [s \in DOMAIN spec.lo |-> s], spec.root)
  /\ rounds = 0

\* construct(level), with the sweeper's update
Construct ==
  /\ pc = "construct" /\ level > 0
  /\ LET list == pending[level]
         states == Distinct(list)
         T == Ended(spec, Numbered(table, level, states, list), level, states)
         below == {Child(spec, s, b)[1] : s \in ToSet(states), b \in {0, 1}} \ {0}
         lowest == Min(below \cup {level - 1})
         dead == Cardinality({c \in DOMAIN T[level] : IsDead(T[level][c])})
         f == IF level = spec.n THEN <<level, 1>> ELSE root
         u == Updated(sweeper, T, f, level, lowest, dead)
     IN  /\ table' = u.T /\ root' = u.root /\ sweeper' = u.w
         /\ pending' = Scheduled(spec, pending, level, states)
  /\ level' = level - 1
  /\ UNCHANGED <<spec, pc, reducer, layers, kept, rounds>>

\* The constructor of PricerSolverBdd drops the layers whose row has no 1-arc...
LayersLeft_All(T) == layers
LayersLeft(T) == SelectSeq(layers, LAMBDA l : \E c \in DOMAIN T[l] : T[l][c].hi # Zero)

\* ... and compresses.
Compress ==
  /\ pc = "construct" /\ level = 0
  /\ layers' = LayersLeft(table)
  /\ reducer' = Reducer(table) /\ table' = Emptied(table)
  /\ pc' = IF root \in Terminals THEN "ready" ELSE "reduce"
  /\ level' = 1
  /\ UNCHANGED <<spec, root, pending, sweeper, kept, rounds>>

\* reduce(level)
Reduce ==
  /\ pc = "reduce" /\ level <= root[1]
  /\ LET nodes == Remapped(reducer, level)
         ids == NewIds(reducer, level, nodes)
         row == KeptRow(reducer, level, nodes)
         gone == reducer.lower[reducer.counter]
     IN  /\ table' = IF row = <<>> THEN table ELSE [table EXCEPT ![reducer.counter] = row]
         /\ root' = IF root[1] = level THEN ids[root[2]] ELSE root
         /\ reducer' = [input |-> [r \in DOMAIN reducer.input |->
                                     IF r \in gone THEN <<>> ELSE IF r = level THEN nodes ELSE reducer.input[r]],
                        newId |-> [r \in DOMAIN reducer.newId |->
                                     IF r \in gone THEN <<>> ELSE IF r = level THEN ids ELSE reducer.newId[r]],
                        lower |-> reducer.lower, counter |-> Counter(reducer, row)]
         /\ pc' = IF level < root[1] THEN "reduce" ELSE IF rounds = 0 THEN "number" ELSE "ready"
  /\ level' = level + 1
  /\ UNCHANGED <<spec, pending, sweeper, layers, kept, rounds>>

\* init_table: the job by the row, the time by the parents, the number by both.
Number ==
  /\ pc = "number"
  /\ LET at(r) == Len(layers) + 1 - r
         job(f) == IF at(f[1]) \in DOMAIN layers THEN layers[at(f[1])] ELSE 0
         order == FlattenSeq([k \in DOMAIN table |->
                    LET r == Len(table) + 1 - k IN [c \in DOMAIN table[r] |-> <<r, c>>]])
         give(time, f) ==
           LET n == NodeAt(table, f)
           IN  (n.hi :> time[f] + spec.p[job(f)]) @@ (n.lo :> time[f]) @@ time
         time == FoldLeft(give, [g \in Positions(table) \cup Terminals |-> 0], order)
     IN  table' = [r \in DOMAIN table |-> [c \in DOMAIN table[r] |->
                     [table[r][c] EXCEPT !.job = job(<<r, c>>), !.time = time[<<r, c>>], !.id = <<r, c>>]]]
  /\ pc' = "ready"
  /\ UNCHANGED <<spec, level, root, pending, sweeper, reducer, layers, kept, rounds>>

\* remove_edges, of PricerSolverBdd: some nodes lose their 1-arc.
RemoveEdges ==
  /\ pc = "ready" /\ rounds < MaxRounds /\ root \notin Terminals
  /\ \E n \in 1 .. MaxRemoved : \E S \in kSubset(n, Positions(table)) :
       LET T == FoldSet(LAMBDA f, U : Put(U, f, 1, Zero), table, S)
       IN  /\ reducer' = Reducer(T) /\ table' = Emptied(T)
           /\ kept' = {p \in kept : p \cap {NodeAt(table, f).state : f \in S} = {}}
  /\ pc' = "reduce" /\ level' = 1 /\ rounds' = rounds + 1
  /\ UNCHANGED <<spec, root, pending, sweeper, layers>>

Next == Construct \/ Compress \/ Reduce \/ Number \/ RemoveEdges
Spec == Init /\ [][Next]_vars
--------------------------------------------------------------------------------
\* Whatever is merged, swept, forwarded and renumbered, a table at rest has the
\* paths of its specification, less those that used a removed 1-arc.
LanguageIsKept == pc \in {"number", "ready"} => Language(table, root) = kept

\* As in PricerConstruct, no branch leads to the 0-terminal.
NeverZero == \A s \in DOMAIN spec.lo : Zero \notin {spec.lo[s], spec.hi[s]}

\* Every node then ends up with the job and the time of the state it was made for,
\* though these are read off its row, where layers were dropped, and its parents.
LabelsAreStates ==
  NeverZero /\ pc = "ready" => \A f \in Positions(table) :
                    LET n == NodeAt(table, f) IN n.state = <<n.job, n.time>>

\* After a reduction no row below one in use is empty, branches lead to nodes of lower
\* rows or to terminals, 1-arcs never to nothing, and every node is where its label
\* says: the root's row counts the jobs that are left to the diagram.
TableIsCompact ==
  pc = "ready" =>
    /\ \A r \in DOMAIN table : r <= root[1] \/ table[r] # <<>> => \A q \in 1 .. r : table[q] # <<>>
    /\ \A f \in Positions(table) :
         LET n == NodeAt(table, f)
         IN  /\ n.id = f /\ n.hi # Zero
             /\ {n.lo, n.hi} \subseteq {g \in Positions(table) : g[1] < f[1]} \cup Terminals

\* While rows are swept, every waiting branch is still where the builder remembers it.
PendingIsRight ==
  pc = "construct" =>
    \A l \in DOMAIN pending : \A k \in DOMAIN pending[l] :
      LET p == pending[l][k]
      IN  p.src # <<>> => /\ <<p.src[1], p.src[2]>> \in Positions(table)
                          /\ Child(spec, table[p.src[1]][p.src[2]].state, p.src[3]) = p.state

================================================================================
