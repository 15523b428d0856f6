---------------------------- MODULE ColumnPoolProofs ----------------------------
(***************************************************************************)
(* The column pools for every set of nodes, schedules and job lists: the   *)
(* pass that drops schedules from a pool and the one that drops columns    *)
(* from a master leave the same ones, in the same places, and a schedule   *)
(* that is a path of a node's diagram is not dropped.                      *)
(***************************************************************************)
EXTENDS ColumnPool, FiniteSums

TypeOK ==
  /\ pc \in [Node -> {"none", "ready", "entry", "loop", "solved", "done"}]
  /\ diagram \in [Node -> SUBSET Path]
  /\ pool \in [Node -> Seq(Set)]
  /\ master \in [Node -> Seq(Path)]
  /\ zero \in [Node -> Nat] /\ solves \in [Node -> Nat]
  /\ age \in [Set -> Nat] /\ del \in [Set -> BOOLEAN]
  /\ used \subseteq Set

\* A node that is not there yet has no schedules.
NoneYet == \A n \in Node : pc[n] = "none" => pool[n] = <<>>

IInv == TypeOK /\ NoneYet /\ PositionsAligned

USE DEF shared, vars
------------------------------------------------------------------------------
(* Sequences of schedules and what is dropped from them. *)

LEMMA KeysType ==
  ASSUME NEW p \in Seq(Set)
  PROVE  /\ Keys(p) \in Seq(Path) /\ Len(Keys(p)) = Len(p) /\ DOMAIN Keys(p) = DOMAIN p
         /\ \A i \in DOMAIN p : Keys(p)[i] = Key(p[i])
         /\ ToSet(Keys(p)) = {Key(s) : s \in ToSet(p)}
<1>1. DOMAIN p = 1 .. Len(p) /\ Len(p) \in Nat /\ \A i \in DOMAIN p : p[i] \in Set
  OBVIOUS
<1>2. Keys(p) \in [1 .. Len(p) -> Path]
  BY <1>1, PoolAssumption DEF Keys
<1>3. Keys(p) \in Seq(Path) /\ Len(Keys(p)) = Len(p) /\ DOMAIN Keys(p) = DOMAIN p
  BY <1>1, <1>2
<1>4. \A i \in DOMAIN p : Keys(p)[i] = Key(p[i])
  BY DEF Keys
<1>5. ToSet(Keys(p)) = {Key(s) : s \in ToSet(p)}
  BY <1>3, <1>4 DEF ToSet
<1> QED BY <1>3, <1>4, <1>5

LEMMA AppendSchedule ==
  ASSUME NEW r \in Seq(Set), NEW s \in Set
  PROVE  /\ Append(r, s) \in Seq(Set)
         /\ Keys(Append(r, s)) = Append(Keys(r), Key(s))
         /\ ToSet(Append(r, s)) = ToSet(r) \cup {s}
<1>1. Append(r, s) \in Seq(Set) /\ Len(Append(r, s)) = Len(r) + 1 /\ Len(r) \in Nat
  OBVIOUS
<1>2. DOMAIN Append(r, s) = 1 .. Len(r) + 1 /\ DOMAIN r = 1 .. Len(r)
  OBVIOUS
<1>3. \A i \in 1 .. Len(r) + 1 : Append(r, s)[i] = IF i = Len(r) + 1 THEN s ELSE r[i]
  OBVIOUS
<1>4. Keys(Append(r, s)) = Append(Keys(r), Key(s))
  <2>1. Keys(r) \in Seq(Path) /\ Len(Keys(r)) = Len(r) /\ \A i \in 1 .. Len(r) : Keys(r)[i] = Key(r[i])
    BY KeysType, <1>2
  <2>2. Key(s) \in Path
    BY PoolAssumption
  <2>3. Append(Keys(r), Key(s)) \in Seq(Path) /\ Len(Append(Keys(r), Key(s))) = Len(r) + 1
    BY <2>1, <2>2
  <2>4. \A i \in 1 .. Len(r) + 1 :
          Append(Keys(r), Key(s))[i] = IF i = Len(r) + 1 THEN Key(s) ELSE Key(r[i])
    BY <2>1, <2>2
  <2>5. /\ Keys(Append(r, s)) \in Seq(Path) /\ Len(Keys(Append(r, s))) = Len(r) + 1
        /\ \A i \in 1 .. Len(r) + 1 : Keys(Append(r, s))[i] = Key(Append(r, s)[i])
    BY <1>1, <1>2, KeysType
  <2>6. \A i \in 1 .. Len(r) + 1 : Keys(Append(r, s))[i] = Append(Keys(r), Key(s))[i]
    BY <2>4, <2>5, <1>3
  <2> QED BY <2>3, <2>5, <2>6, <1>1
<1>5. ToSet(Append(r, s)) = ToSet(r) \cup {s}
  <2>1. \A t : t \in ToSet(Append(r, s)) <=> \E i \in 1 .. Len(r) + 1 : t = Append(r, s)[i]
    BY <1>2 DEF ToSet
  <2>2. \A t : t \in ToSet(r) <=> \E i \in 1 .. Len(r) : t = r[i]
    BY <1>2 DEF ToSet
  <2>3. ASSUME NEW t \in ToSet(Append(r, s)) PROVE t \in ToSet(r) \cup {s}
    <3>1. PICK i \in 1 .. Len(r) + 1 : t = Append(r, s)[i]
      BY <2>1, <2>3
    <3> QED BY <3>1, <1>3, <1>1, <2>2
  <2>4. ASSUME NEW t \in ToSet(r) \cup {s} PROVE t \in ToSet(Append(r, s))
    <3>1. CASE t = s
      BY <3>1, <1>3, <1>1, <2>1
    <3>2. CASE t \in ToSet(r)
      <4>1. PICK i \in 1 .. Len(r) : t = r[i]
        BY <3>2, <2>2
      <4> QED BY <4>1, <1>3, <1>1, <2>1
    <3> QED BY <3>1, <3>2
  <2> QED BY <2>3, <2>4
<1> QED BY <1>1, <1>4, <1>5

\* remove_if goes over the pool once.
LEMMA WithoutIsPass ==
  ASSUME NEW p \in Seq(Set), NEW gone
  PROVE  \E f : /\ f[1 .. 0] = <<>>
                /\ \A k \in 0 .. Len(p) - 1 :
                     f[1 .. k + 1] = IF p[k + 1] \in gone THEN f[1 .. k] ELSE Append(f[1 .. k], p[k + 1])
                /\ Without(p, gone) = f[1 .. Len(p)]
<1> DEFINE n == Len(p)
           V == Seq(Set)
           g == [i \in 1 .. n |-> [r \in V |-> IF p[i] \in gone THEN r ELSE Append(r, p[i])]]
           IsIter(f) == f = [T \in SUBSET (1 .. n) |-> IF T = {} THEN <<>>
                             ELSE IF p[Max(T)] \in gone THEN f[T \ {Max(T)}]
                                  ELSE Append(f[T \ {Max(T)}], p[Max(T)])]
           iter == CHOOSE f : IsIter(f)
<1>1. n \in Nat /\ DOMAIN p = 1 .. n /\ \A i \in 1 .. n : p[i] \in Set
  OBVIOUS
<1>2. g \in [1 .. n -> [V -> V]] /\ <<>> \in V
  BY <1>1
<1>3. PICK f \in [SUBSET (1 .. n) -> V] : IsPass(f, n, <<>>, g)
  <2> DEFINE z == <<>>
  <2>1. z \in V
    OBVIOUS
  <2> HIDE DEF g, V, n, z
  <2>2. \E f \in [SUBSET (1 .. n) -> V] : IsPass(f, n, z, g)
    BY <1>1, <1>2, <2>1, PassIsDefined
  <2> QED BY <2>2 DEF z
<1>4. ASSUME NEW T \in SUBSET (1 .. n), T # {} PROVE Max(T) \in 1 .. n /\ T \ {Max(T)} \in SUBSET (1 .. n)
  <2>1. Max(T) \in T
    BY <1>1, <1>4, LastOfPart
  <2> QED BY <2>1
<1>5. ASSUME NEW T \in SUBSET (1 .. n)
      PROVE f[T] = IF T = {} THEN <<>> ELSE IF p[Max(T)] \in gone THEN f[T \ {Max(T)}]
                                            ELSE Append(f[T \ {Max(T)}], p[Max(T)])
  <2>1. f[T] = IF T = {} THEN <<>> ELSE g[Max(T)][f[T \ {Max(T)}]]
    BY <1>3 DEF IsPass
  <2>2. ASSUME T # {}
        PROVE  g[Max(T)][f[T \ {Max(T)}]] = IF p[Max(T)] \in gone THEN f[T \ {Max(T)}]
                                            ELSE Append(f[T \ {Max(T)}], p[Max(T)])
    <3>1. Max(T) \in 1 .. n /\ f[T \ {Max(T)}] \in V
      BY <1>3, <1>4, <2>2, SMTT(30)
    <3> QED BY <3>1
  <2> QED BY <2>1, <2>2
<1>6. IsIter(f)
  <2>1. f = [T \in SUBSET (1 .. n) |-> f[T]]
    BY <1>3
  <2> QED BY <2>1, <1>5, Zenon
<1>7. IsIter(iter)
  BY <1>6
<1>8. Without(p, gone) = iter[1 .. n]
  BY <1>1 DEF Without, FoldLeft, MapThenFoldSet
<1>9. iter[1 .. 0] = <<>>
  <2>1. 1 .. 0 = {} /\ {} \in SUBSET (1 .. n)
    BY SMTT(30)
  <2>2. iter[{}] = <<>>
    BY <1>7, <2>1, ZenonT(40)
  <2> QED BY <2>1, <2>2
<1>10. ASSUME NEW k \in 0 .. n - 1
       PROVE  iter[1 .. k + 1] = IF p[k + 1] \in gone THEN iter[1 .. k] ELSE Append(iter[1 .. k], p[k + 1])
  <2>1. /\ 1 .. k + 1 \in SUBSET (1 .. n) /\ 1 .. k + 1 # {}
        /\ Max(1 .. k + 1) = k + 1 /\ (1 .. k + 1) \ {k + 1} = 1 .. k
    BY <1>1, LastOfInterval
  <2> QED BY <2>1, <1>7
<1> QED BY <1>8, <1>9, <1>10
\* The solver goes over its columns once, by position.
LEMMA DropIsPass ==
  ASSUME NEW q \in Seq(Path), NEW dels
  PROVE  \E f : /\ f[1 .. 0] = <<>>
                /\ \A k \in 0 .. Len(q) - 1 :
                     f[1 .. k + 1] = IF k + 1 \in dels THEN f[1 .. k] ELSE Append(f[1 .. k], q[k + 1])
                /\ DropPositions(q, dels) = f[1 .. Len(q)]
<1> DEFINE n == Len(q)
           V == Seq(Path)
           g == [i \in 1 .. n |-> [r \in V |-> IF i \in dels THEN r ELSE Append(r, q[i])]]
           at == [i \in DOMAIN q |-> i]
           IsIter(f) == f = [T \in SUBSET (1 .. n) |-> IF T = {} THEN <<>>
                             ELSE IF at[Max(T)] \in dels THEN f[T \ {Max(T)}]
                                  ELSE Append(f[T \ {Max(T)}], q[at[Max(T)]])]
           iter == CHOOSE f : IsIter(f)
<1>1. n \in Nat /\ DOMAIN q = 1 .. n /\ \A i \in 1 .. n : q[i] \in Path
  OBVIOUS
<1>2. g \in [1 .. n -> [V -> V]] /\ <<>> \in V
  BY <1>1
<1>3. PICK f \in [SUBSET (1 .. n) -> V] : IsPass(f, n, <<>>, g)
  <2> DEFINE z == <<>>
  <2>1. z \in V
    OBVIOUS
  <2> HIDE DEF g, V, n, z
  <2>2. \E f \in [SUBSET (1 .. n) -> V] : IsPass(f, n, z, g)
    BY <1>1, <1>2, <2>1, PassIsDefined
  <2> QED BY <2>2 DEF z
<1>4. ASSUME NEW T \in SUBSET (1 .. n), T # {} PROVE Max(T) \in 1 .. n /\ T \ {Max(T)} \in SUBSET (1 .. n)
  <2>1. Max(T) \in T
    BY <1>1, <1>4, LastOfPart
  <2> QED BY <2>1
<1>5. ASSUME NEW T \in SUBSET (1 .. n)
      PROVE f[T] = IF T = {} THEN <<>> ELSE IF at[Max(T)] \in dels THEN f[T \ {Max(T)}]
                                            ELSE Append(f[T \ {Max(T)}], q[at[Max(T)]])
  <2>1. f[T] = IF T = {} THEN <<>> ELSE g[Max(T)][f[T \ {Max(T)}]]
    BY <1>3 DEF IsPass
  <2>2. ASSUME T # {}
        PROVE  g[Max(T)][f[T \ {Max(T)}]] = IF at[Max(T)] \in dels THEN f[T \ {Max(T)}]
                                            ELSE Append(f[T \ {Max(T)}], q[at[Max(T)]])
    <3>1. Max(T) \in 1 .. n /\ f[T \ {Max(T)}] \in V /\ at[Max(T)] = Max(T)
      BY <1>1, <1>3, <1>4, <2>2
    <3> QED BY <3>1
  <2> QED BY <2>1, <2>2
<1>6. IsIter(f)
  <2>1. f = [T \in SUBSET (1 .. n) |-> f[T]]
    BY <1>3, SMTT(30)
  <2> QED BY <2>1, <1>5, Zenon
<1>7. IsIter(iter)
  BY <1>6, ZenonT(40)
<1>8. DropPositions(q, dels) = iter[1 .. n]
  <2>1. DOMAIN at = 1 .. n
    BY <1>1
  <2> QED BY <2>1 DEF DropPositions, FoldLeftDomain, FoldLeft, MapThenFoldSet
<1>9. iter[1 .. 0] = <<>>
  <2>1. 1 .. 0 = {} /\ {} \in SUBSET (1 .. n)
    OBVIOUS
  <2>2. iter[{}] = <<>>
    BY <1>7, <2>1
  <2> QED BY <2>1, <2>2
<1>10. ASSUME NEW k \in 0 .. n - 1
       PROVE  iter[1 .. k + 1] = IF k + 1 \in dels THEN iter[1 .. k] ELSE Append(iter[1 .. k], q[k + 1])
  <2>1. /\ 1 .. k + 1 \in SUBSET (1 .. n) /\ 1 .. k + 1 # {}
        /\ Max(1 .. k + 1) = k + 1 /\ (1 .. k + 1) \ {k + 1} = 1 .. k
    BY <1>1, LastOfInterval
  <2>2. at[k + 1] = k + 1
    BY <1>1
  <2>3. ASSUME NEW T \in SUBSET (1 .. n), T # {}
        PROVE  iter[T] = IF at[Max(T)] \in dels THEN iter[T \ {Max(T)}]
                         ELSE Append(iter[T \ {Max(T)}], q[at[Max(T)]])
    <3> HIDE DEF iter, at
    <3> QED BY <1>7, <2>3
  <2> HIDE DEF iter, at
  <2> QED BY <2>1, <2>2, <2>3
<1> QED BY <1>8, <1>9, <1>10

\* What the two passes leave is the same, schedule by column.
LEMMA PassesAgree ==
  ASSUME NEW p \in Seq(Set), NEW gone
  PROVE  /\ Without(p, gone) \in Seq(Set)
         /\ DropPositions(Keys(p), DelList(p, gone)) = Keys(Without(p, gone))
         /\ ToSet(Without(p, gone)) = ToSet(p) \ gone
<1> DEFINE n == Len(p)
<1>1. n \in Nat /\ DOMAIN p = 1 .. n /\ \A i \in 1 .. n : p[i] \in Set
  OBVIOUS
<1>2. /\ Keys(p) \in Seq(Path) /\ Len(Keys(p)) = n
      /\ \A i \in 1 .. n : Keys(p)[i] = Key(p[i])
  BY <1>1, KeysType
<1>3. PICK f : /\ f[1 .. 0] = <<>>
               /\ \A k \in 0 .. n - 1 :
                    f[1 .. k + 1] = IF p[k + 1] \in gone THEN f[1 .. k] ELSE Append(f[1 .. k], p[k + 1])
               /\ Without(p, gone) = f[1 .. n]
  BY WithoutIsPass
<1>4. PICK h : /\ h[1 .. 0] = <<>>
               /\ \A k \in 0 .. n - 1 :
                    h[1 .. k + 1] = IF k + 1 \in DelList(p, gone) THEN h[1 .. k]
                                    ELSE Append(h[1 .. k], Keys(p)[k + 1])
               /\ DropPositions(Keys(p), DelList(p, gone)) = h[1 .. n]
  BY <1>2, DropIsPass
<1> DEFINE Same(k) == /\ f[1 .. k] \in Seq(Set) /\ h[1 .. k] = Keys(f[1 .. k])
                      /\ ToSet(f[1 .. k]) = {p[i] : i \in 1 .. k} \ gone
           N == {k \in Nat : k <= n => Same(k)}
<1>5. 0 \in N
  <2>1. <<>> \in Seq(Set) /\ Keys(<<>>) = <<>> /\ ToSet(<<>>) = {}
    BY DEF Keys, ToSet
  <2>2. {p[i] : i \in 1 .. 0} = {}
    OBVIOUS
  <2>3. Same(0)
    BY <1>3, <1>4, <2>1, <2>2
  <2> QED BY <2>3
<1>6. ASSUME NEW k \in N, k \in Nat PROVE k + 1 \in N
  <2> SUFFICES ASSUME k + 1 <= n PROVE Same(k + 1)
    OBVIOUS
  <2>1. k \in 0 .. n - 1 /\ k + 1 \in 1 .. n /\ Same(k)
    BY <1>1, <1>6
  <2>2. p[k + 1] \in Set /\ Keys(p)[k + 1] = Key(p[k + 1]) /\ (k + 1 \in DelList(p, gone) <=> p[k + 1] \in gone)
    BY <1>1, <1>2, <2>1 DEF DelList
  <2>3. f[1 .. k + 1] = IF p[k + 1] \in gone THEN f[1 .. k] ELSE Append(f[1 .. k], p[k + 1])
    BY <1>3, <2>1
  <2>4. h[1 .. k + 1] = IF p[k + 1] \in gone THEN h[1 .. k] ELSE Append(h[1 .. k], Key(p[k + 1]))
    BY <1>4, <2>1, <2>2
  <2>5. {p[i] : i \in 1 .. k + 1} = {p[i] : i \in 1 .. k} \cup {p[k + 1]}
    <3>1. 1 .. k + 1 = (1 .. k) \cup {k + 1}
      BY <2>1
    <3> QED BY <3>1
  <2>6. CASE p[k + 1] \in gone
    <3>1. f[1 .. k + 1] = f[1 .. k] /\ h[1 .. k + 1] = h[1 .. k]
      BY <2>3, <2>4, <2>6
    <3>2. {p[i] : i \in 1 .. k + 1} \ gone = {p[i] : i \in 1 .. k} \ gone
      BY <2>5, <2>6
    <3> QED BY <2>1, <3>1, <3>2
  <2>7. CASE p[k + 1] \notin gone
    <3>1. f[1 .. k + 1] = Append(f[1 .. k], p[k + 1]) /\ h[1 .. k + 1] = Append(h[1 .. k], Key(p[k + 1]))
      BY <2>3, <2>4, <2>7
    <3>2. /\ Append(f[1 .. k], p[k + 1]) \in Seq(Set)
          /\ Keys(Append(f[1 .. k], p[k + 1])) = Append(Keys(f[1 .. k]), Key(p[k + 1]))
          /\ ToSet(Append(f[1 .. k], p[k + 1])) = ToSet(f[1 .. k]) \cup {p[k + 1]}
      BY <2>1, <2>2, AppendSchedule
    <3>3. {p[i] : i \in 1 .. k + 1} \ gone = ({p[i] : i \in 1 .. k} \ gone) \cup {p[k + 1]}
      BY <2>5, <2>7
    <3> QED BY <2>1, <3>1, <3>2, <3>3
  <2> QED BY <2>6, <2>7
<1>7. Same(n)
  <2>1. \A k \in Nat : k \in N
    <3> HIDE DEF N
    <3> QED BY <1>5, <1>6, NatSetInduction
  <2>2. n \in N
    BY <2>1, <1>1
  <2> QED BY <2>2
<1>8. ToSet(p) = {p[i] : i \in 1 .. n}
  BY <1>1 DEF ToSet
<1> QED BY <1>3, <1>4, <1>7, <1>8

\* prune_duplicated_sets leaves a schedule for every job list of the pool.
LEMMA PruningKeeps ==
  ASSUME NEW p \in Seq(Set), NEW q \in Prunings(p)
  PROVE  q \in Seq(Set) /\ ToSet(Keys(q)) = ToSet(Keys(p))
<1>1. IsFiniteSet(ToSet(Keys(p)))
  <2>1. IsFiniteSet(1 .. Len(p)) /\ DOMAIN Keys(p) = 1 .. Len(p)
    BY FS_Interval, KeysType
  <2>2. IsFiniteSet({Keys(p)[i] : i \in 1 .. Len(p)})
    BY <2>1, FiniteImage
  <2> QED BY <2>1, <2>2 DEF ToSet
<1>2. Cardinality(ToSet(Keys(p))) \in Nat
  BY <1>1, FS_CardinalityType
<1>3. ToSet(p) \subseteq Set
  BY DEF ToSet
<1>4. q \in [1 .. Cardinality(ToSet(Keys(p))) -> Set]
  BY <1>3 DEF Prunings
<1>5. q \in Seq(Set)
  BY <1>2, <1>4
<1> QED BY <1>5 DEF Prunings

\* A pool's schedules are finitely many.
LEMMA FinitePool ==
  ASSUME NEW p \in Seq(Set)
  PROVE  IsFiniteSet(ToSet(p)) /\ ToSet(p) \subseteq Set
<1>1. IsFiniteSet(1 .. Len(p)) /\ DOMAIN p = 1 .. Len(p)
  BY FS_Interval
<1>2. IsFiniteSet({p[i] : i \in 1 .. Len(p)})
  BY <1>1, FiniteImage
<1>3. ToSet(p) = {p[i] : i \in 1 .. Len(p)}
  BY <1>1 DEF ToSet
<1>4. \A i \in 1 .. Len(p) : p[i] \in Set
  OBVIOUS
<1> QED BY <1>2, <1>3, <1>4
------------------------------------------------------------------------------
(* What the handlers do to pool and master. *)

LEMMA SolveType ==
  ASSUME TypeOK, pool' \in [Node -> Seq(Set)], NEW n \in Node, NEW z \in Nat, Solve(n, z)
  PROVE  zero' \in [Node -> Nat] /\ age' \in [Set -> Nat]
<1>1. PICK basic \in SUBSET (DOMAIN master'[n]) : GrowAges(n, z, basic)
  BY DEF Solve
<1>2. age' \in [Set -> Nat]
  <2>1. \A s \in Set : age[s] \in Nat /\ Older(age[s]) \in Nat
    BY DEF TypeOK, Older
  <2> QED BY <1>1, <2>1 DEF GrowAges
<1>3. Cardinality({s \in ToSet(pool'[n]) : age'[s] > Retirement}) \in Nat
  <2>1. IsFiniteSet(ToSet(pool'[n]))
    BY FinitePool
  <2>2. IsFiniteSet({s \in ToSet(pool'[n]) : age'[s] > Retirement})
    BY <2>1, FS_Subset
  <2> QED BY <2>2, FS_CardinalityType
<1>4. zero' \in [Node -> Nat]
  BY <1>1, <1>3 DEF GrowAges, TypeOK
<1> QED BY <1>2, <1>4

LEMMA RemovalAligned ==
  ASSUME TypeOK, NEW n \in Node, NEW gone, master[n] = Keys(pool[n]), RemoveSchedules(n, gone)
  PROVE  /\ pool' \in [Node -> Seq(Set)] /\ master' \in [Node -> Seq(Path)]
         /\ master'[n] = Keys(pool'[n])
         /\ ToSet(pool'[n]) = ToSet(pool[n]) \ gone
         /\ \A m \in Node \ {n} : pool'[m] = pool[m] /\ master'[m] = master[m]
<1>1. pool[n] \in Seq(Set)
  BY DEF TypeOK
<1>2. /\ Without(pool[n], gone) \in Seq(Set)
      /\ DropPositions(Keys(pool[n]), DelList(pool[n], gone)) = Keys(Without(pool[n], gone))
      /\ ToSet(Without(pool[n], gone)) = ToSet(pool[n]) \ gone
  BY <1>1, PassesAgree
<1>3. Keys(Without(pool[n], gone)) \in Seq(Path)
  BY <1>2, KeysType
<1>4. pool'[n] = Without(pool[n], gone) /\ master'[n] = Keys(Without(pool[n], gone))
  BY <1>2 DEF RemoveSchedules, TypeOK
<1> QED BY <1>2, <1>3, <1>4 DEF RemoveSchedules, TypeOK

LEMMA CleaningAligned ==
  ASSUME TypeOK, NEW n \in Node, master[n] = Keys(pool[n]), CheckAndDelete(n)
  PROVE  /\ pool' \in [Node -> Seq(Set)] /\ master' \in [Node -> Seq(Path)]
         /\ zero' \in [Node -> Nat] /\ age' \in [Set -> Nat] /\ del' \in [Set -> BOOLEAN]
         /\ master'[n] = Keys(pool'[n])
         /\ ToSet(pool'[n]) = {s \in ToSet(pool[n]) : Key(s) \in diagram'[n]}
         /\ \A m \in Node \ {n} : pool'[m] = pool[m] /\ master'[m] = master[m]
<1> DEFINE gone == {s \in Set : ~del'[s]}
<1>1. del' = Checked(n) /\ RemoveSchedules(n, gone)
  BY DEF CheckAndDelete
<1>2. /\ pool' \in [Node -> Seq(Set)] /\ master' \in [Node -> Seq(Path)]
      /\ master'[n] = Keys(pool'[n])
      /\ ToSet(pool'[n]) = ToSet(pool[n]) \ gone
      /\ \A m \in Node \ {n} : pool'[m] = pool[m] /\ master'[m] = master[m]
  <2> HIDE DEF gone
  <2> QED BY <1>1, RemovalAligned
<1>3. ToSet(pool[n]) \subseteq Set
  BY FinitePool DEF TypeOK
<1>4. \A s \in ToSet(pool[n]) : s \in gone <=> Key(s) \notin diagram'[n]
  BY <1>1, <1>3 DEF Checked
<1>5. del' \in [Set -> BOOLEAN]
  <2>1. ASSUME NEW s \in Set
        PROVE  (IF s \in ToSet(pool[n]) THEN Key(s) \in diagram'[n] ELSE del[s]) \in BOOLEAN
    <3>1. del[s] \in BOOLEAN
      BY DEF TypeOK
    <3>2. (Key(s) \in diagram'[n]) \in BOOLEAN
      OBVIOUS
    <3> QED BY <3>1, <3>2, Zenon
  <2> QED BY <1>1, <2>1 DEF Checked
<1>6. zero' \in [Node -> Nat] /\ age' \in [Set -> Nat]
  <2>1. CASE pool'[n] = pool[n]
    <3>1. zero' = [zero EXCEPT ![n] = 0] /\ age' = age
      BY <2>1, Zenon DEF CheckAndDelete
    <3> QED BY <3>1 DEF TypeOK
  <2>2. CASE pool'[n] # pool[n]
    <3>1. Solve(n, 0) /\ 0 \in Nat
      BY <2>2 DEF CheckAndDelete
    <3> QED BY <1>2, <3>1, SolveType
  <2> QED BY <2>1, <2>2
<1>7. ToSet(pool'[n]) = {s \in ToSet(pool[n]) : Key(s) \in diagram'[n]}
  <2> HIDE DEF gone
  <2> QED BY <1>2, <1>4
<1> QED BY <1>2, <1>5, <1>6, <1>7

\* While a node solves its master its status is never the solver's GRB_OPTIMAL, so
\* that columns that have grown old stay.
LEMMA RelaxKeeps ==
  ASSUME TypeOK, NEW n \in Node, Relax(n)
  PROVE  /\ UNCHANGED <<pool, master, diagram, del, used>>
         /\ pc[n] = "loop" /\ pc' = [pc EXCEPT ![n] = "solved"]
         /\ solves' = [solves EXCEPT ![n] = @ + 1] /\ Solve(n, zero[n])
<1>1. Status(n) # GrbOptimal
  BY DEF Relax, Status, GrbOptimal
<1> QED BY <1>1 DEF Relax
------------------------------------------------------------------------------
(* Positions stay aligned. *)

LEMMA InitInv == Init => IInv
<1> SUFFICES ASSUME Init PROVE IInv
  OBVIOUS
<1>1. PICK p \in {<<s, t>> : s \in Set, t \in Set} \cup {<<s, t, u>> : s \in Set, t \in Set, u \in Set} :
        /\ pool = [n \in Node |-> IF n = Root THEN p ELSE <<>>]
        /\ used = ToSet(p)
  BY DEF Init
<1>2. p \in Seq(Set)
  <2>1. CASE p \in {<<s, t>> : s \in Set, t \in Set}
    <3>1. PICK s \in Set, t \in Set : p = <<s, t>>
      BY <2>1
    <3>2. <<s, t>> \in Seq(Set)
      OBVIOUS
    <3> QED BY <3>1, <3>2
  <2>2. CASE p \in {<<s, t, u>> : s \in Set, t \in Set, u \in Set}
    <3>1. PICK s \in Set, t \in Set, u \in Set : p = <<s, t, u>>
      BY <2>2
    <3>2. <<s, t, u>> \in Seq(Set)
      OBVIOUS
    <3> QED BY <3>1, <3>2
  <2> QED BY <2>1, <2>2
<1>3. used \subseteq Set
  BY <1>1, <1>2, FinitePool
<1>4. pool \in [Node -> Seq(Set)]
  BY <1>1, <1>2
<1>5. master \in [Node -> Seq(Path)] /\ diagram \in [Node -> SUBSET Path]
  BY DEF Init
<1>6. TypeOK
  BY <1>3, <1>4, <1>5 DEF Init, TypeOK
<1>7. NoneYet /\ PositionsAligned
  BY <1>1 DEF Init, NoneYet, PositionsAligned
<1> QED BY <1>6, <1>7 DEF IInv

LEMMA BuildInv == ASSUME IInv, NEW n \in Node, Build(n) PROVE IInv'
<1>1. PICK q \in Prunings(pool[n]) : /\ pool' = [pool EXCEPT ![n] = q]
                                     /\ master' = [master EXCEPT ![n] = Keys(q)]
  BY DEF Build
<1>2. q \in Seq(Set) /\ Keys(q) \in Seq(Path)
  BY PruningKeeps, KeysType DEF IInv, TypeOK
<1>3. TypeOK'
  BY <1>1, <1>2 DEF IInv, TypeOK, Build
<1>4. NoneYet' /\ PositionsAligned'
  BY <1>1, <1>2 DEF IInv, TypeOK, Build, NoneYet, PositionsAligned
<1> QED BY <1>3, <1>4 DEF IInv

LEMMA EnterInv == ASSUME IInv, NEW n \in Node, Enter(n) PROVE IInv'
<1>1. master[n] = Keys(pool[n])
  BY DEF IInv, Enter, PositionsAligned
<1>2. /\ pool' \in [Node -> Seq(Set)] /\ master' \in [Node -> Seq(Path)]
      /\ zero' \in [Node -> Nat] /\ age' \in [Set -> Nat] /\ del' \in [Set -> BOOLEAN]
      /\ master'[n] = Keys(pool'[n])
      /\ \A m \in Node \ {n} : pool'[m] = pool[m] /\ master'[m] = master[m]
  BY <1>1, CleaningAligned DEF IInv, Enter
<1>3. TypeOK'
  BY <1>2 DEF IInv, TypeOK, Enter
<1>4. NoneYet' /\ PositionsAligned'
  BY <1>2 DEF IInv, TypeOK, Enter, NoneYet, PositionsAligned
<1> QED BY <1>3, <1>4 DEF IInv

LEMMA RelaxInv == ASSUME IInv, NEW n \in Node, Relax(n) PROVE IInv'
<1>1. /\ UNCHANGED <<pool, master, diagram, del, used>>
      /\ pc[n] = "loop" /\ pc' = [pc EXCEPT ![n] = "solved"]
      /\ solves' = [solves EXCEPT ![n] = @ + 1] /\ Solve(n, zero[n])
  BY RelaxKeeps DEF IInv
<1>2. zero' \in [Node -> Nat] /\ age' \in [Set -> Nat]
  <2>1. pool' \in [Node -> Seq(Set)] /\ zero[n] \in Nat
    BY <1>1 DEF IInv, TypeOK
  <2> QED BY <1>1, <2>1, SolveType DEF IInv
<1>3. TypeOK'
  <2>1. solves' \in [Node -> Nat]
    BY <1>1 DEF IInv, TypeOK
  <2>2. pc' \in [Node -> {"none", "ready", "entry", "loop", "solved", "done"}]
    BY <1>1 DEF IInv, TypeOK
  <2> QED BY <1>1, <1>2, <2>1, <2>2 DEF IInv, TypeOK
<1>4. NoneYet' /\ PositionsAligned'
  BY <1>1 DEF IInv, TypeOK, NoneYet, PositionsAligned
<1> QED BY <1>3, <1>4 DEF IInv

LEMMA AddColumnInv == ASSUME IInv, NEW n \in Node, AddColumn(n) PROVE IInv'
<1>1. PICK s \in Set : /\ pool' = [pool EXCEPT ![n] = Append(@, s)]
                       /\ master' = [master EXCEPT ![n] = Append(@, Key(s))]
                       /\ used' = used \cup {s}
  BY DEF AddColumn
<1>2. /\ Append(pool[n], s) \in Seq(Set)
      /\ Keys(Append(pool[n], s)) = Append(Keys(pool[n]), Key(s))
  BY AppendSchedule DEF IInv, TypeOK
<1>3. master[n] = Keys(pool[n]) /\ Append(master[n], Key(s)) \in Seq(Path)
  <2>1. master[n] \in Seq(Path) /\ Key(s) \in Path
    BY PoolAssumption DEF IInv, TypeOK
  <2> QED BY <2>1 DEF IInv, AddColumn, PositionsAligned
<1>4. TypeOK'
  BY <1>1, <1>2, <1>3 DEF IInv, TypeOK, AddColumn
<1>5. NoneYet' /\ PositionsAligned'
  BY <1>1, <1>2, <1>3 DEF IInv, TypeOK, AddColumn, NoneYet, PositionsAligned
<1> QED BY <1>4, <1>5 DEF IInv

LEMMA FixInv == ASSUME IInv, NEW n \in Node, Fix(n) PROVE IInv'
<1>1. master[n] = Keys(pool[n])
  BY DEF IInv, Fix, PositionsAligned
<1>2. /\ pool' \in [Node -> Seq(Set)] /\ master' \in [Node -> Seq(Path)]
      /\ zero' \in [Node -> Nat] /\ age' \in [Set -> Nat] /\ del' \in [Set -> BOOLEAN]
      /\ master'[n] = Keys(pool'[n])
      /\ \A m \in Node \ {n} : pool'[m] = pool[m] /\ master'[m] = master[m]
  BY <1>1, CleaningAligned DEF IInv, Fix
<1>3. diagram' \in [Node -> SUBSET Path]
  <2>1. PICK d \in SUBSET diagram[n] : diagram' = [diagram EXCEPT ![n] = d]
    BY DEF Fix
  <2> QED BY <2>1 DEF IInv, TypeOK
<1>4. TypeOK'
  BY <1>2, <1>3 DEF IInv, TypeOK, Fix
<1>5. NoneYet' /\ PositionsAligned'
  BY <1>2 DEF IInv, TypeOK, Fix, NoneYet, PositionsAligned
<1> QED BY <1>4, <1>5 DEF IInv

LEMMA CloneInv == ASSUME IInv, NEW n \in Node, NEW child \in Node, Clone(n, child) PROVE IInv'
<1>1. diagram' \in [Node -> SUBSET Path]
  <2>1. PICK d \in SUBSET diagram[n] : diagram' = [diagram EXCEPT ![child] = d]
    BY DEF Clone
  <2> QED BY <2>1 DEF IInv, TypeOK
<1>2. TypeOK'
  BY <1>1 DEF IInv, TypeOK, Clone
<1>3. NoneYet' /\ PositionsAligned'
  BY DEF IInv, TypeOK, Clone, NoneYet, PositionsAligned
<1> QED BY <1>2, <1>3 DEF IInv

LEMMA NextInv == IInv /\ [Next]_vars => IInv'
<1> SUFFICES ASSUME IInv, [Next]_vars PROVE IInv'
  OBVIOUS
<1>1. CASE \E n \in Node : Return(n)
  BY <1>1 DEF Return, IInv, TypeOK, NoneYet, PositionsAligned
<1>2. CASE UNCHANGED vars
  BY <1>2 DEF IInv, TypeOK, NoneYet, PositionsAligned
<1> QED BY <1>1, <1>2, BuildInv, EnterInv, RelaxInv, AddColumnInv, FixInv, CloneInv DEF Next

\* What each step of a node keeps, on which the theorems below rest.
THEOREM Invariance == Spec => []IInv
BY InitInv, NextInv, PTL DEF Spec

\* Pools and masters stay sequences of schedules and of their job lists.
THEOREM TypeCorrect == Spec => []TypeOK
<1>1. IInv => TypeOK
  BY DEF IInv
<1> QED BY Invariance, <1>1, PTL

\* Position i of the pool is column i of the master: what remove_if takes out of the
\* one, delete_cols_array takes out of the other.
THEOREM Aligned == Spec => []PositionsAligned
<1>1. IInv => PositionsAligned
  BY DEF IInv
<1> QED BY Invariance, <1>1, PTL
------------------------------------------------------------------------------
(* Paths stay in the pool. *)

LEMMA KeptSame ==
  ASSUME TypeOK, NEW m \in Node, pool'[m] = pool[m]
  PROVE  ToSet(Keys(pool[m])) \cap diagram'[m] \subseteq ToSet(Keys(pool'[m]))
OBVIOUS

LEMMA KeptByCleaning ==
  ASSUME IInv, NEW n \in Node, CheckAndDelete(n), master[n] = Keys(pool[n]), NEW m \in Node
  PROVE  ToSet(Keys(pool[m])) \cap diagram'[m] \subseteq ToSet(Keys(pool'[m]))
<1>1. /\ pool' \in [Node -> Seq(Set)]
      /\ ToSet(pool'[n]) = {s \in ToSet(pool[n]) : Key(s) \in diagram'[n]}
      /\ \A l \in Node \ {n} : pool'[l] = pool[l]
  BY CleaningAligned DEF IInv
<1>2. CASE m = n
  <2>1. ToSet(Keys(pool[n])) = {Key(s) : s \in ToSet(pool[n])}
    BY KeysType DEF IInv, TypeOK
  <2>2. ToSet(Keys(pool'[n])) = {Key(s) : s \in ToSet(pool'[n])}
    BY <1>1, KeysType
  <2> QED BY <1>1, <1>2, <2>1, <2>2
<1>3. CASE m # n
  BY <1>1, <1>3
<1> QED BY <1>2, <1>3

LEMMA KeptByStep ==
  ASSUME IInv, [Next]_vars, NEW m \in Node
  PROVE  ToSet(Keys(pool[m])) \cap diagram'[m] \subseteq ToSet(Keys(pool'[m]))
<1> DEFINE Kept == ToSet(Keys(pool[m])) \cap diagram'[m] \subseteq ToSet(Keys(pool'[m]))
<1>1. ASSUME NEW n \in Node, Build(n) PROVE Kept
  <2>1. PICK q \in Prunings(pool[n]) : pool' = [pool EXCEPT ![n] = q]
    BY <1>1 DEF Build
  <2>2. ToSet(Keys(q)) = ToSet(Keys(pool[n]))
    BY PruningKeeps DEF IInv, TypeOK
  <2>3. pool'[m] = IF m = n THEN q ELSE pool[m]
    BY <2>1 DEF IInv, TypeOK
  <2> QED BY <2>2, <2>3
<1>2. ASSUME NEW n \in Node, Enter(n) \/ Fix(n) PROVE Kept
  <2>1. CheckAndDelete(n) /\ master[n] = Keys(pool[n])
    BY <1>2 DEF Enter, Fix, IInv, PositionsAligned
  <2> QED BY <2>1, KeptByCleaning
<1>3. ASSUME NEW n \in Node, Relax(n) PROVE Kept
  <2>1. pool' = pool
    BY <1>3, RelaxKeeps DEF IInv
  <2> QED BY <2>1
<1>4. ASSUME NEW n \in Node, AddColumn(n) PROVE Kept
  <2>1. PICK s \in Set : pool' = [pool EXCEPT ![n] = Append(@, s)]
    BY <1>4 DEF AddColumn
  <2>2. /\ Append(pool[n], s) \in Seq(Set)
        /\ ToSet(Append(pool[n], s)) = ToSet(pool[n]) \cup {s}
    BY AppendSchedule DEF IInv, TypeOK
  <2>3. /\ ToSet(Keys(Append(pool[n], s))) = {Key(t) : t \in ToSet(Append(pool[n], s))}
        /\ ToSet(Keys(pool[n])) = {Key(t) : t \in ToSet(pool[n])}
    BY <2>2, KeysType DEF IInv, TypeOK
  <2>4. ToSet(Keys(pool[n])) \subseteq ToSet(Keys(Append(pool[n], s)))
    BY <2>2, <2>3
  <2>5. pool'[m] = IF m = n THEN Append(pool[n], s) ELSE pool[m]
    BY <2>1 DEF IInv, TypeOK
  <2> QED BY <2>4, <2>5
<1>5. ASSUME NEW n \in Node, Return(n) PROVE Kept
  BY <1>5 DEF Return
<1>6. ASSUME NEW n \in Node, NEW child \in Node, Clone(n, child) PROVE Kept
  <2>1. pool[child] = <<>> /\ pool' = [pool EXCEPT ![child] = pool[n]]
    BY <1>6 DEF Clone, IInv, NoneYet
  <2>2. ToSet(Keys(<<>>)) = {}
    BY DEF Keys, ToSet
  <2>3. pool'[m] = IF m = child THEN pool[n] ELSE pool[m]
    BY <2>1 DEF IInv, TypeOK
  <2> QED BY <2>1, <2>2, <2>3
<1>7. CASE UNCHANGED vars
  BY <1>7
<1> QED BY <1>1, <1>2, <1>3, <1>4, <1>5, <1>6, <1>7 DEF Next

\* A schedule that is a path of a node's diagram stays in its pool, whatever the
\* other nodes do to the flags and ages the nodes share.
THEOREM PathsKept == Spec => PathsAreKept
<1>1. IInv /\ [Next]_vars =>
        [\A n \in Node : ToSet(Keys(pool[n])) \cap diagram'[n] \subseteq ToSet(Keys(pool'[n]))]_vars
  BY KeptByStep
<1> QED BY Invariance, <1>1, PTL DEF Spec, PathsAreKept
===================================================================================
