-------------------------- MODULE PreprocessingProofs --------------------------
(***************************************************************************)
(* Proofs about Instance, for every file: raising due dates costs nothing, *)
(* the intervals part the horizon, and what the solver is given is an      *)
(* instance in the sense DecisionDiagram assumes.  The loops over jobs and *)
(* intervals are folds; what each computes is shown turn by turn           *)
(* (IterationIsDefined of FiniteSums), by a predicate of the jobs done and *)
(* the value so far: IsOrder of sorting, IsCoarse of the first loop of     *)
(* find_division, LayersWith and LayersUpTo of the layers.                 *)
(***************************************************************************)
EXTENDS Instance, FiniteSums

------------------------------------------------------------------------------
(* Sorting puts each job in its place once. *)

JobType == [p : Nat \ {0}, d : Nat, w : Nat \ {0}]

\* s holds each of 1 .. k once.
IsOrder(s, k) ==
  /\ s \in Seq(1 .. k) /\ Len(s) = k
  /\ \A x \in 1 .. k : \E i \in 1 .. k : s[i] = x
  /\ \A i, j \in 1 .. k : s[i] = s[j] => i = j

Slot(R, s, x) == Min({i \in DOMAIN s : R[x, s[i]]} \cup {Len(s) + 1})
Put(R, s, x) == InsertAt(s, Slot(R, s, x), x)

\* An element joins an order at the end of it or before one of it.
LEMMA SlotFacts ==
  ASSUME NEW R, NEW s, NEW k \in Nat, s \in Seq(Nat), Len(s) = k, NEW x
  PROVE  Slot(R, s, x) \in 1 .. k + 1
<1> DEFINE B == {i \in DOMAIN s : R[x, s[i]]}
           S == B \cup {Len(s) + 1}
<1>1. DOMAIN s = 1 .. k
  OBVIOUS
<1>2. S \subseteq 1 .. k + 1 /\ k + 1 \in S
  <2>1. B \subseteq 1 .. k
    BY <1>1
  <2> HIDE DEF B
  <2> QED BY <2>1
<1>3. IsFiniteSet(1 .. k + 1) /\ 1 .. k + 1 \subseteq Int
  BY FS_Interval
<1>4. Slot(R, s, x) = Min(S)
  BY DEF Slot
<1> HIDE DEF S
<1>5. IsFiniteSet(S) /\ S # {} /\ S \in SUBSET Int
  BY <1>2, <1>3, FS_Subset
<1>6. Min(S) \in S
  BY <1>5, MinIsLeast
<1> QED BY <1>2, <1>4, <1>6

LEMMA InsertFacts ==
  ASSUME NEW T, NEW s \in Seq(T), NEW x \in T, NEW j \in 1 .. Len(s) + 1
  PROVE  /\ InsertAt(s, j, x) \in Seq(T) /\ Len(InsertAt(s, j, x)) = Len(s) + 1
         /\ \A i \in 1 .. Len(s) + 1 :
              InsertAt(s, j, x)[i] = IF i < j THEN s[i] ELSE IF i = j THEN x ELSE s[i - 1]
<1> DEFINE A == SubSeq(s, 1, j - 1)
           B == SubSeq(s, j, Len(s))
<1>0. Len(s) \in Nat /\ \A i \in 1 .. Len(s) : s[i] \in T
  OBVIOUS
<1>1. A \in Seq(T) /\ Len(A) = j - 1 /\ \A i \in 1 .. j - 1 : A[i] = s[i]
  BY <1>0
<1>2. B \in Seq(T) /\ Len(B) = Len(s) - j + 1 /\ \A i \in 1 .. Len(s) - j + 1 : B[i] = s[j + i - 1]
  BY <1>0
<1>3. <<x>> \in Seq(T) /\ Len(<<x>>) = 1 /\ <<x>>[1] = x
  OBVIOUS
<1>4. InsertAt(s, j, x) = A \o <<x>> \o B
  BY DEF InsertAt
<1> HIDE DEF A, B
<1> DEFINE C == A \o <<x>>
<1>5. C \in Seq(T) /\ Len(C) = j /\ \A i \in 1 .. j : C[i] = IF i < j THEN s[i] ELSE x
  BY <1>1, <1>3
<1> HIDE DEF C
<1>6. C \o B \in Seq(T) /\ Len(C \o B) = Len(s) + 1
  <2>1. C \o B \in Seq(T) /\ Len(C \o B) = Len(C) + Len(B)
    BY <1>2, <1>5
  <2>2. Len(C) + Len(B) = Len(s) + 1
    BY <1>0, <1>2, <1>5
  <2> QED BY <2>1, <2>2
<1>7. ASSUME NEW i \in 1 .. Len(s) + 1
      PROVE (C \o B)[i] = IF i < j THEN s[i] ELSE IF i = j THEN x ELSE s[i - 1]
  <2>0. i \in Int /\ j \in Int /\ Len(s) \in Nat
    BY <1>0
  <2>1. CASE i <= j
    <3>1. i \in 1 .. j
      BY <2>0, <2>1
    <3>2. (C \o B)[i] = C[i]
      BY <1>2, <1>5, <3>1
    <3>3. C[i] = IF i < j THEN s[i] ELSE x
      BY <1>5, <3>1
    <3>4. i < j \/ i = j
      BY <2>0, <2>1
    <3> QED BY <3>2, <3>3, <3>4, <2>0
  <2>2. CASE i > j
    <3>1. (C \o B)[i] = B[i - j]
      BY <2>2, <1>0, <1>2, <1>5
    <3>2. i - j \in 1 .. Len(s) - j + 1 /\ j + (i - j) - 1 = i - 1
      BY <2>2, <1>0
    <3>3. B[i - j] = s[j + (i - j) - 1]
      BY <1>2, <3>2
    <3> QED BY <2>2, <3>1, <3>2, <3>3
  <2>3. i <= j \/ i > j
    BY <2>0
  <2> QED BY <2>1, <2>2, <2>3, Zenon
<1> QED BY <1>4, <1>6, <1>7 DEF C

\* The order of 1 .. k gets one of 1 .. k + 1, ...
LEMMA OrderGrows ==
  ASSUME NEW R, NEW k \in Nat, NEW s, IsOrder(s, k)
  PROVE  IsOrder(Put(R, s, k + 1), k + 1)
<1> DEFINE x == k + 1
           j == Slot(R, s, x)
           t == InsertAt(s, j, x)
<1>1. s \in Seq(1 .. k) /\ Len(s) = k /\ s \in Seq(Nat)
  BY DEF IsOrder
<1>2. s \in Seq(1 .. k + 1) /\ x \in 1 .. k + 1
  BY <1>1
<1>3. j \in 1 .. k + 1
  BY <1>1, SlotFacts
<1> HIDE DEF j
<1>4. /\ t \in Seq(1 .. k + 1) /\ Len(t) = k + 1
      /\ \A i \in 1 .. k + 1 : t[i] = IF i < j THEN s[i] ELSE IF i = j THEN x ELSE s[i - 1]
  <2> DEFINE U == 1 .. k + 1
  <2>1. s \in Seq(U) /\ x \in U /\ j \in 1 .. Len(s) + 1 /\ Len(s) + 1 = k + 1
    BY <1>1, <1>2, <1>3
  <2> HIDE DEF U, x
  <2>2. /\ t \in Seq(U) /\ Len(t) = Len(s) + 1
        /\ \A i \in 1 .. Len(s) + 1 : t[i] = IF i < j THEN s[i] ELSE IF i = j THEN x ELSE s[i - 1]
    BY <2>1, InsertFacts
  <2> QED BY <2>1, <2>2 DEF U
<1> HIDE DEF t
<1>0. j \in Int /\ t[j] = x
  <2>1. j \in Int /\ ~(j < j)
    BY <1>3
  <2> QED BY <1>3, <1>4, <2>1
<1>5. /\ \A i \in 1 .. k : s[i] \in 1 .. k
      /\ \A y \in 1 .. k : \E i \in 1 .. k : s[i] = y
      /\ \A i, l \in 1 .. k : s[i] = s[l] => i = l
  <2>1. \A i \in 1 .. k : s[i] \in 1 .. k
    BY <1>1
  <2> QED BY <2>1 DEF IsOrder
<1>6. ASSUME NEW y \in 1 .. k + 1 PROVE \E i \in 1 .. k + 1 : t[i] = y
  <2>1. CASE y = k + 1
    BY <1>0, <1>3, <2>1
  <2>2. CASE y \in 1 .. k
    <3>1. PICK i \in 1 .. k : s[i] = y
      BY <1>5, <2>2
    <3>2. CASE i < j
      <4>1. i \in 1 .. k + 1
        OBVIOUS
      <4>2. t[i] = s[i]
        BY <1>4, <3>2, <4>1
      <4> QED BY <3>1, <4>1, <4>2
    <3>3. CASE ~(i < j)
      <4>1. i + 1 \in 1 .. k + 1 /\ ~(i + 1 < j) /\ i + 1 # j /\ (i + 1) - 1 = i
        BY <1>3, <3>3
      <4>2. t[i + 1] = s[(i + 1) - 1]
        BY <1>4, <4>1
      <4> QED BY <3>1, <4>1, <4>2
    <3> QED BY <3>2, <3>3
  <2> QED BY <2>1, <2>2
<1>7. ASSUME NEW i \in 1 .. k + 1, NEW l \in 1 .. k + 1, t[i] = t[l] PROVE i = l
  <2> DEFINE at(m) == IF m < j THEN m ELSE m - 1
  <2>1. ASSUME NEW m \in 1 .. k + 1, m # j PROVE at(m) \in 1 .. k /\ t[m] = s[at(m)] /\ t[m] # x
    <3>1. at(m) \in 1 .. k
      BY <1>3, <2>1
    <3>2. t[m] = s[at(m)]
      BY <1>4, <2>1
    <3>3. s[at(m)] \in 1 .. k
      BY <1>5, <3>1
    <3> QED BY <3>1, <3>2, <3>3
  <2>2. t[j] = x
    BY <1>0
  <2>3. CASE i = j
    BY <1>7, <2>1, <2>2, <2>3
  <2>4. CASE i # j /\ l # j
    <3>1. at(i) = at(l)
      <4>1. at(i) \in 1 .. k /\ at(l) \in 1 .. k /\ s[at(i)] = s[at(l)]
        BY <1>7, <2>1, <2>4
      <4> HIDE DEF at
      <4> QED BY <1>5, <4>1
    <3> QED BY <1>3, <2>4, <3>1
  <2>5. CASE l = j
    BY <1>7, <2>1, <2>2, <2>5
  <2> QED BY <2>3, <2>4, <2>5
<1> QED BY <1>4, <1>6, <1>7 DEF IsOrder, Put, t, j

\* ... so sorting, whatever the order asked for, gives each of 1 .. n once.
LEMMA SortingIsOrder ==
  ASSUME NEW n \in Nat, NEW R
  PROVE  IsOrder(Sorting(n, R), n)
<1> DEFINE V == Seq(Nat)
           g == [x \in 1 .. n |-> [s \in V |-> Put(R, s, x)]]
           up == [x \in 1 .. n |-> x]
           IsIter(f) == f = [T \in SUBSET (1 .. n) |-> IF T = {} THEN <<>>
                                                       ELSE Put(R, f[T \ {Max(T)}], up[Max(T)])]
           iter == CHOOSE f : IsIter(f)
<1>1. DOMAIN up = 1 .. n /\ \A x \in 1 .. n : up[x] = x
  OBVIOUS
<1>2. g \in [1 .. n -> [V -> V]] /\ <<>> \in V
  <2>1. ASSUME NEW x \in 1 .. n, NEW s \in V PROVE Put(R, s, x) \in V
    <3>1. Slot(R, s, x) \in 1 .. Len(s) + 1
      BY SlotFacts
    <3>2. x \in Nat
      OBVIOUS
    <3> QED BY <3>1, <3>2, InsertFacts DEF Put
  <2> QED BY <2>1
<1>3. PICK f \in [SUBSET (1 .. n) -> V] : IsPass(f, n, <<>>, g)
  <2> DEFINE z == <<>>
  <2>1. z \in V
    OBVIOUS
  <2> HIDE DEF g, V, z
  <2>2. \E f \in [SUBSET (1 .. n) -> V] : IsPass(f, n, z, g)
    BY <1>2, <2>1, PassIsDefined
  <2> QED BY <2>2 DEF z
<1>4. ASSUME NEW T \in SUBSET (1 .. n), T # {} PROVE Max(T) \in 1 .. n /\ T \ {Max(T)} \in SUBSET (1 .. n)
  <2>1. Max(T) \in T
    BY <1>4, LastOfPart
  <2> QED BY <2>1
<1>5. ASSUME NEW T \in SUBSET (1 .. n)
      PROVE f[T] = IF T = {} THEN <<>> ELSE Put(R, f[T \ {Max(T)}], up[Max(T)])
  <2>1. f[T] = IF T = {} THEN <<>> ELSE g[Max(T)][f[T \ {Max(T)}]]
    BY <1>3 DEF IsPass
  <2>2. ASSUME T # {}
        PROVE  g[Max(T)][f[T \ {Max(T)}]] = Put(R, f[T \ {Max(T)}], up[Max(T)])
    <3>1. Max(T) \in 1 .. n /\ f[T \ {Max(T)}] \in V
      BY <1>3, <1>4, <2>2
    <3> HIDE DEF V
    <3> QED BY <1>1, <3>1
  <2> QED BY <2>1, <2>2
<1>6. IsIter(f)
  <2>1. f = [T \in SUBSET (1 .. n) |-> f[T]]
    BY <1>3
  <2> HIDE DEF V, up
  <2> QED BY <2>1, <1>5, Zenon
<1>7. IsIter(iter)
  BY <1>6
<1>8. Sorting(n, R) = iter[1 .. n]
  BY <1>1 DEF Sorting, Put, Slot, FoldLeft, MapThenFoldSet
<1> DEFINE F == {k \in 0 .. n : IsOrder(iter[1 .. k], k)}
<1>9. 0 \in F
  <2>1. 1 .. 0 = {} /\ {} \in SUBSET (1 .. n)
    OBVIOUS
  <2>2. iter[{}] = <<>>
    BY <1>7, <2>1
  <2>3. iter[1 .. 0] = <<>>
    BY <2>1, <2>2
  <2>4. IsOrder(<<>>, 0)
    BY DEF IsOrder
  <2> HIDE DEF iter
  <2> QED BY <2>3, <2>4
<1>10. ASSUME NEW k \in 1 .. n, k - 1 \in F PROVE k \in F
  <2> DEFINE l == k - 1
  <2>0. l \in 0 .. n - 1 /\ l + 1 = k /\ l \in Nat
    OBVIOUS
  <2>1. /\ 1 .. l + 1 \in SUBSET (1 .. n) /\ 1 .. l + 1 # {}
        /\ Max(1 .. l + 1) = l + 1 /\ (1 .. l + 1) \ {l + 1} = 1 .. l
    <3> HIDE DEF l
    <3> QED BY <2>0, LastOfInterval
  <2>2. iter[1 .. l + 1] = Put(R, iter[1 .. l], up[l + 1])
    <3>1. iter[1 .. l + 1] = Put(R, iter[(1 .. l + 1) \ {Max(1 .. l + 1)}], up[Max(1 .. l + 1)])
      <4> HIDE DEF l, iter, up
      <4> QED BY <1>7, <2>1
    <3> HIDE DEF l, iter, up
    <3> QED BY <2>1, <3>1
  <2>3. up[l + 1] = l + 1
    BY <1>1, <2>0
  <2>4. IsOrder(iter[1 .. l], l)
    BY <1>10
  <2> HIDE DEF l, iter, up
  <2>5. IsOrder(iter[1 .. l + 1], l + 1)
    BY <2>0, <2>2, <2>3, <2>4, OrderGrows
  <2> QED BY <2>0, <2>5
<1> HIDE DEF F
<1>11. n \in F
  <2>1. \A k \in 0 .. n : k \in F
    BY <1>9, <1>10, IntervalInduction
  <2> QED BY <2>1
<1> QED BY <1>8, <1>11 DEF F
------------------------------------------------------------------------------
(* Sums of what is not negative. *)

LEMMA SumIsNatural ==
  ASSUME NEW S, IsFiniteSet(S), NEW v, \A x \in S : v[x] \in Nat
  PROVE  SumFunctionOnSet(v, S) \in Nat
<1> DEFINE F == {T \in SUBSET S : SumFunctionOnSet(v, T) \in Nat}
<1>1. {} \in F
  BY SumOfNone
<1>2. ASSUME NEW T \in SUBSET S, T # {}, \A x \in T : T \ {x} \in F PROVE T \in F
  <2>1. PICK x \in T : TRUE
    BY <1>2
  <2>2. IsFiniteSet(T) /\ \A y \in T : v[y] \in Int
    BY FS_Subset
  <2>3. SumFunctionOnSet(v, T) = v[x] + SumFunctionOnSet(v, T \ {x})
    BY <2>1, <2>2, SumRemove
  <2>4. SumFunctionOnSet(v, T \ {x}) \in Nat
    BY <1>2, <2>1
  <2> QED BY <2>1, <2>3, <2>4
<1>3. S \in F
  <2> HIDE DEF F
  <2>1. \A T \in SUBSET S : T \in F
    BY <1>1, <1>2, RemovalInduction
  <2> QED BY <2>1
<1> QED BY <1>3

\* A part of the positions, each taken once, adds up to no more than all of them.
LEMMA SumOfSome ==
  ASSUME NEW S, IsFiniteSet(S), NEW v, \A x \in S : v[x] \in Nat,
         NEW K, IsFiniteSet(K), NEW h \in [K -> S], \A k, l \in K : h[k] = h[l] => k = l,
         NEW w, \A k \in K : w[k] = v[h[k]]
  PROVE  SumFunctionOnSet(w, K) <= SumFunctionOnSet(v, S)
<1> DEFINE part == [k \in K |-> {h[k]}]
           A == Together(part, K)
           B == S \ A
<1>0. \A x \in S : v[x] \in Int
  OBVIOUS
<1>1. ASSUME NEW k \in K PROVE w[k] = SumFunctionOnSet(v, part[k])
  <2> DEFINE P == {h[k]}
  <2>1. IsFiniteSet(P) /\ h[k] \in P /\ P \ {h[k]} = {} /\ \A x \in P : v[x] \in Int
    <3>1. IsFiniteSet({h[k]})
      BY FS_Singleton
    <3>2. v[h[k]] \in Int
      BY <1>0
    <3> QED BY <3>1, <3>2
  <2>2. part[k] = P
    OBVIOUS
  <2> HIDE DEF P, part
  <2>3. SumFunctionOnSet(v, P) = v[h[k]] + SumFunctionOnSet(v, P \ {h[k]})
    BY <2>1, SumRemove
  <2>4. SumFunctionOnSet(v, {}) = 0
    BY SumOfNone
  <2>5. w[k] = v[h[k]] /\ v[h[k]] \in Int
    BY <1>0
  <2> QED BY <2>1, <2>2, <2>3, <2>4, <2>5
<1>2. \A k \in K : part[k] \subseteq S
  OBVIOUS
<1>3. \A k, l \in K : k # l => part[k] \cap part[l] = {}
  OBVIOUS
<1>4. A \subseteq S
  BY <1>2 DEF Together
<1>5. SumFunctionOnSet(w, K) = SumFunctionOnSet(v, A)
  <2> HIDE DEF part
  <2> QED BY <1>0, <1>1, <1>2, <1>3, SumOfParts
<1>6. B \subseteq S /\ A \cap B = {} /\ A \cup B = S
  BY <1>4
<1> HIDE DEF A, B
<1>7. SumFunctionOnSet(v, A \cup B) = SumFunctionOnSet(v, A) + SumFunctionOnSet(v, B)
  BY <1>0, <1>4, <1>6, SumOfUnion
<1>8. IsFiniteSet(A) /\ IsFiniteSet(B)
  BY <1>4, <1>6, FS_Subset
<1>9. SumFunctionOnSet(v, A) \in Nat /\ SumFunctionOnSet(v, B) \in Nat
  BY <1>4, <1>6, <1>8, SumIsNatural
<1>10. SumFunctionOnSet(v, S) = SumFunctionOnSet(v, A) + SumFunctionOnSet(v, B)
  BY <1>6, <1>7
<1>11. SumFunctionOnSet(v, A) <= SumFunctionOnSet(v, S)
  BY <1>9, <1>10
<1> QED BY <1>5, <1>11
------------------------------------------------------------------------------
(* The total length of jobs, the horizon and the least load. *)

LengthOf(js) == [i \in DOMAIN js |-> js[i].p]

LEMMA TotalIsSum ==
  ASSUME NEW js, NEW n \in Nat, DOMAIN js = 1 .. n, \A i \in 1 .. n : js[i].p \in Nat
  PROVE  Total(js) = SumFunctionOnSet(LengthOf(js), 1 .. n)
<1> DEFINE v == LengthOf(js)
           g == [i \in 1 .. n |-> [t \in Int |-> t + v[i]]]
           IsIter(f) == f = [T \in SUBSET (1 .. n) |-> IF T = {} THEN 0
                                                       ELSE f[T \ {Max(T)}] + js[Max(T)].p]
           iter == CHOOSE f : IsIter(f)
<1>1. \A i \in 1 .. n : v[i] = js[i].p /\ v[i] \in Int
  BY DEF LengthOf
<1>2. g \in [1 .. n -> [Int -> Int]] /\ 0 \in Int
  <2> HIDE DEF v
  <2> QED BY <1>1
<1>3. PICK f \in [SUBSET (1 .. n) -> Int] : IsPass(f, n, 0, g)
  <2> HIDE DEF g
  <2> QED BY <1>2, PassIsDefined
<1>4. ASSUME NEW T \in SUBSET (1 .. n), T # {} PROVE Max(T) \in 1 .. n /\ T \ {Max(T)} \in SUBSET (1 .. n)
  <2>1. Max(T) \in T
    BY <1>4, LastOfPart
  <2> QED BY <2>1
<1>5. ASSUME NEW T \in SUBSET (1 .. n)
      PROVE f[T] = IF T = {} THEN 0 ELSE f[T \ {Max(T)}] + js[Max(T)].p
  <2>1. f[T] = IF T = {} THEN 0 ELSE g[Max(T)][f[T \ {Max(T)}]]
    BY <1>3 DEF IsPass
  <2>2. ASSUME T # {}
        PROVE  g[Max(T)][f[T \ {Max(T)}]] = f[T \ {Max(T)}] + js[Max(T)].p
    <3>1. Max(T) \in 1 .. n /\ f[T \ {Max(T)}] \in Int
      BY <1>3, <1>4, <2>2
    <3> HIDE DEF v
    <3>2. g[Max(T)][f[T \ {Max(T)}]] = f[T \ {Max(T)}] + v[Max(T)]
      BY <3>1
    <3> QED BY <1>1, <3>1, <3>2
  <2> QED BY <2>1, <2>2
<1>6. IsIter(f)
  <2>1. f = [T \in SUBSET (1 .. n) |-> f[T]]
    BY <1>3
  <2> QED BY <2>1, <1>5, Zenon
<1>7. IsIter(iter)
  BY <1>6
<1>8. Total(js) = iter[1 .. n]
  BY DEF Total, FoldLeft, MapThenFoldSet
<1> DEFINE F == {k \in 0 .. n : iter[1 .. k] = SumFunctionOnSet(v, 1 .. k)}
<1>9. 0 \in F
  <2>1. 1 .. 0 = {} /\ {} \in SUBSET (1 .. n)
    OBVIOUS
  <2>2. iter[{}] = 0
    BY <1>7, <2>1
  <2>3. SumFunctionOnSet(v, {}) = 0
    BY SumOfNone
  <2> HIDE DEF iter, v
  <2> QED BY <2>1, <2>2, <2>3
<1>10. ASSUME NEW k \in 1 .. n, k - 1 \in F PROVE k \in F
  <2> DEFINE l == k - 1
  <2>0. l \in 0 .. n - 1 /\ l + 1 = k /\ l \in Nat
    OBVIOUS
  <2>1. /\ 1 .. l + 1 \in SUBSET (1 .. n) /\ 1 .. l + 1 # {}
        /\ Max(1 .. l + 1) = l + 1 /\ (1 .. l + 1) \ {l + 1} = 1 .. l
    <3> HIDE DEF l
    <3> QED BY <2>0, LastOfInterval
  <2>2. iter[1 .. l + 1] = iter[1 .. l] + js[l + 1].p
    <3>1. iter[1 .. l + 1] = iter[(1 .. l + 1) \ {Max(1 .. l + 1)}] + js[Max(1 .. l + 1)].p
      <4> HIDE DEF l, iter
      <4> QED BY <1>7, <2>1
    <3> HIDE DEF l, iter
    <3> QED BY <2>1, <3>1
  <2>3. iter[1 .. l] = SumFunctionOnSet(v, 1 .. l)
    BY <1>10
  <2> DEFINE U == 1 .. l + 1
  <2>4. IsFiniteSet(U) /\ (\A x \in U : v[x] \in Int) /\ l + 1 \in U
    <3>1. IsFiniteSet(U)
      BY <2>0, FS_Interval
    <3>2. U \subseteq 1 .. n /\ l + 1 \in U
      BY <2>0
    <3> HIDE DEF U, v
    <3> QED BY <1>1, <3>1, <3>2
  <2> HIDE DEF l, iter, v
  <2>5. SumFunctionOnSet(v, U) = v[l + 1] + SumFunctionOnSet(v, U \ {l + 1})
    <3> HIDE DEF U
    <3> QED BY <2>4, SumRemove
  <2>6. SumFunctionOnSet(v, 1 .. l) \in Int /\ v[l + 1] \in Int /\ v[l + 1] = js[l + 1].p
    <3> DEFINE W == 1 .. l
    <3>1. W \subseteq U /\ l + 1 \in 1 .. n
      BY <2>0
    <3>2. IsFiniteSet(W) /\ \A x \in W : v[x] \in Int
      BY <2>4, <3>1, FS_Subset
    <3> HIDE DEF W
    <3>3. SumFunctionOnSet(v, W) \in Int
      BY <3>2, SumType
    <3> QED BY <1>1, <3>1, <3>3 DEF W
  <2>7. iter[1 .. l + 1] = SumFunctionOnSet(v, 1 .. l + 1)
    <3>1. SumFunctionOnSet(v, 1 .. l + 1) = v[l + 1] + SumFunctionOnSet(v, 1 .. l)
      BY <2>1, <2>5
    <3>2. iter[1 .. l + 1] = SumFunctionOnSet(v, 1 .. l) + v[l + 1]
      BY <2>2, <2>3, <2>6
    <3> QED BY <2>6, <3>1, <3>2
  <2> QED BY <2>0, <2>7
<1> HIDE DEF F
<1>11. n \in F
  <2>1. \A k \in 0 .. n : k \in F
    BY <1>9, <1>10, IntervalInduction
  <2> QED BY <2>1
<1> QED BY <1>8, <1>11 DEF F

LEMMA DivIsNatural ==
  ASSUME NEW a \in Nat, NEW m \in Nat \ {0}
  PROVE  a \div m \in Nat
OBVIOUS

LEMMA JobFacts ==
  ASSUME NEW js \in Seq(JobType)
  PROVE  /\ Len(js) \in Nat /\ DOMAIN js = 1 .. Len(js)
         /\ \A i \in 1 .. Len(js) : js[i] \in JobType /\ js[i].p \in Nat \ {0} /\ js[i].d \in Nat /\ js[i].w \in Nat \ {0}
         /\ IsFiniteSet(1 .. Len(js))
<1>1. Len(js) \in Nat /\ DOMAIN js = 1 .. Len(js) /\ \A i \in 1 .. Len(js) : js[i] \in JobType
  OBVIOUS
<1>2. IsFiniteSet(1 .. Len(js))
  BY <1>1, FS_Interval
<1>3. \A x \in JobType : x.p \in Nat \ {0} /\ x.d \in Nat /\ x.w \in Nat \ {0}
  BY DEF JobType
<1> HIDE DEF JobType
<1> QED BY <1>1, <1>2, <1>3

\* Sorted jobs are the same jobs.
LEMMA Rearranged ==
  ASSUME NEW js \in Seq(JobType), NEW order, IsOrder(order, Len(js)),
         NEW t, t = [i \in DOMAIN js |-> js[order[i]]]
  PROVE  /\ t \in Seq(JobType) /\ Len(t) = Len(js)
         /\ \A i \in 1 .. Len(js) : order[i] \in 1 .. Len(js) /\ t[i] = js[order[i]]
<1>1. DOMAIN js = 1 .. Len(js) /\ Len(js) \in Nat /\ \A i \in 1 .. Len(js) : js[i] \in JobType
  BY JobFacts
<1>2. \A i \in 1 .. Len(js) : order[i] \in 1 .. Len(js)
  <2>1. order \in Seq(1 .. Len(js)) /\ Len(order) = Len(js)
    BY DEF IsOrder
  <2> QED BY <1>1, <2>1
<1>3. t \in [1 .. Len(js) -> JobType]
  BY <1>1, <1>2
<1>4. t \in Seq(JobType) /\ Len(t) = Len(js)
  BY <1>1, <1>3
<1> QED BY <1>1, <1>2, <1>4

\* The horizon is no shorter than any job, ...
LEMMA HorizonFacts ==
  ASSUME NEW js \in Seq(JobType), js # <<>>, NEW m \in Nat \ {0}
  PROVE  HorizonOf(js, m) \in Nat /\ \A i \in 1 .. Len(js) : js[i].p <= HorizonOf(js, m)
<1> DEFINE n == Len(js)
           v == LengthOf(js)
           P == {js[i].p : i \in DOMAIN js}
           pmax == Max(P)
<1>1. /\ n \in Nat /\ DOMAIN js = 1 .. n /\ IsFiniteSet(1 .. n) /\ 1 \in 1 .. n
      /\ \A i \in 1 .. n : js[i].p \in Nat \ {0}
  <2>1. n # 0
    OBVIOUS
  <2> QED BY <2>1, JobFacts
<1>2. IsFiniteSet(P) /\ P \in SUBSET Int /\ P # {}
  <2> DEFINE f == [i \in 1 .. n |-> js[i].p]
             W == {f[i] : i \in 1 .. n}
  <2>1. IsFiniteSet(W)
    <3>1. DOMAIN f = 1 .. n
      OBVIOUS
    <3> HIDE DEF f, n
    <3> QED BY <1>1, <3>1, FiniteImage
  <2>2. W = P
    BY <1>1
  <2>3. js[1].p \in P /\ P \in SUBSET Int
    BY <1>1
  <2> HIDE DEF W, P
  <2> QED BY <2>1, <2>2, <2>3
<1>3. pmax \in P /\ \A p \in P : pmax >= p
  <2> HIDE DEF P
  <2> QED BY <1>2, MaxIsGreatest
<1>4. PICK k \in 1 .. n : pmax = js[k].p
  BY <1>1, <1>3
<1>5. \A i \in 1 .. n : v[i] = js[i].p /\ v[i] \in Nat
  BY <1>1 DEF LengthOf
<1>6. Total(js) = SumFunctionOnSet(v, 1 .. n)
  <2> HIDE DEF n
  <2> QED BY <1>1, TotalIsSum DEF v
<1> HIDE DEF n, v
<1>7. Total(js) - pmax \in Nat
  <2> DEFINE S == 1 .. n
             R == S \ {k}
  <2>1. IsFiniteSet(S) /\ (\A x \in S : v[x] \in Int) /\ (\A x \in R : v[x] \in Nat) /\ IsFiniteSet(R) /\ k \in S
    BY <1>1, <1>5, FS_Subset
  <2> HIDE DEF S
  <2>2. SumFunctionOnSet(v, S) = v[k] + SumFunctionOnSet(v, R)
    BY <2>1, SumRemove
  <2>3. SumFunctionOnSet(v, R) \in Nat
    <3> HIDE DEF R
    <3> QED BY <2>1, SumIsNatural
  <2>4. v[k] = pmax /\ v[k] \in Nat
    BY <1>4, <1>5
  <2> HIDE DEF R, pmax
  <2> QED BY <1>6, <2>2, <2>3, <2>4 DEF S
<1>8. (Total(js) - pmax) \div m \in Nat
  <2> HIDE DEF pmax
  <2> QED BY <1>7, DivIsNatural
<1>9. HorizonOf(js, m) = (Total(js) - pmax) \div m + pmax
  BY DEF HorizonOf
<1>10. pmax \in Nat
  BY <1>1, <1>4
<1>11. \A i \in 1 .. n : js[i].p <= pmax /\ js[i].p \in Nat
  <2>1. \A i \in 1 .. n : js[i].p \in P
    BY <1>1
  <2> HIDE DEF P
  <2>2. \A i \in 1 .. n : pmax >= js[i].p
    BY <1>3, <2>1
  <2> HIDE DEF pmax
  <2> QED BY <1>1, <1>10, <2>2
<1> HIDE DEF pmax
<1>12. HorizonOf(js, m) \in Nat /\ pmax <= HorizonOf(js, m)
  BY <1>8, <1>9, <1>10
<1> QED BY <1>10, <1>11, <1>12 DEF n

\* ... and the least load is not negative.
LEMMA LeastLoadFacts ==
  ASSUME NEW js \in Seq(JobType), NEW m \in Nat \ {0}
  PROVE  LeastLoad(js, m) \in Nat
<1> DEFINE n == Len(js)
           R == [x, y \in DOMAIN js |-> js[x].p < js[y].p]
           order == Sorting(n, R)
           byLength == [i \in DOMAIN js |-> js[order[i]]]
           l == Max({1, n - m + 2})
           t == SubSeq(byLength, l, n)
           h == [i \in 1 .. Len(t) |-> order[l + i - 1]]
<1>1. n \in Nat /\ DOMAIN js = 1 .. n /\ IsFiniteSet(1 .. n) /\ \A i \in 1 .. n : js[i].p \in Nat
  BY JobFacts
<1>2. IsOrder(order, n)
  <2> HIDE DEF R, n
  <2> QED BY <1>1, SortingIsOrder
<1>3. LeastLoad(js, m) = (Total(js) - Total(t)) \div m
  BY DEF LeastLoad, Sorted
<1> HIDE DEF order
<1>4. /\ byLength \in Seq(JobType) /\ Len(byLength) = n
      /\ \A i \in 1 .. n : order[i] \in 1 .. n /\ byLength[i] = js[order[i]]
  <2> DEFINE s == byLength
  <2>1. s = [i \in DOMAIN js |-> js[order[i]]]
    OBVIOUS
  <2> HIDE DEF s
  <2>2. s \in Seq(JobType) /\ Len(s) = n /\ \A i \in 1 .. n : order[i] \in 1 .. n /\ s[i] = js[order[i]]
    BY <1>2, <2>1, Rearranged
  <2> QED BY <2>2 DEF s
<1>5. l \in Nat \ {0}
  <2> DEFINE S == {1, n - m + 2}
  <2>1. IsFiniteSet(S) /\ S \in SUBSET Int /\ S # {} /\ 1 \in S
    <3>1. IsFiniteSet({1, n - m + 2})
      <4> DEFINE x == n - m + 2
      <4>1. {1, x} = {1} \cup {x} /\ IsFiniteSet({1}) /\ IsFiniteSet({x})
        BY FS_Singleton
      <4> HIDE DEF x, n
      <4>2. IsFiniteSet({1, x})
        BY <4>1, FS_AddElement
      <4> QED BY <4>2 DEF x
    <3> QED BY <1>1, <3>1
  <2> HIDE DEF S
  <2>2. Max(S) \in Int /\ Max(S) >= 1
    <3>1. Max(S) \in S /\ \A x \in S : Max(S) >= x
      BY <2>1, MaxIsGreatest
    <3> QED BY <2>1, <3>1
  <2>3. l = Max(S)
    BY DEF S
  <2> HIDE DEF l
  <2> QED BY <2>2, <2>3
<1> HIDE DEF byLength, l, n
<1>6. /\ t \in Seq(JobType)
      /\ \A i \in 1 .. Len(t) : l + i - 1 \in 1 .. n /\ t[i] = byLength[l + i - 1]
  BY <1>1, <1>4, <1>5
<1> HIDE DEF t
<1>7. Len(t) \in Nat /\ DOMAIN t = 1 .. Len(t) /\ IsFiniteSet(1 .. Len(t)) /\ \A i \in 1 .. Len(t) : t[i].p \in Nat
  BY <1>6, JobFacts
<1>8. h \in [1 .. Len(t) -> 1 .. n] /\ \A i \in 1 .. Len(t) : t[i].p = js[h[i]].p
  BY <1>4, <1>6
<1>9. \A i, k \in 1 .. Len(t) : h[i] = h[k] => i = k
  <2> SUFFICES ASSUME NEW i \in 1 .. Len(t), NEW k \in 1 .. Len(t), h[i] = h[k] PROVE i = k
    OBVIOUS
  <2>1. order[l + i - 1] = order[l + k - 1] /\ l + i - 1 \in 1 .. n /\ l + k - 1 \in 1 .. n
    BY <1>6
  <2>2. l + i - 1 = l + k - 1
    BY <1>2, <2>1 DEF IsOrder
  <2> QED BY <1>5, <1>7, <2>2
<1> DEFINE v == LengthOf(js)
           w == LengthOf(t)
<1>10. (\A x \in 1 .. n : v[x] \in Nat /\ v[x] = js[x].p) /\ \A i \in 1 .. Len(t) : w[i] = t[i].p
  BY <1>1, <1>7 DEF LengthOf
<1>11. Total(js) = SumFunctionOnSet(v, 1 .. n) /\ Total(t) = SumFunctionOnSet(w, 1 .. Len(t))
  BY <1>1, <1>7, TotalIsSum
<1> HIDE DEF v, w, h
<1>12. SumFunctionOnSet(w, 1 .. Len(t)) <= SumFunctionOnSet(v, 1 .. n)
  <2> DEFINE S == 1 .. n
             K == 1 .. Len(t)
  <2>1. /\ IsFiniteSet(S) /\ IsFiniteSet(K) /\ h \in [K -> S] /\ \A i, k \in K : h[i] = h[k] => i = k
        /\ \A x \in S : v[x] \in Nat
    BY <1>1, <1>7, <1>8, <1>9, <1>10
  <2>2. \A i \in K : w[i] = v[h[i]]
    BY <1>8, <1>10
  <2> HIDE DEF S, K
  <2>3. SumFunctionOnSet(w, K) <= SumFunctionOnSet(v, S)
    BY <2>1, <2>2, SumOfSome
  <2> QED BY <2>3 DEF S, K
<1>13. SumFunctionOnSet(w, 1 .. Len(t)) \in Int /\ SumFunctionOnSet(v, 1 .. n) \in Int
  <2>1. \A i \in 1 .. Len(t) : w[i] \in Int
    BY <1>7, <1>10
  <2>2. \A x \in 1 .. n : v[x] \in Int
    BY <1>10
  <2> QED BY <1>1, <1>7, <2>1, <2>2, SumType
<1>14. Total(js) - Total(t) \in Nat
  BY <1>11, <1>12, <1>13
<1> QED BY <1>3, <1>14, DivIsNatural
------------------------------------------------------------------------------
(* Intervals one after the other, from x to y. *)

Piece == [a : Nat, b : Nat]

Chain(s, x, y) ==
  /\ \A i \in 1 .. Len(s) : s[i].a < s[i].b
  /\ \A i \in 1 .. Len(s) : i < Len(s) => s[i].b = s[i + 1].a
  /\ s = <<>> => x = y
  /\ s # <<>> => s[1].a = x /\ s[Len(s)].b = y

LEMMA AppendFacts ==
  ASSUME NEW T, NEW s \in Seq(T), NEW e \in T
  PROVE  /\ Append(s, e) \in Seq(T) /\ Len(Append(s, e)) = Len(s) + 1 /\ Append(s, e) # <<>>
         /\ Append(s, e)[Len(s) + 1] = e /\ \A i \in 1 .. Len(s) : Append(s, e)[i] = s[i]
OBVIOUS

LEMMA ChainAppend ==
  ASSUME NEW T, NEW s \in Seq(T), NEW x, NEW e \in T, e.a < e.b, Chain(s, x, e.a)
  PROVE  Chain(Append(s, e), x, e.b)
<1> DEFINE t == Append(s, e)
           n == Len(s)
<1>1. n \in Nat /\ Len(t) = n + 1 /\ t # <<>> /\ t[n + 1] = e /\ \A i \in 1 .. n : t[i] = s[i]
  OBVIOUS
<1>2. s = <<>> <=> n = 0
  OBVIOUS
<1> HIDE DEF t, n
<1>3. ASSUME NEW i \in 1 .. n + 1 PROVE t[i].a < t[i].b /\ (i < n + 1 => t[i].b = t[i + 1].a)
  <2>1. CASE i = n + 1
    BY <1>1, <2>1
  <2>2. CASE i \in 1 .. n /\ i < n
    <3>1. i + 1 \in 1 .. n /\ t[i] = s[i] /\ t[i + 1] = s[i + 1]
      BY <1>1, <2>2
    <3> QED BY <2>2, <3>1 DEF Chain, n
  <2>3. CASE i \in 1 .. n /\ i = n
    <3>1. t[i] = s[n] /\ t[i + 1] = e /\ s # <<>>
      BY <1>1, <1>2, <2>3
    <3>2. s[n].b = e.a /\ s[n].a < s[n].b
      BY <2>3, <3>1 DEF Chain, n
    <3> QED BY <2>3, <3>1, <3>2
  <2> QED BY <1>1, <2>1, <2>2, <2>3
<1>4. t[1].a = x
  <2>1. CASE n = 0
    <3>1. x = e.a /\ t[1] = e
      BY <1>1, <1>2, <2>1 DEF Chain
    <3> QED BY <3>1
  <2>2. CASE n # 0
    <3>1. t[1] = s[1] /\ s[1].a = x
      BY <1>1, <1>2, <2>2 DEF Chain
    <3> QED BY <3>1
  <2> QED BY <2>1, <2>2
<1>5. t[Len(t)].b = e.b
  BY <1>1
<1>6. Chain(t, x, e.b)
  BY <1>1, <1>3, <1>4, <1>5 DEF Chain
<1> QED BY <1>6 DEF t

LEMMA ChainJoin ==
  ASSUME NEW T, NEW s \in Seq(T), NEW r \in Seq(T), NEW x, NEW y, NEW z, Chain(s, x, y), Chain(r, y, z)
  PROVE  Chain(s \o r, x, z)
<1> DEFINE t == s \o r
           n == Len(s)
           m == Len(r)
<1>1. /\ n \in Nat /\ m \in Nat /\ Len(t) = n + m /\ t \in Seq(T)
      /\ \A i \in 1 .. n : t[i] = s[i]
  OBVIOUS
<1>2. \A i \in 1 .. m : t[n + i] = r[i]
  OBVIOUS
<1>3. (s = <<>> <=> n = 0) /\ (r = <<>> <=> m = 0) /\ (t = <<>> => n + m = 0)
  BY <1>1
<1> HIDE DEF t, n, m
<1>4. ASSUME NEW i \in 1 .. n + m PROVE t[i].a < t[i].b /\ (i < n + m => t[i].b = t[i + 1].a)
  <2>1. CASE i < n
    <3>1. i \in 1 .. n /\ i + 1 \in 1 .. n /\ t[i] = s[i] /\ t[i + 1] = s[i + 1]
      BY <1>1, <2>1
    <3> QED BY <2>1, <3>1 DEF Chain, n
  <2>2. CASE i = n
    <3>1. i \in 1 .. n /\ t[i] = s[n] /\ s # <<>>
      BY <1>1, <1>3, <2>2
    <3>2. s[n].a < s[n].b /\ s[n].b = y
      BY <2>2, <3>1 DEF Chain, n
    <3>3. i < n + m => t[i + 1] = r[1] /\ r # <<>>
      BY <1>1, <1>2, <1>3, <2>2
    <3>4. i < n + m => r[1].a = y
      BY <3>3 DEF Chain
    <3> QED BY <3>1, <3>2, <3>3, <3>4
  <2>3. CASE i > n
    <3> DEFINE k == i - n
    <3>1. k \in 1 .. m /\ i = n + k
      BY <1>1, <2>3
    <3> HIDE DEF k
    <3>2. t[i] = r[k]
      BY <1>2, <3>1
    <3>3. r[k].a < r[k].b /\ (k < m => r[k].b = r[k + 1].a)
      BY <3>1 DEF Chain, m
    <3>4. i < n + m => k < m /\ k + 1 \in 1 .. m /\ i + 1 = n + (k + 1)
      BY <1>1, <3>1
    <3>5. i < n + m => t[i + 1] = r[k + 1]
      BY <1>2, <3>4
    <3> QED BY <3>2, <3>3, <3>4, <3>5
  <2> QED BY <1>1, <2>1, <2>2, <2>3
<1>5. CASE n = 0
  <2>1. x = y
    BY <1>3, <1>5 DEF Chain
  <2>2. CASE m = 0
    <3>1. x = z /\ Len(t) = 0
      BY <1>1, <1>3, <1>5, <2>1, <2>2 DEF Chain
    <3>2. t = <<>>
      BY <1>1, <3>1
    <3> QED BY <3>1, <3>2 DEF Chain, t
  <2>3. CASE m # 0
    <3>1. t[1] = r[1] /\ t[n + m] = r[m] /\ r[1].a = y /\ r[m].b = z
      <4>1. 1 \in 1 .. m /\ m \in 1 .. m /\ n + 1 = 1 /\ r # <<>>
        BY <1>1, <1>3, <1>5, <2>3
      <4>2. t[n + 1] = r[1] /\ t[n + m] = r[m]
        BY <1>2, <4>1
      <4> QED BY <4>1, <4>2 DEF Chain, m
    <3>2. t # <<>>
      BY <1>1, <1>3, <2>3
    <3>3. Chain(t, x, z)
      BY <1>1, <1>4, <2>1, <3>1, <3>2 DEF Chain
    <3> QED BY <3>3 DEF t
  <2> QED BY <2>2, <2>3
<1>6. CASE n # 0
  <2>1. t[1] = s[1] /\ s[1].a = x /\ t # <<>>
    BY <1>1, <1>3, <1>6 DEF Chain
  <2>2. t[n + m].b = z
    <3>1. CASE m = 0
      <4>1. t[n + m] = s[n] /\ s[n].b = y /\ y = z
        BY <1>1, <1>3, <1>6, <3>1 DEF Chain, n
      <4> QED BY <4>1
    <3>2. CASE m # 0
      <4>1. m \in 1 .. m /\ r # <<>>
        BY <1>1, <1>3, <3>2
      <4>2. t[n + m] = r[m] /\ r[m].b = z
        BY <1>2, <4>1 DEF Chain, m
      <4> QED BY <4>2
    <3> QED BY <3>1, <3>2
  <2>3. Chain(t, x, z)
    BY <1>1, <1>4, <2>1, <2>2 DEF Chain
  <2> QED BY <2>3 DEF t
<1> QED BY <1>5, <1>6

LEMMA ChainTail ==
  ASSUME NEW T, NEW s \in Seq(T), s # <<>>, NEW x, NEW y, Chain(s, x, y)
  PROVE  /\ Tail(s) \in Seq(T) /\ Head(s) = s[1] /\ Head(s) \in T
         /\ Head(s).a = x /\ Head(s).a < Head(s).b /\ Chain(Tail(s), Head(s).b, y)
<1> DEFINE t == Tail(s)
           n == Len(s)
<1>1. n \in Nat /\ n # 0 /\ Head(s) = s[1] /\ Head(s) \in T
  OBVIOUS
<1>2. t \in Seq(T) /\ Len(t) = n - 1
  OBVIOUS
<1>3. \A i \in 1 .. n - 1 : t[i] = s[i + 1]
  OBVIOUS
<1> HIDE DEF t, n
<1>4. t = <<>> <=> n = 1
  <2>1. \A u \in Seq(T) : u = <<>> <=> Len(u) = 0
    OBVIOUS
  <2> QED BY <1>1, <1>2, <2>1
<1>5. s[1].a = x /\ s[1].a < s[1].b /\ s[n].b = y
  BY <1>1 DEF Chain, n
<1>6. ASSUME NEW i \in 1 .. n - 1 PROVE t[i].a < t[i].b /\ (i < n - 1 => t[i].b = t[i + 1].a)
  <2>1. i + 1 \in 1 .. n /\ (i < n - 1 => i + 1 < n /\ i + 1 \in 1 .. n - 1)
    BY <1>1
  <2>2. t[i] = s[i + 1] /\ (i < n - 1 => t[i + 1] = s[(i + 1) + 1])
    BY <1>3, <2>1
  <2>3. s[i + 1].a < s[i + 1].b /\ (i < n - 1 => s[i + 1].b = s[(i + 1) + 1].a)
    BY <2>1 DEF Chain, n
  <2> QED BY <2>2, <2>3
<1>7. CASE n = 1
  <2>1. t = <<>> /\ s[1].b = y
    BY <1>4, <1>5, <1>7
  <2>2. Chain(t, s[1].b, y)
    BY <1>2, <1>6, <1>7, <2>1 DEF Chain
  <2> QED BY <1>1, <1>2, <1>5, <2>2 DEF t
<1>8. CASE n # 1
  <2>1. t # <<>> /\ t[1] = s[2] /\ t[n - 1] = s[n]
    <3>1. 1 \in 1 .. n - 1 /\ n - 1 \in 1 .. n - 1 /\ 1 + 1 = 2 /\ (n - 1) + 1 = n
      BY <1>1, <1>8
    <3>2. t[1] = s[1 + 1] /\ t[n - 1] = s[(n - 1) + 1]
      BY <1>3, <3>1
    <3> QED BY <1>4, <1>8, <3>1, <3>2
  <2>2. s[1].b = s[2].a
    <3>1. 1 \in 1 .. n /\ 1 < n /\ 1 + 1 = 2
      BY <1>1, <1>8
    <3>2. s[1].b = s[1 + 1].a
      BY <3>1 DEF Chain, n
    <3> QED BY <3>1, <3>2
  <2>3. Chain(t, s[1].b, y)
    BY <1>2, <1>5, <1>6, <2>1, <2>2 DEF Chain
  <2> QED BY <1>1, <1>2, <1>5, <2>3 DEF t
<1> QED BY <1>7, <1>8
------------------------------------------------------------------------------
(* The intervals between due dates. *)

Lesser(x, y) == IF x <= y THEN x ELSE y

LEMMA MinOfTwo ==
  ASSUME NEW x \in Int, NEW y \in Int
  PROVE  Min({x, y}) = Lesser(x, y)
<1> DEFINE S == {x, y}
<1>1. IsFiniteSet(S)
  <2>1. S = {x} \cup {y} /\ IsFiniteSet({x}) /\ IsFiniteSet({y})
    BY FS_Singleton
  <2> HIDE DEF S
  <2> QED BY <2>1, FS_Union
<1>2. S \in SUBSET Int /\ S # {} /\ x \in S /\ y \in S /\ \A z \in S : z = x \/ z = y
  OBVIOUS
<1> DEFINE m == Min(S)
<1>3. m \in S /\ m <= x /\ m <= y
  <2> HIDE DEF S
  <2> QED BY <1>1, <1>2, MinIsLeast
<1>4. m = x \/ m = y
  BY <1>2, <1>3
<1> HIDE DEF m
<1>5. m = Lesser(x, y)
  BY <1>3, <1>4 DEF Lesser
<1> QED BY <1>5 DEF m

\* One turn of the first loop of find_division, and what it has after k turns.
CoarseStep(H, s, j) ==
  IF s.prev < H /\ s.prev < Min({H, j.d})
  THEN [prev |-> j.d, out |-> Append(s.out, [a |-> s.prev, b |-> Min({H, j.d})])]
  ELSE s

CoarseState == [prev : Nat, out : Seq(Piece)]
CoarseStart == [prev |-> 0, out |-> <<>>]

\* The intervals reach from 0 to prev or to the horizon; after the first turn there is one.
IsCoarse(js, H, k, s) ==
  /\ s \in CoarseState /\ Chain(s.out, 0, Lesser(s.prev, H))
  /\ k = 0 => s = CoarseStart
  /\ k >= 1 => s.out # <<>> /\ s.out[1].b = Lesser(H, js[1].d)

LEMMA CoarseStepFacts ==
  ASSUME NEW js \in Seq(JobType), NEW H \in Nat \ {0}, NEW k \in 1 .. Len(js), \A i \in 1 .. Len(js) : js[i].d > 0,
         NEW s, IsCoarse(js, H, k - 1, s)
  PROVE  IsCoarse(js, H, k, CoarseStep(H, s, js[k]))
<1> DEFINE d == js[k].d
           m == Min({H, d})
<1>1. d \in Nat \ {0} /\ m = Lesser(H, d) /\ m \in Nat \ {0} /\ m <= H
  <2>1. d \in Nat \ {0} /\ H \in Int /\ d \in Int
    BY JobFacts
  <2> HIDE DEF d
  <2>2. m = Lesser(H, d)
    BY <2>1, MinOfTwo
  <2> QED BY <2>1, <2>2 DEF Lesser
<1>2. s.prev \in Nat /\ s.out \in Seq(Piece) /\ Chain(s.out, 0, Lesser(s.prev, H))
  BY DEF IsCoarse, CoarseState
<1> HIDE DEF d, m
<1>3. CASE s.prev < H /\ s.prev < m
  <2> DEFINE e == [a |-> s.prev, b |-> m]
             t == Append(s.out, e)
             u == [prev |-> d, out |-> t]
  <2>1. e \in Piece /\ e.a = s.prev /\ e.b = m /\ e.a < e.b /\ Lesser(s.prev, H) = e.a
    BY <1>1, <1>2, <1>3 DEF Piece, Lesser
  <2> HIDE DEF e
  <2>2. t \in Seq(Piece) /\ Chain(t, 0, m)
    <3>1. Chain(s.out, 0, e.a)
      BY <1>2, <2>1
    <3>2. Chain(t, 0, e.b)
      BY <1>2, <2>1, <3>1, ChainAppend
    <3> QED BY <1>2, <2>1, <3>2
  <2>3. t # <<>> /\ (s.out # <<>> => t[1] = s.out[1]) /\ (s.out = <<>> => t[1] = e)
    <3>1. ASSUME NEW r \in Seq(Piece), r # <<>> PROVE Append(r, e)[1] = r[1]
      BY <3>1
    <3>3. \A r \in Seq(Piece) : Append(r, e) # <<>>
      OBVIOUS
    <3>2. Append(<<>>, e)[1] = e
      OBVIOUS
    <3> QED BY <1>2, <3>1, <3>2, <3>3
  <2>4. t[1].b = Lesser(H, js[1].d)
    <3>1. CASE k = 1
      <4>1. s.out = <<>>
        BY <3>1 DEF IsCoarse, CoarseStart
      <4>2. t[1].b = m /\ d = js[1].d
        BY <2>1, <2>3, <3>1, <4>1 DEF d
      <4> QED BY <1>1, <4>2
    <3>2. CASE k # 1
      <4>1. k - 1 >= 1
        BY <3>2
      <4>2. s.out # <<>> /\ s.out[1].b = Lesser(H, js[1].d)
        BY <4>1 DEF IsCoarse
      <4> QED BY <2>3, <4>2
    <3> QED BY <3>1, <3>2
  <2>5. CoarseStep(H, s, js[k]) = u
    BY <1>3, <2>1 DEF CoarseStep, d, m, e
  <2>6. u \in CoarseState /\ u.prev = d /\ u.out = t
    <3> HIDE DEF t
    <3> QED BY <1>1, <2>2 DEF CoarseState
  <2>7. Lesser(d, H) = m
    BY <1>1 DEF Lesser
  <2>8. k # 0
    OBVIOUS
  <2> HIDE DEF u, t
  <2>9. IsCoarse(js, H, k, u)
    BY <2>2, <2>3, <2>4, <2>6, <2>7, <2>8 DEF IsCoarse
  <2> QED BY <2>5, <2>9
<1>4. CASE ~(s.prev < H /\ s.prev < m)
  <2>1. CoarseStep(H, s, js[k]) = s
    BY <1>4 DEF CoarseStep, d, m
  <2>2. k # 1
    <3> SUFFICES ASSUME k = 1 PROVE FALSE
      OBVIOUS
    <3>1. s.prev = 0
      BY DEF IsCoarse, CoarseStart
    <3> QED BY <1>1, <1>4, <3>1
  <2>3. k - 1 >= 1 /\ k # 0
    BY <2>2
  <2>4. IsCoarse(js, H, k, s)
    BY <2>3 DEF IsCoarse
  <2> QED BY <2>1, <2>4
<1> QED BY <1>3, <1>4

\* The loop makes those turns, ...
LEMMA CoarseIsIteration ==
  ASSUME NEW js \in Seq(JobType), NEW H \in Nat \ {0}, \A i \in 1 .. Len(js) : js[i].d > 0
  PROVE  \E s : /\ IsCoarse(js, H, Len(js), s)
               /\ CoarseIntervals(js, H) = IF s.prev < H THEN Append(s.out, [a |-> s.prev, b |-> H]) ELSE s.out
<1> DEFINE n == Len(js)
           V == CoarseState
           g == [i \in 1 .. n |-> [s \in V |-> CoarseStep(H, s, js[i])]]
           IsIter(f) == f = [T \in SUBSET (1 .. n) |-> IF T = {} THEN CoarseStart
                                                       ELSE CoarseStep(H, f[T \ {Max(T)}], js[Max(T)])]
           iter == CHOOSE f : IsIter(f)
<1>1. n \in Nat /\ DOMAIN js = 1 .. n /\ \A i \in 1 .. n : js[i].d \in Nat
  BY JobFacts
<1>2. g \in [1 .. n -> [V -> V]] /\ CoarseStart \in V
  <2>1. ASSUME NEW i \in 1 .. n, NEW s \in V PROVE CoarseStep(H, s, js[i]) \in V
    <3> DEFINE d == js[i].d
               m == Min({H, d})
    <3>1. d \in Nat /\ m \in Nat
      <4>1. d \in Nat /\ H \in Int /\ d \in Int
        BY <1>1
      <4> HIDE DEF d
      <4>2. m = Lesser(H, d)
        BY <4>1, MinOfTwo
      <4> QED BY <4>1, <4>2 DEF Lesser
    <3> HIDE DEF d, m
    <3>2. s.prev \in Nat /\ s.out \in Seq(Piece)
      BY DEF CoarseState
    <3>3. Append(s.out, [a |-> s.prev, b |-> m]) \in Seq(Piece)
      BY <3>1, <3>2 DEF Piece
    <3>4. [prev |-> d, out |-> Append(s.out, [a |-> s.prev, b |-> m])] \in V
      BY <3>1, <3>3 DEF CoarseState
    <3> QED BY <3>4 DEF CoarseStep, d, m
  <2>2. CoarseStart \in V
    BY DEF CoarseStart, CoarseState
  <2> HIDE DEF V, n
  <2> QED BY <2>1, <2>2
<1>3. PICK f \in [SUBSET (1 .. n) -> V] : IsPass(f, n, CoarseStart, g)
  <2> HIDE DEF g, V, n
  <2> QED BY <1>1, <1>2, PassIsDefined
<1>4. ASSUME NEW T \in SUBSET (1 .. n), T # {} PROVE Max(T) \in 1 .. n /\ T \ {Max(T)} \in SUBSET (1 .. n)
  <2>1. Max(T) \in T
    BY <1>1, <1>4, LastOfPart
  <2> QED BY <2>1
<1>5. ASSUME NEW T \in SUBSET (1 .. n)
      PROVE f[T] = IF T = {} THEN CoarseStart ELSE CoarseStep(H, f[T \ {Max(T)}], js[Max(T)])
  <2>1. f[T] = IF T = {} THEN CoarseStart ELSE g[Max(T)][f[T \ {Max(T)}]]
    BY <1>3 DEF IsPass
  <2>2. ASSUME T # {}
        PROVE  g[Max(T)][f[T \ {Max(T)}]] = CoarseStep(H, f[T \ {Max(T)}], js[Max(T)])
    <3>1. Max(T) \in 1 .. n /\ f[T \ {Max(T)}] \in V
      BY <1>3, <1>4, <2>2
    <3> HIDE DEF V
    <3> QED BY <3>1
  <2> QED BY <2>1, <2>2
<1>6. IsIter(f)
  <2>1. f = [T \in SUBSET (1 .. n) |-> f[T]]
    BY <1>3
  <2> HIDE DEF V, n
  <2> QED BY <2>1, <1>5, Zenon
<1>7. IsIter(iter)
  BY <1>6
<1>8. CoarseIntervals(js, H) = IF iter[1 .. n].prev < H
                               THEN Append(iter[1 .. n].out, [a |-> iter[1 .. n].prev, b |-> H])
                               ELSE iter[1 .. n].out
  BY <1>1 DEF CoarseIntervals, CoarseStep, CoarseStart, FoldLeft, MapThenFoldSet
<1> DEFINE F == {k \in 0 .. n : IsCoarse(js, H, k, iter[1 .. k])}
<1>9. 0 \in F
  <2>1. 1 .. 0 = {} /\ {} \in SUBSET (1 .. n) /\ 0 \in 0 .. n
    BY <1>1
  <2>2. iter[{}] = CoarseStart
    BY <1>7, <2>1
  <2>3. IsCoarse(js, H, 0, CoarseStart)
    BY DEF IsCoarse, CoarseStart, CoarseState, Chain, Lesser
  <2> HIDE DEF iter
  <2> QED BY <2>1, <2>2, <2>3
<1>10. ASSUME NEW k \in 1 .. n, k - 1 \in F PROVE k \in F
  <2> DEFINE l == k - 1
  <2>0. l \in 0 .. n - 1 /\ l + 1 = k /\ k \in 0 .. n
    BY <1>1
  <2>1. /\ 1 .. k \in SUBSET (1 .. n) /\ 1 .. k # {}
        /\ Max(1 .. k) = k /\ (1 .. k) \ {k} = 1 .. l
    <3> HIDE DEF l, n
    <3>1. /\ 1 .. l + 1 \in SUBSET (1 .. n) /\ 1 .. l + 1 # {}
          /\ Max(1 .. l + 1) = l + 1 /\ (1 .. l + 1) \ {l + 1} = 1 .. l
      BY <1>1, <2>0, LastOfInterval
    <3> QED BY <2>0, <3>1
  <2>2. iter[1 .. k] = CoarseStep(H, iter[1 .. l], js[k])
    <3>1. iter[1 .. k] = CoarseStep(H, iter[(1 .. k) \ {Max(1 .. k)}], js[Max(1 .. k)])
      <4> HIDE DEF l, iter, n
      <4> QED BY <1>7, <2>1
    <3> HIDE DEF l, iter, n
    <3> QED BY <2>1, <3>1
  <2>3. IsCoarse(js, H, k - 1, iter[1 .. l])
    BY <1>10
  <2> HIDE DEF l, iter
  <2>4. IsCoarse(js, H, k, CoarseStep(H, iter[1 .. l], js[k]))
    BY <2>3, CoarseStepFacts
  <2> QED BY <2>0, <2>2, <2>4
<1> HIDE DEF F, n
<1>11. n \in F
  <2>1. \A k \in 0 .. n : k \in F
    BY <1>1, <1>9, <1>10, IntervalInduction
  <2> QED BY <1>1, <2>1
<1> QED BY <1>8, <1>11 DEF F, n

\* ... so that the intervals reach from 0 to the horizon, and a job can run in the first.
LEMMA CoarseFacts ==
  ASSUME NEW js \in Seq(JobType), js # <<>>, NEW H \in Nat,
         \A i \in 1 .. Len(js) : js[i].p <= H /\ js[i].p <= js[i].d
  PROVE  /\ CoarseIntervals(js, H) \in Seq(Piece) /\ CoarseIntervals(js, H) # <<>>
         /\ Chain(CoarseIntervals(js, H), 0, H)
         /\ \E j \in 1 .. Len(js) : js[j].p <= CoarseIntervals(js, H)[1].b
<1> DEFINE n == Len(js)
<1>1. /\ n \in Nat \ {0} /\ 1 \in 1 .. n
      /\ \A i \in 1 .. n : js[i].p \in Nat \ {0} /\ js[i].d \in Nat /\ js[i].d > 0
  <2>1. n # 0 /\ n \in Nat
    OBVIOUS
  <2>2. \A i \in 1 .. n : js[i].p \in Nat \ {0} /\ js[i].d \in Nat /\ js[i].p <= js[i].d
    BY JobFacts
  <2> QED BY <2>1, <2>2
<1>2. H \in Nat \ {0}
  <2>1. js[1].p <= H
    BY <1>1
  <2> QED BY <1>1, <2>1
<1>3. PICK s : /\ IsCoarse(js, H, n, s)
               /\ CoarseIntervals(js, H) = IF s.prev < H THEN Append(s.out, [a |-> s.prev, b |-> H]) ELSE s.out
  BY <1>1, <1>2, CoarseIsIteration
<1>4. /\ s.prev \in Nat /\ s.out \in Seq(Piece) /\ Chain(s.out, 0, Lesser(s.prev, H))
      /\ s.out # <<>> /\ s.out[1].b = Lesser(H, js[1].d)
  <2>1. n >= 1
    BY <1>1
  <2> HIDE DEF n
  <2> QED BY <1>3, <2>1 DEF IsCoarse, CoarseState
<1>5. js[1].p <= Lesser(H, js[1].d)
  BY <1>1 DEF Lesser
<1>6. CASE s.prev < H
  <2> DEFINE e == [a |-> s.prev, b |-> H]
             t == Append(s.out, e)
  <2>1. e \in Piece /\ e.a = s.prev /\ e.b = H /\ e.a < e.b /\ Lesser(s.prev, H) = e.a
    BY <1>2, <1>4, <1>6 DEF Piece, Lesser
  <2>2. CoarseIntervals(js, H) = t
    BY <1>3, <1>6
  <2> HIDE DEF e
  <2>3. t \in Seq(Piece) /\ t # <<>> /\ t[1] = s.out[1]
    BY <1>4, <2>1
  <2>4. Chain(t, 0, H)
    <3>1. Chain(t, 0, e.b)
      BY <1>4, <2>1, ChainAppend
    <3> QED BY <2>1, <3>1
  <2> HIDE DEF t
  <2> QED BY <1>1, <1>4, <1>5, <2>2, <2>3, <2>4
<1>7. CASE ~(s.prev < H)
  <2>1. CoarseIntervals(js, H) = s.out /\ Lesser(s.prev, H) = H
    BY <1>2, <1>3, <1>4, <1>7 DEF Lesser
  <2> QED BY <1>1, <1>4, <1>5, <2>1
<1> QED BY <1>6, <1>7
------------------------------------------------------------------------------
(* Cutting an interval between due dates. *)

PairType(n) == [first : 1 .. n, second : 1 .. n, left : Int, right : Nat]

\* The pairs left move with the last cut, so that the next is a job's length behind it.
PairsFit(js, ps, last, b) ==
  /\ IsFiniteSet(ps)
  /\ \A q \in ps : q \in PairType(Len(js)) /\ q.right = last + js[q.second].p /\ q.right < b

CutsFit(js, cs, a, b) ==
  /\ cs \in Seq(Nat) /\ cs # <<>> /\ cs[1] = a /\ cs[Len(cs)] < b
  /\ \A i \in 1 .. Len(cs) : i < Len(cs) => \E j \in 1 .. Len(js) : cs[i + 1] = cs[i] + js[j].p

IntervalType(n) == [a : Nat, b : Nat, sigma : {s \in Seq(1 .. n) : IsOrder(s, n)}]

LEMMA SigmaFacts ==
  ASSUME jobs \in Seq(JobType), NEW a, NEW b
  PROVE  IsOrder(Sigma(a, b), Len(jobs)) /\ Sigma(a, b) \in Seq(1 .. Len(jobs))
<1> DEFINE R == [x, y \in DOMAIN jobs |-> Earlier(jobs, a, b, x, y)]
<1>1. Sigma(a, b) = Sorting(Len(jobs), R)
  BY DEF Sigma
<1>2. Len(jobs) \in Nat
  BY JobFacts
<1> HIDE DEF R
<1>3. IsOrder(Sorting(Len(jobs), R), Len(jobs))
  BY <1>2, SortingIsOrder
<1> QED BY <1>1, <1>3 DEF IsOrder

LEMMA PairLeftType ==
  ASSUME jobs \in Seq(JobType), NEW a \in Nat, NEW b \in Nat, NEW i \in 1 .. Len(jobs), NEW j \in 1 .. Len(jobs)
  PROVE  PairLeft(a, b, i, j) \in Int
<1> DEFINE x == jobs[j].w * jobs[i].p
           y == jobs[i].w
<1>1. jobs[i].p \in Nat /\ jobs[i].d \in Nat /\ jobs[j].w \in Nat /\ y \in Nat \ {0}
  BY JobFacts
<1>2. x \in Nat
  BY <1>1
<1> HIDE DEF x, y
<1>3. CeilDiv(x, y) \in Nat
  <2>1. x + y - 1 \in Nat
    BY <1>1, <1>2
  <2> QED BY <1>1, <2>1, DivIsNatural DEF CeilDiv
<1>4. PairLeft(a, b, i, j) = a \/ PairLeft(a, b, i, j) = jobs[i].d + CeilDiv(x, y) - jobs[i].p
  BY DEF PairLeft, x, y
<1>5. jobs[i].d + CeilDiv(x, y) - jobs[i].p \in Int
  BY <1>1, <1>3
<1> QED BY <1>4, <1>5

LEMMA SpecialPairsFacts ==
  ASSUME jobs \in Seq(JobType), NEW a \in Nat, NEW b \in Nat
  PROVE  PairsFit(jobs, SpecialPairs(a, b), a, b)
<1> DEFINE n == Len(jobs)
           sigma == Sigma(a, b)
           pair(x, y) == [first |-> sigma[x], second |-> sigma[y],
                          left |-> PairLeft(a, b, sigma[x], sigma[y]), right |-> a + jobs[sigma[y]].p]
           D == {xy \in (DOMAIN sigma) \X (DOMAIN sigma) : xy[1] < xy[2]}
           f == [xy \in D |-> pair(xy[1], xy[2])]
           all == {f[xy] : xy \in D}
<1>1. n \in Nat /\ \A i \in 1 .. n : jobs[i].p \in Nat
  BY JobFacts
<1>2. DOMAIN sigma = 1 .. n /\ \A x \in 1 .. n : sigma[x] \in 1 .. n
  <2>1. sigma \in Seq(1 .. n) /\ Len(sigma) = n
    BY SigmaFacts DEF IsOrder
  <2> HIDE DEF sigma, n
  <2> QED BY <2>1
<1>3. SpecialPairs(a, b) = {q \in all : /\ jobs[q.first].d < b /\ jobs[q.second].d < b
                                        /\ q.right < b /\ q.left > a}
  BY DEF SpecialPairs
<1>4. IsFiniteSet(all)
  <2> HIDE DEF sigma
  <2>1. IsFiniteSet(1 .. n)
    BY <1>1, FS_Interval
  <2>2. IsFiniteSet((1 .. n) \X (1 .. n))
    BY <2>1, FS_Product
  <2>3. D \subseteq (1 .. n) \X (1 .. n)
    BY <1>2
  <2>4. IsFiniteSet(D)
    BY <2>2, <2>3, FS_Subset
  <2>5. DOMAIN f = D
    OBVIOUS
  <2> HIDE DEF f, D
  <2> QED BY <2>4, <2>5, FiniteImage
<1>5. ASSUME NEW q \in all PROVE q \in PairType(n) /\ q.right = a + jobs[q.second].p
  <2>1. PICK xy \in D : q = f[xy]
    OBVIOUS
  <2>2. xy[1] \in 1 .. n /\ xy[2] \in 1 .. n
    <3> HIDE DEF sigma
    <3> QED BY <1>2
  <2> DEFINE i == sigma[xy[1]]
             j == sigma[xy[2]]
             l == PairLeft(a, b, i, j)
  <2>3. i \in 1 .. n /\ j \in 1 .. n
    BY <1>2, <2>2
  <2>4. q = [first |-> i, second |-> j, left |-> l, right |-> a + jobs[j].p]
    BY <2>1
  <2> HIDE DEF i, j
  <2>5. l \in Int
    BY <2>3, PairLeftType
  <2> HIDE DEF l, sigma
  <2> QED BY <1>1, <2>3, <2>4, <2>5 DEF PairType
<1> HIDE DEF all
<1>6. IsFiniteSet(SpecialPairs(a, b))
  BY <1>3, <1>4, FS_Subset
<1> QED BY <1>3, <1>5, <1>6 DEF PairsFit

\* One cut, behind which the pairs R move.
MovedBehind(js, t, R) == {[q EXCEPT !.right = t + js[q.second].p] : q \in R}

LEMMA CutFacts ==
  ASSUME NEW js \in Seq(JobType), NEW a, NEW b \in Nat, NEW cs, CutsFit(js, cs, a, b),
         NEW ps, PairsFit(js, ps, cs[Len(cs)], b), ps # {},
         NEW t, t = Min({q.right : q \in ps}), NEW R \in SUBSET ps,
         \A q \in R : t + js[q.second].p < b
  PROVE  /\ CutsFit(js, Append(cs, t), a, b)
         /\ PairsFit(js, MovedBehind(js, t, R), t, b)
<1> DEFINE n == Len(js)
           k == Len(cs)
           last == cs[Len(cs)]
           T == {q.right : q \in ps}
<1>1. n \in Nat /\ \A i \in 1 .. n : js[i].p \in Nat \ {0}
  BY JobFacts
<1>2. /\ cs \in Seq(Nat) /\ k \in Nat /\ k # 0 /\ last \in Nat /\ cs[1] = a /\ cs # <<>>
      /\ \A i \in 1 .. k : i < k => \E j \in 1 .. n : cs[i + 1] = cs[i] + js[j].p
  <2>1. cs \in Seq(Nat) /\ cs # <<>>
    BY DEF CutsFit
  <2>2. k \in Nat /\ k # 0
    BY <2>1
  <2>3. cs[k] \in Nat
    BY <2>1, <2>2
  <2> QED BY <2>1, <2>2, <2>3 DEF CutsFit
<1>3. \A q \in ps : q \in PairType(n) /\ q.right = last + js[q.second].p /\ q.right < b
  BY DEF PairsFit
<1>4. t \in T
  <2> DEFINE f == [q \in ps |-> q.right]
             W == {f[q] : q \in ps}
  <2>1. IsFiniteSet(W)
    <3>1. DOMAIN f = ps /\ IsFiniteSet(ps)
      BY DEF PairsFit
    <3> HIDE DEF f
    <3> QED BY <3>1, FiniteImage
  <2>2. W = T
    OBVIOUS
  <2>3. T \in SUBSET Int /\ T # {}
    BY <1>3 DEF PairType
  <2> HIDE DEF W, T
  <2>4. Min(T) \in T
    BY <2>1, <2>2, <2>3, MinIsLeast
  <2> QED BY <2>4 DEF T
<1>5. PICK m \in ps : t = m.right
  BY <1>4
<1>6. m.second \in 1 .. n /\ t = last + js[m.second].p /\ t < b /\ t \in Nat
  BY <1>3, <1>5 DEF PairType
<1> HIDE DEF T
<1>7. CutsFit(js, Append(cs, t), a, b)
  <2> DEFINE u == Append(cs, t)
  <2>1. /\ u \in Seq(Nat) /\ Len(u) = k + 1 /\ u # <<>> /\ u[k + 1] = t
        /\ \A i \in 1 .. k : u[i] = cs[i]
    <3>1. cs \in Seq(Nat) /\ t \in Nat
      BY <1>2, <1>6
    <3> QED BY <3>1, AppendFacts
  <2> HIDE DEF u, k
  <2>2. ASSUME NEW i \in 1 .. k + 1, i < k + 1 PROVE \E j \in 1 .. n : u[i + 1] = u[i] + js[j].p
    <3>1. CASE i = k
      <4>1. u[i] = last /\ u[i + 1] = t
        BY <1>2, <2>1, <3>1 DEF k
      <4> QED BY <1>6, <4>1
    <3>2. CASE i # k
      <4>1. i \in 1 .. k /\ i < k /\ i + 1 \in 1 .. k
        BY <1>2, <2>2, <3>2
      <4>2. u[i] = cs[i] /\ u[i + 1] = cs[i + 1]
        BY <2>1, <4>1
      <4> QED BY <1>2, <4>1, <4>2
    <3> QED BY <3>1, <3>2
  <2>3. u[1] = a /\ u[Len(u)] < b
    BY <1>2, <1>6, <2>1
  <2>4. CutsFit(js, u, a, b)
    BY <2>1, <2>2, <2>3 DEF CutsFit
  <2> QED BY <2>4 DEF u
<1>8. PairsFit(js, MovedBehind(js, t, R), t, b)
  <2> DEFINE f == [q \in R |-> [q EXCEPT !.right = t + js[q.second].p]]
             W == {f[q] : q \in R}
  <2>1. IsFiniteSet(W)
    <3>1. DOMAIN f = R /\ IsFiniteSet(R)
      BY FS_Subset DEF PairsFit
    <3> HIDE DEF f
    <3> QED BY <3>1, FiniteImage
  <2>2. ASSUME NEW r \in W PROVE r \in PairType(n) /\ r.right = t + js[r.second].p /\ r.right < b
    <3>1. PICK q \in R : r = [q EXCEPT !.right = t + js[q.second].p]
      OBVIOUS
    <3>2. q \in PairType(n) /\ t + js[q.second].p < b
      BY <1>3
    <3>3. q.second \in 1 .. n
      BY <3>2 DEF PairType
    <3>4. t + js[q.second].p \in Nat
      BY <1>1, <1>6, <3>3
    <3> HIDE DEF n
    <3>5. r \in PairType(n) /\ r.second = q.second /\ r.right = t + js[q.second].p
      BY <3>1, <3>2, <3>4 DEF PairType
    <3> QED BY <3>2, <3>5
  <2>3. W = MovedBehind(js, t, R)
    BY DEF MovedBehind
  <2> HIDE DEF W
  <2>4. PairsFit(js, W, t, b)
    BY <2>1, <2>2 DEF PairsFit
  <2> QED BY <2>3, <2>4
<1> QED BY <1>7, <1>8

\* The pieces between the cuts.
PiecesOf(t) == [i \in 1 .. Len(t) - 1 |-> [a |-> t[i], b |-> t[i + 1], sigma |-> Sigma(t[i], t[i + 1])]]

LEMMA PiecesFacts ==
  ASSUME jobs \in Seq(JobType), NEW a \in Nat, NEW b \in Nat, NEW cs, CutsFit(jobs, cs, a, b)
  PROVE  LET ps == PiecesOf(Append(cs, b))
         IN  /\ ps \in Seq(IntervalType(Len(jobs))) /\ ps # <<>> /\ Chain(ps, a, b)
             /\ ps[1].b = b \/ \E j \in 1 .. Len(jobs) : ps[1].b = a + jobs[j].p
<1> DEFINE t == Append(cs, b)
           ps == PiecesOf(t)
           n == Len(jobs)
           k == Len(cs)
<1>1. n \in Nat /\ \A i \in 1 .. n : jobs[i].p \in Nat \ {0}
  BY JobFacts
<1>2. /\ cs \in Seq(Nat) /\ k \in Nat /\ k # 0 /\ cs[k] \in Nat /\ cs[1] = a /\ cs[k] < b
      /\ \A i \in 1 .. k : i < k => \E j \in 1 .. n : cs[i + 1] = cs[i] + jobs[j].p
  <2>1. cs \in Seq(Nat) /\ cs # <<>>
    BY DEF CutsFit
  <2>2. k \in Nat /\ k # 0
    BY <2>1
  <2>3. cs[k] \in Nat
    BY <2>1, <2>2
  <2> QED BY <2>1, <2>2, <2>3 DEF CutsFit
<1>3. /\ t \in Seq(Nat) /\ Len(t) = k + 1 /\ t[k + 1] = b
      /\ \A i \in 1 .. k : t[i] = cs[i] /\ t[i] \in Nat
  <2>1. cs \in Seq(Nat) /\ k = Len(cs) /\ \A i \in 1 .. k : cs[i] \in Nat
    BY <1>2
  <2>2. /\ t \in Seq(Nat) /\ Len(t) = k + 1 /\ t[k + 1] = b
        /\ \A i \in 1 .. k : t[i] = cs[i]
    BY <2>1, AppendFacts
  <2> QED BY <2>1, <2>2
<1> HIDE DEF n, k, t
<1>4. ASSUME NEW i \in 1 .. k PROVE t[i] \in Nat /\ t[i + 1] \in Nat /\ t[i] < t[i + 1]
  <2>1. CASE i = k
    BY <1>2, <1>3, <2>1
  <2>2. CASE i # k
    <3>0. k \in Nat /\ i \in 1 .. k
      BY <1>2
    <3>1. i < k /\ i + 1 \in 1 .. k
      BY <2>2, <3>0
    <3>2. PICK j \in 1 .. n : cs[i + 1] = cs[i] + jobs[j].p
      BY <1>2, <3>1
    <3>3. t[i + 1] = t[i] + jobs[j].p /\ t[i] \in Nat
      BY <1>3, <3>1, <3>2
    <3> QED BY <1>1, <3>3
  <2> QED BY <2>1, <2>2
<1>5. DOMAIN ps = 1 .. k /\ \A i \in 1 .. k : ps[i] = [a |-> t[i], b |-> t[i + 1], sigma |-> Sigma(t[i], t[i + 1])]
  BY <1>2, <1>3 DEF PiecesOf
<1> HIDE DEF ps
<1>6. ASSUME NEW i \in 1 .. k
      PROVE  ps[i] \in IntervalType(n) /\ ps[i].a = t[i] /\ ps[i].b = t[i + 1]
  <2> DEFINE s == Sigma(t[i], t[i + 1])
  <2>1. IsOrder(s, n) /\ s \in Seq(1 .. n)
    BY SigmaFacts DEF n
  <2>2. ps[i] = [a |-> t[i], b |-> t[i + 1], sigma |-> s]
    BY <1>5
  <2> HIDE DEF s
  <2> QED BY <1>4, <2>1, <2>2 DEF IntervalType
<1>7. ps \in Seq(IntervalType(n)) /\ Len(ps) = k /\ ps # <<>>
  <2> DEFINE U == IntervalType(n)
  <2>1. ps = [i \in 1 .. k |-> ps[i]]
    BY <1>2, <1>3 DEF PiecesOf, ps
  <2>2. \A i \in 1 .. k : ps[i] \in U
    BY <1>6
  <2> HIDE DEF U
  <2>3. ps \in [1 .. k -> U]
    BY <2>1, <2>2
  <2>4. \A f \in [1 .. k -> U] : f \in Seq(U) /\ Len(f) = k
    BY <1>2
  <2>5. ps \in Seq(U) /\ Len(ps) = k
    BY <2>3, <2>4
  <2>6. ps # <<>>
    BY <1>2, <2>5
  <2> QED BY <2>5, <2>6 DEF U
<1>8. Chain(ps, a, b)
  <2>1. ASSUME NEW i \in 1 .. k PROVE ps[i].a < ps[i].b /\ (i < k => ps[i].b = ps[i + 1].a)
    <3>1. i < k => i + 1 \in 1 .. k
      BY <1>2
    <3> QED BY <1>4, <1>6, <3>1
  <2>2. ps[1].a = a /\ ps[k].b = b
    <3>1. 1 \in 1 .. k /\ k \in 1 .. k
      BY <1>2
    <3> QED BY <1>2, <1>3, <1>6, <3>1
  <2> QED BY <1>7, <2>1, <2>2 DEF Chain
<1>9. ps[1].b = b \/ \E j \in 1 .. n : ps[1].b = a + jobs[j].p
  <2>1. 1 \in 1 .. k /\ ps[1].b = t[1 + 1]
    BY <1>2, <1>6
  <2>2. CASE k = 1
    BY <1>3, <2>1, <2>2
  <2>3. CASE k # 1
    <3>1. 1 < k /\ 1 + 1 \in 1 .. k
      BY <1>2, <2>3
    <3>2. PICK j \in 1 .. n : cs[1 + 1] = cs[1] + jobs[j].p
      BY <1>2, <2>1, <3>1
    <3> QED BY <1>2, <1>3, <2>1, <3>1, <3>2
  <2> QED BY <2>2, <2>3
<1> QED BY <1>7, <1>8, <1>9 DEF n, ps, t
------------------------------------------------------------------------------
(* The layers. *)

LayerType == [job : 1 .. Len(jobs), a : Nat, b : Nat]
LayerOf(iv, j) == [job |-> j, a |-> iv.a, b |-> iv.b]

\* Job j of an interval, and all jobs of one.
AddLayer(iv, l, j) == IF jobs[j].p <= iv.b THEN Append(l, LayerOf(iv, j)) ELSE l
AddInterval(ls, iv) == FoldLeft(LAMBDA l, j : AddLayer(iv, l, j), ls, iv.sigma)

LayersWith(ls, iv, done, r) ==
  /\ r \in Seq(LayerType) /\ Len(r) >= Len(ls) /\ \A i \in 1 .. Len(ls) : r[i] = ls[i]
  /\ \A i \in Len(ls) + 1 .. Len(r) :
       r[i].job \in done /\ r[i].a = iv.a /\ r[i].b = iv.b /\ jobs[r[i].job].p <= iv.b
  /\ \A i, k \in Len(ls) + 1 .. Len(r) : r[i].job = r[k].job => i = k
  /\ (\E j \in done : jobs[j].p <= iv.b) => Len(r) > Len(ls)

LEMMA AddLayerFacts ==
  ASSUME jobs \in Seq(JobType), NEW iv \in IntervalType(Len(jobs)), NEW ls \in Seq(LayerType),
         NEW done \in SUBSET (1 .. Len(jobs)), NEW j \in 1 .. Len(jobs), j \notin done,
         NEW r, LayersWith(ls, iv, done, r)
  PROVE  LayersWith(ls, iv, done \cup {j}, AddLayer(iv, r, j))
<1> DEFINE m == Len(ls)
           n == Len(r)
           e == LayerOf(iv, j)
           u == Append(r, e)
<1>1. /\ m \in Nat /\ n \in Nat /\ n >= m /\ r \in Seq(LayerType)
      /\ (\A i \in 1 .. m : r[i] = ls[i])
      /\ (\A i \in m + 1 .. n : r[i].job \in done /\ r[i].a = iv.a /\ r[i].b = iv.b /\ jobs[r[i].job].p <= iv.b)
      /\ (\A i, k \in m + 1 .. n : r[i].job = r[k].job => i = k)
      /\ ((\E x \in done : jobs[x].p <= iv.b) => n > m)
  <2>1. r \in Seq(LayerType)
    BY DEF LayersWith
  <2>2. m \in Nat /\ n \in Nat
    BY <2>1
  <2> QED BY <2>2 DEF LayersWith
<1>2. iv.a \in Nat /\ iv.b \in Nat
  BY DEF IntervalType
<1>3. e \in LayerType /\ e.job = j /\ e.a = iv.a /\ e.b = iv.b
  BY <1>2 DEF LayerOf, LayerType
<1>4. CASE jobs[j].p <= iv.b
  <2>1. u \in Seq(LayerType) /\ Len(u) = n + 1 /\ u[n + 1] = e /\ \A i \in 1 .. n : u[i] = r[i]
    <3> HIDE DEF e
    <3> QED BY <1>1, <1>3
  <2>2. AddLayer(iv, r, j) = u
    BY <1>4 DEF AddLayer
  <2> HIDE DEF u, e, m, n
  <2>3. \A i \in 1 .. m : u[i] = ls[i]
    BY <1>1, <2>1
  <2>4. ASSUME NEW i \in m + 1 .. n + 1
        PROVE  /\ u[i].job \in done \cup {j} /\ u[i].a = iv.a /\ u[i].b = iv.b /\ jobs[u[i].job].p <= iv.b
               /\ i = n + 1 => u[i].job = j
               /\ i # n + 1 => i \in m + 1 .. n /\ u[i].job = r[i].job /\ u[i].job \in done
    <3>1. CASE i = n + 1
      BY <1>3, <1>4, <2>1, <3>1
    <3>2. CASE i # n + 1
      <4>1. i \in m + 1 .. n /\ i \in 1 .. n
        BY <1>1, <3>2
      <4>2. u[i] = r[i]
        BY <2>1, <4>1
      <4> QED BY <1>1, <3>2, <4>1, <4>2
    <3> QED BY <3>1, <3>2
  <2>5. ASSUME NEW i \in m + 1 .. n + 1, NEW k \in m + 1 .. n + 1, u[i].job = u[k].job PROVE i = k
    BY <1>1, <2>4, <2>5
  <2>6. n + 1 > m
    BY <1>1
  <2>7. LayersWith(ls, iv, done \cup {j}, u)
    BY <1>1, <2>1, <2>3, <2>4, <2>5, <2>6 DEF LayersWith, m
  <2> QED BY <2>2, <2>7
<1>5. CASE ~(jobs[j].p <= iv.b)
  <2>1. AddLayer(iv, r, j) = r
    BY <1>5 DEF AddLayer
  <2>2. (\E x \in done \cup {j} : jobs[x].p <= iv.b) => n > m
    BY <1>1, <1>5
  <2>3. \A i \in m + 1 .. n : r[i].job \in done \cup {j}
    BY <1>1
  <2>4. LayersWith(ls, iv, done \cup {j}, r)
    <3> HIDE DEF m, n
    <3> QED BY <1>1, <2>2, <2>3 DEF LayersWith, m, n
  <2> QED BY <2>1, <2>4
<1> QED BY <1>4, <1>5

\* An interval adds one layer for each job that can complete in it.
LEMMA AddIntervalFacts ==
  ASSUME jobs \in Seq(JobType), NEW iv \in IntervalType(Len(jobs)), NEW ls \in Seq(LayerType)
  PROVE  LayersWith(ls, iv, 1 .. Len(jobs), AddInterval(ls, iv))
<1> DEFINE n == Len(jobs)
           sigma == iv.sigma
           V == Seq(LayerType)
           g == [x \in 1 .. n |-> [l \in V |-> AddLayer(iv, l, sigma[x])]]
           IsIter(f) == f = [T \in SUBSET (1 .. n) |-> IF T = {} THEN ls
                                                       ELSE AddLayer(iv, f[T \ {Max(T)}], sigma[Max(T)])]
           iter == CHOOSE f : IsIter(f)
           done(k) == {sigma[x] : x \in 1 .. k}
<1>1. /\ n \in Nat /\ DOMAIN sigma = 1 .. n /\ (\A x \in 1 .. n : sigma[x] \in 1 .. n)
      /\ (\A y \in 1 .. n : \E x \in 1 .. n : sigma[x] = y)
      /\ \A x, y \in 1 .. n : sigma[x] = sigma[y] => x = y
  <2>1. n \in Nat
    BY JobFacts
  <2>2. sigma \in Seq(1 .. n) /\ IsOrder(sigma, n)
    BY DEF IntervalType
  <2> HIDE DEF sigma, n
  <2>3. Len(sigma) = n
    BY <2>2 DEF IsOrder
  <2>4. DOMAIN sigma = 1 .. n /\ (\A x \in 1 .. n : sigma[x] \in 1 .. n)
    BY <2>1, <2>2, <2>3
  <2> QED BY <2>1, <2>2, <2>4 DEF IsOrder
<1> HIDE DEF sigma
<1>2. g \in [1 .. n -> [V -> V]] /\ ls \in V
  <2>1. ASSUME NEW x \in 1 .. n, NEW l \in V PROVE AddLayer(iv, l, sigma[x]) \in V
    <3> DEFINE e == LayerOf(iv, sigma[x])
    <3>1. e \in LayerType
      <4>1. iv.a \in Nat /\ iv.b \in Nat /\ sigma[x] \in 1 .. Len(jobs)
        BY <1>1 DEF IntervalType
      <4> QED BY <4>1 DEF LayerOf, LayerType
    <3> HIDE DEF e
    <3>2. Append(l, e) \in V
      BY <3>1
    <3> QED BY <3>2 DEF AddLayer, e
  <2>2. ls \in V
    OBVIOUS
  <2> HIDE DEF V, n
  <2> QED BY <2>1, <2>2
<1>3. PICK f \in [SUBSET (1 .. n) -> V] : IsPass(f, n, ls, g)
  <2>1. ls \in V
    OBVIOUS
  <2> HIDE DEF g, V, n
  <2> QED BY <1>1, <1>2, <2>1, PassIsDefined
<1>4. ASSUME NEW T \in SUBSET (1 .. n), T # {} PROVE Max(T) \in 1 .. n /\ T \ {Max(T)} \in SUBSET (1 .. n)
  <2>1. Max(T) \in T
    BY <1>1, <1>4, LastOfPart
  <2> QED BY <2>1
<1>5. ASSUME NEW T \in SUBSET (1 .. n)
      PROVE f[T] = IF T = {} THEN ls ELSE AddLayer(iv, f[T \ {Max(T)}], sigma[Max(T)])
  <2>1. f[T] = IF T = {} THEN ls ELSE g[Max(T)][f[T \ {Max(T)}]]
    BY <1>3 DEF IsPass
  <2>2. ASSUME T # {}
        PROVE  g[Max(T)][f[T \ {Max(T)}]] = AddLayer(iv, f[T \ {Max(T)}], sigma[Max(T)])
    <3>1. Max(T) \in 1 .. n /\ f[T \ {Max(T)}] \in V
      BY <1>3, <1>4, <2>2
    <3> HIDE DEF V
    <3> QED BY <3>1
  <2> QED BY <2>1, <2>2
<1>6. IsIter(f)
  <2>1. f = [T \in SUBSET (1 .. n) |-> f[T]]
    BY <1>3
  <2> HIDE DEF V, n
  <2> QED BY <2>1, <1>5, Zenon
<1>7. IsIter(iter)
  BY <1>6
<1>8. AddInterval(ls, iv) = iter[1 .. n]
  BY <1>1 DEF AddInterval, FoldLeft, MapThenFoldSet, sigma
<1> DEFINE F == {k \in 0 .. n : LayersWith(ls, iv, done(k), iter[1 .. k])}
<1>9. 0 \in F
  <2>1. 1 .. 0 = {} /\ {} \in SUBSET (1 .. n) /\ 0 \in 0 .. n /\ done(0) = {}
    BY <1>1
  <2>2. iter[{}] = ls
    BY <1>7, <2>1
  <2>3. LayersWith(ls, iv, {}, ls)
    <3>1. Len(ls) \in Nat /\ Len(ls) + 1 .. Len(ls) = {}
      OBVIOUS
    <3> QED BY <3>1 DEF LayersWith
  <2> HIDE DEF iter, done
  <2> QED BY <2>1, <2>2, <2>3
<1>10. ASSUME NEW k \in 1 .. n, k - 1 \in F PROVE k \in F
  <2> DEFINE l == k - 1
  <2>0. l \in 0 .. n - 1 /\ l + 1 = k /\ k \in 0 .. n
    BY <1>1
  <2>1. /\ 1 .. k \in SUBSET (1 .. n) /\ 1 .. k # {}
        /\ Max(1 .. k) = k /\ (1 .. k) \ {k} = 1 .. l
    <3> HIDE DEF l, n
    <3>1. /\ 1 .. l + 1 \in SUBSET (1 .. n) /\ 1 .. l + 1 # {}
          /\ Max(1 .. l + 1) = l + 1 /\ (1 .. l + 1) \ {l + 1} = 1 .. l
      BY <1>1, <2>0, LastOfInterval
    <3> QED BY <2>0, <3>1
  <2>2. iter[1 .. k] = AddLayer(iv, iter[1 .. l], sigma[k])
    <3>1. iter[1 .. k] = AddLayer(iv, iter[(1 .. k) \ {Max(1 .. k)}], sigma[Max(1 .. k)])
      <4> HIDE DEF l, iter, n
      <4> QED BY <1>7, <2>1
    <3> HIDE DEF l, iter, n
    <3> QED BY <2>1, <3>1
  <2>3. LayersWith(ls, iv, done(l), iter[1 .. l])
    BY <1>10
  <2>4. done(l) \in SUBSET (1 .. n) /\ sigma[k] \in 1 .. n /\ sigma[k] \notin done(l) /\ done(k) = done(l) \cup {sigma[k]}
    <3>0. n \in Nat /\ k \in 1 .. n /\ l \in Int /\ k = l + 1
      BY <1>1
    <3> HIDE DEF l, n
    <3>1. \A x \in 1 .. l : x \in 1 .. n /\ x # k
      BY <3>0
    <3>2. 1 .. k = (1 .. l) \cup {k}
      BY <3>0
    <3>3. l \in Int
      BY <3>0
    <3>4. done(l) \in SUBSET (1 .. n)
      BY <1>1, <3>1
    <3>5. ASSUME sigma[k] \in done(l) PROVE FALSE
      <4>1. PICK x \in 1 .. l : sigma[k] = sigma[x]
        BY <3>5
      <4> QED BY <1>1, <3>1, <4>1
    <3>6. done(k) = done(l) \cup {sigma[k]}
      BY <3>2
    <3> QED BY <1>1, <3>4, <3>5, <3>6
  <2> HIDE DEF l, iter, done
  <2>5. LayersWith(ls, iv, done(l) \cup {sigma[k]}, AddLayer(iv, iter[1 .. l], sigma[k]))
    BY <2>3, <2>4, AddLayerFacts
  <2> QED BY <2>0, <2>2, <2>4, <2>5
<1>11. done(n) = 1 .. n
  BY <1>1
<1> HIDE DEF F, n, done
<1>12. n \in F
  <2>1. \A k \in 0 .. n : k \in F
    BY <1>1, <1>9, <1>10, IntervalInduction
  <2> QED BY <1>1, <2>1
<1> QED BY <1>8, <1>11, <1>12 DEF F, n

\* Intervals that reach from 0 to the horizon, in the first of which a job can run.
IntervalsFit ==
  /\ intervals \in Seq(IntervalType(Len(jobs))) /\ intervals # <<>>
  /\ Chain(intervals, 0, hmax)
  /\ \E j \in 1 .. Len(jobs) : jobs[j].p <= intervals[1].b

\* The layers of the first k intervals.
LayersUpTo(k, ls) ==
  /\ ls \in Seq(LayerType)
  /\ k = 0 => ls = <<>>
  /\ k >= 1 => ls # <<>> /\ ls[1].a = 0 /\ jobs[ls[1].job].p <= ls[1].b
  /\ \A i \in 1 .. Len(ls) : ls[i].b <= intervals[k].b
  /\ \A i, l \in 1 .. Len(ls) : i < l /\ ls[i].job = ls[l].job => ls[i].b <= ls[l].a

LEMMA LayersGrow ==
  ASSUME jobs \in Seq(JobType), IntervalsFit, NEW k \in 1 .. Len(intervals), NEW ls, LayersUpTo(k - 1, ls)
  PROVE  LayersUpTo(k, AddInterval(ls, intervals[k]))
<1> DEFINE iv == intervals[k]
           r == AddInterval(ls, iv)
           m == Len(ls)
           n == Len(r)
           J == 1 .. Len(jobs)
<1>1. iv \in IntervalType(Len(jobs)) /\ ls \in Seq(LayerType) /\ m \in Nat
  BY DEF IntervalsFit, LayersUpTo
<1>2. iv.a \in Nat /\ iv.b \in Nat /\ iv.a < iv.b
  BY <1>1 DEF IntervalType, IntervalsFit, Chain
<1>3. LayersWith(ls, iv, J, r)
  <2> HIDE DEF iv
  <2> QED BY <1>1, AddIntervalFacts
<1> HIDE DEF iv, r
<1>4. /\ r \in Seq(LayerType) /\ n >= m /\ (\A i \in 1 .. m : r[i] = ls[i])
      /\ (\A i \in m + 1 .. n : r[i].job \in J /\ r[i].a = iv.a /\ r[i].b = iv.b /\ jobs[r[i].job].p <= iv.b)
      /\ (\A i, l \in m + 1 .. n : r[i].job = r[l].job => i = l)
      /\ ((\E j \in J : jobs[j].p <= iv.b) => n > m)
  BY <1>3 DEF LayersWith
<1>5. n \in Nat /\ (r # <<>> <=> n # 0) /\ (ls # <<>> <=> m # 0)
  BY <1>1, <1>4
<1>6. /\ k - 1 = 0 => m = 0
      /\ k - 1 >= 1 => m # 0 /\ ls[1].a = 0 /\ jobs[ls[1].job].p <= ls[1].b
      /\ \A i \in 1 .. m : ls[i].b <= intervals[k - 1].b
      /\ \A i, l \in 1 .. m : i < l /\ ls[i].job = ls[l].job => ls[i].b <= ls[l].a
  BY <1>5 DEF LayersUpTo
<1>7. k # 1 => k - 1 >= 1 /\ intervals[k - 1].b = iv.a
  <2> SUFFICES ASSUME k # 1 PROVE k - 1 >= 1 /\ intervals[k - 1].b = iv.a
    OBVIOUS
  <2>1. Len(intervals) \in Nat
    BY DEF IntervalsFit
  <2>2. k - 1 \in 1 .. Len(intervals) /\ k - 1 < Len(intervals) /\ (k - 1) + 1 = k
    BY <2>1
  <2>3. intervals[k - 1].b = intervals[(k - 1) + 1].a
    BY <2>2 DEF IntervalsFit, Chain
  <2> QED BY <2>2, <2>3 DEF iv
<1>8. k = 1 => iv.a = 0 /\ n > m /\ m = 0
  <2> SUFFICES ASSUME k = 1 PROVE iv.a = 0 /\ n > m /\ m = 0
    OBVIOUS
  <2>1. iv.a = 0 /\ \E j \in J : jobs[j].p <= iv.b
    BY DEF IntervalsFit, Chain, iv
  <2> QED BY <1>4, <1>6, <2>1
<1> HIDE DEF m, n, J
<1>9. \A i \in 1 .. m : r[i] \in LayerType /\ r[i].b \in Nat /\ r[i].b <= iv.a /\ r[i].b <= iv.b
  <2> SUFFICES ASSUME NEW i \in 1 .. m
               PROVE  r[i] \in LayerType /\ r[i].b \in Nat /\ r[i].b <= iv.a /\ r[i].b <= iv.b
    OBVIOUS
  <2>1. ls[i] \in LayerType
    BY <1>1 DEF m
  <2>2. r[i] = ls[i] /\ ls[i].b \in Nat
    BY <1>4, <2>1 DEF LayerType
  <2>3. k # 1
    BY <1>1, <1>8
  <2>4. ls[i].b <= iv.a
    BY <1>6, <1>7, <2>3
  <2> QED BY <1>2, <2>1, <2>2, <2>4
<1>10. \A i \in 1 .. n : r[i].b <= iv.b
  <2> SUFFICES ASSUME NEW i \in 1 .. n PROVE r[i].b <= iv.b
    OBVIOUS
  <2>1. i \in 1 .. m \/ i \in m + 1 .. n
    BY <1>1, <1>5
  <2>2. CASE i \in m + 1 .. n
    <3>1. r[i].b = iv.b
      BY <1>4, <2>2
    <3> QED BY <1>2, <3>1
  <2> QED BY <1>9, <2>1, <2>2
<1>11. ASSUME NEW i \in 1 .. n, NEW l \in 1 .. n, i < l, r[i].job = r[l].job PROVE r[i].b <= r[l].a
  <2>1. CASE l \in 1 .. m
    <3>1. i \in 1 .. m
      BY <1>1, <1>11, <2>1
    <3> QED BY <1>4, <1>6, <1>11, <2>1, <3>1
  <2>2. CASE l \in m + 1 .. n
    <3>1. r[l].a = iv.a
      BY <1>4, <2>2
    <3>2. CASE i \in 1 .. m
      BY <1>9, <3>1, <3>2
    <3>3. CASE i \in m + 1 .. n
      <4>1. i = l
        BY <1>4, <1>11, <2>2, <3>3
      <4> QED BY <1>11, <4>1
    <3>4. i \in 1 .. m \/ i \in m + 1 .. n
      BY <1>1, <1>5
    <3> QED BY <3>2, <3>3, <3>4
  <2>3. l \in 1 .. m \/ l \in m + 1 .. n
    BY <1>1, <1>5
  <2> QED BY <2>1, <2>2, <2>3
<1>12. r # <<>> /\ r[1].a = 0 /\ jobs[r[1].job].p <= r[1].b
  <2>1. CASE k = 1
    <3>1. 1 \in m + 1 .. n /\ n # 0
      BY <1>1, <1>5, <1>8, <2>1
    <3>2. r[1].a = iv.a /\ r[1].b = iv.b /\ jobs[r[1].job].p <= iv.b
      BY <1>4, <3>1
    <3> QED BY <1>5, <1>8, <2>1, <3>1, <3>2
  <2>2. CASE k # 1
    <3>1. m # 0 /\ ls[1].a = 0 /\ jobs[ls[1].job].p <= ls[1].b
      BY <1>6, <1>7, <2>2
    <3>2. 1 \in 1 .. m /\ n # 0
      BY <1>1, <1>4, <1>5, <3>1
    <3> QED BY <1>4, <1>5, <3>1, <3>2
  <2> QED BY <2>1, <2>2
<1>13. k # 0
  OBVIOUS
<1>14. LayersUpTo(k, r)
  BY <1>4, <1>10, <1>11, <1>12, <1>13 DEF LayersUpTo, iv, n
<1> QED BY <1>14 DEF r, iv

LEMMA LayersFacts ==
  ASSUME jobs \in Seq(JobType), IntervalsFit
  PROVE  LayersUpTo(Len(intervals), Layers) /\ Len(intervals) \in Nat \ {0}
<1> DEFINE n == Len(intervals)
           V == Seq(LayerType)
           g == [x \in 1 .. n |-> [ls \in V |-> AddInterval(ls, intervals[x])]]
           IsIter(f) == f = [T \in SUBSET (1 .. n) |-> IF T = {} THEN <<>>
                                                       ELSE AddInterval(f[T \ {Max(T)}], intervals[Max(T)])]
           iter == CHOOSE f : IsIter(f)
<1>1. n \in Nat /\ n # 0 /\ DOMAIN intervals = 1 .. n /\ \A x \in 1 .. n : intervals[x] \in IntervalType(Len(jobs))
  <2> DEFINE U == IntervalType(Len(jobs))
  <2>1. intervals \in Seq(U) /\ intervals # <<>>
    BY DEF IntervalsFit
  <2> HIDE DEF U
  <2>2. n \in Nat /\ n # 0 /\ DOMAIN intervals = 1 .. n /\ \A x \in 1 .. n : intervals[x] \in U
    BY <2>1
  <2> QED BY <2>2 DEF U
<1>2. g \in [1 .. n -> [V -> V]]
  <2>1. ASSUME NEW x \in 1 .. n, NEW ls \in V PROVE AddInterval(ls, intervals[x]) \in V
    <3>1. intervals[x] \in IntervalType(Len(jobs))
      BY <1>1
    <3>2. LayersWith(ls, intervals[x], 1 .. Len(jobs), AddInterval(ls, intervals[x]))
      BY <3>1, AddIntervalFacts
    <3> QED BY <3>2 DEF LayersWith
  <2> HIDE DEF V, n
  <2> QED BY <2>1
<1>3. PICK f \in [SUBSET (1 .. n) -> V] : IsPass(f, n, <<>>, g)
  <2> DEFINE z == <<>>
  <2>1. z \in V
    OBVIOUS
  <2> HIDE DEF g, V, n, z
  <2>2. \E f \in [SUBSET (1 .. n) -> V] : IsPass(f, n, z, g)
    BY <1>1, <1>2, <2>1, PassIsDefined
  <2> QED BY <2>2 DEF z
<1>4. ASSUME NEW T \in SUBSET (1 .. n), T # {} PROVE Max(T) \in 1 .. n /\ T \ {Max(T)} \in SUBSET (1 .. n)
  <2>1. Max(T) \in T
    BY <1>1, <1>4, LastOfPart
  <2> QED BY <2>1
<1>5. ASSUME NEW T \in SUBSET (1 .. n)
      PROVE f[T] = IF T = {} THEN <<>> ELSE AddInterval(f[T \ {Max(T)}], intervals[Max(T)])
  <2>1. f[T] = IF T = {} THEN <<>> ELSE g[Max(T)][f[T \ {Max(T)}]]
    BY <1>3 DEF IsPass
  <2>2. ASSUME T # {}
        PROVE  g[Max(T)][f[T \ {Max(T)}]] = AddInterval(f[T \ {Max(T)}], intervals[Max(T)])
    <3>1. Max(T) \in 1 .. n /\ f[T \ {Max(T)}] \in V
      BY <1>3, <1>4, <2>2
    <3> HIDE DEF V
    <3> QED BY <3>1
  <2> QED BY <2>1, <2>2
<1>6. IsIter(f)
  <2>1. f = [T \in SUBSET (1 .. n) |-> f[T]]
    BY <1>3
  <2> HIDE DEF V, n
  <2> QED BY <2>1, <1>5, Zenon
<1>7. IsIter(iter)
  BY <1>6
<1>8. Layers = iter[1 .. n]
  BY <1>1 DEF Layers, AddInterval, AddLayer, LayerOf, FoldLeft, MapThenFoldSet
<1> DEFINE F == {k \in 0 .. n : LayersUpTo(k, iter[1 .. k])}
<1>9. 0 \in F
  <2>1. 1 .. 0 = {} /\ {} \in SUBSET (1 .. n) /\ 0 \in 0 .. n
    BY <1>1
  <2>2. iter[{}] = <<>>
    BY <1>7, <2>1
  <2>3. LayersUpTo(0, <<>>)
    BY DEF LayersUpTo
  <2> HIDE DEF iter
  <2> QED BY <2>1, <2>2, <2>3
<1>10. ASSUME NEW k \in 1 .. n, k - 1 \in F PROVE k \in F
  <2> DEFINE l == k - 1
  <2>0. l \in 0 .. n - 1 /\ l + 1 = k /\ k \in 0 .. n
    BY <1>1
  <2>1. /\ 1 .. k \in SUBSET (1 .. n) /\ 1 .. k # {}
        /\ Max(1 .. k) = k /\ (1 .. k) \ {k} = 1 .. l
    <3> HIDE DEF l, n
    <3>1. /\ 1 .. l + 1 \in SUBSET (1 .. n) /\ 1 .. l + 1 # {}
          /\ Max(1 .. l + 1) = l + 1 /\ (1 .. l + 1) \ {l + 1} = 1 .. l
      BY <1>1, <2>0, LastOfInterval
    <3> QED BY <2>0, <3>1
  <2>2. iter[1 .. k] = AddInterval(iter[1 .. l], intervals[k])
    <3>1. iter[1 .. k] = AddInterval(iter[(1 .. k) \ {Max(1 .. k)}], intervals[Max(1 .. k)])
      <4> HIDE DEF l, iter, n
      <4> QED BY <1>7, <2>1
    <3> HIDE DEF l, iter, n
    <3> QED BY <2>1, <3>1
  <2>3. LayersUpTo(k - 1, iter[1 .. l])
    BY <1>10
  <2> HIDE DEF l, iter
  <2>4. LayersUpTo(k, AddInterval(iter[1 .. l], intervals[k]))
    BY <2>3, LayersGrow
  <2> QED BY <2>0, <2>2, <2>4
<1> HIDE DEF F, n
<1>11. n \in F
  <2>1. \A k \in 0 .. n : k \in F
    BY <1>1, <1>9, <1>10, IntervalInduction
  <2> QED BY <1>1, <2>1
<1> QED BY <1>1, <1>8, <1>11 DEF F, n
------------------------------------------------------------------------------
(* What raised due dates cost in advance. *)

LEMMA SumOfAdded ==
  ASSUME NEW S, IsFiniteSet(S), NEW u, NEW v, NEW w,
         \A x \in S : u[x] \in Int /\ v[x] \in Int /\ w[x] = u[x] + v[x]
  PROVE  SumFunctionOnSet(w, S) = SumFunctionOnSet(u, S) + SumFunctionOnSet(v, S)
<1> DEFINE F == {T \in SUBSET S : SumFunctionOnSet(w, T) = SumFunctionOnSet(u, T) + SumFunctionOnSet(v, T)}
<1>1. {} \in F
  BY SumOfNone
<1>2. ASSUME NEW T \in SUBSET S, T # {}, \A x \in T : T \ {x} \in F PROVE T \in F
  <2>1. PICK x \in T : TRUE
    BY <1>2
  <2> DEFINE R == T \ {x}
  <2>2. IsFiniteSet(T) /\ IsFiniteSet(R) /\ \A y \in T : u[y] \in Int /\ v[y] \in Int /\ w[y] \in Int
    BY FS_Subset
  <2>3. SumFunctionOnSet(w, R) = SumFunctionOnSet(u, R) + SumFunctionOnSet(v, R)
    BY <1>2, <2>1
  <2>4. /\ SumFunctionOnSet(w, T) = w[x] + SumFunctionOnSet(w, R)
        /\ SumFunctionOnSet(u, T) = u[x] + SumFunctionOnSet(u, R)
        /\ SumFunctionOnSet(v, T) = v[x] + SumFunctionOnSet(v, R)
    BY <2>1, <2>2, SumRemove
  <2>5. SumFunctionOnSet(u, R) \in Int /\ SumFunctionOnSet(v, R) \in Int
    <3>1. \A y \in R : u[y] \in Int /\ v[y] \in Int
      BY <2>2
    <3> HIDE DEF R
    <3> QED BY <2>2, <3>1, SumType
  <2>6. u[x] \in Int /\ v[x] \in Int /\ w[x] = u[x] + v[x]
    BY <2>1, <2>2
  <2> HIDE DEF R
  <2>7. SumFunctionOnSet(w, T) = SumFunctionOnSet(u, T) + SumFunctionOnSet(v, T)
    BY <2>3, <2>4, <2>5, <2>6
  <2> QED BY <2>7
<1>3. S \in F
  <2> HIDE DEF F
  <2>1. \A T \in SUBSET S : T \in F
    BY <1>1, <1>2, RemovalInduction
  <2> QED BY <2>1
<1> QED BY <1>3

LEMMA MaxOfTwo ==
  ASSUME NEW x \in Int, NEW y \in Int
  PROVE  Max({x, y}) = IF x <= y THEN y ELSE x
<1> DEFINE S == {x, y}
<1>1. IsFiniteSet(S)
  <2>1. S = {x} \cup {y} /\ IsFiniteSet({x}) /\ IsFiniteSet({y})
    BY FS_Singleton
  <2> HIDE DEF S
  <2> QED BY <2>1, FS_Union
<1>2. S \in SUBSET Int /\ S # {} /\ x \in S /\ y \in S /\ \A z \in S : z = x \/ z = y
  OBVIOUS
<1> DEFINE m == Max(S)
<1>3. m \in S /\ m >= x /\ m >= y
  <2> HIDE DEF S
  <2> QED BY <1>1, <1>2, MaxIsGreatest
<1>4. m = x \/ m = y
  BY <1>2, <1>3
<1> HIDE DEF m
<1>5. m = IF x <= y THEN y ELSE x
  BY <1>3, <1>4
<1> QED BY <1>5 DEF m

\* A job that ends no sooner than it can: what it was charged in advance and what it
\* costs by the raised due date are what it costs by the one it had.
LEMMA RaisedDueDate ==
  ASSUME NEW p \in Nat, NEW d \in Int, NEW w \in Nat, NEW C \in Int, C >= p
  PROVE  /\ w * Late(p, d) \in Nat /\ w * Late(C, Max({d, p})) \in Nat
         /\ w * Late(C, d) = w * Late(p, d) + w * Late(C, Max({d, p}))
<1> DEFINE x == Late(p, d)
           y == Late(C, Max({d, p}))
<1>1. Max({d, p}) = IF d <= p THEN p ELSE d
  BY MaxOfTwo
<1>2. x \in Nat /\ y \in Nat /\ Late(C, d) = x + y
  BY <1>1 DEF Late
<1> HIDE DEF x, y
<1>3. w * x \in Nat /\ w * y \in Nat /\ w * (x + y) = w * x + w * y
  BY <1>2
<1> QED BY <1>2, <1>3 DEF x, y

DueOf(i) == file.lines[i].d \div file.m
JobOf(i) == [p |-> file.lines[i].p, w |-> file.lines[i].w, d |-> Max({DueOf(i), file.lines[i].p})]
Advance == [i \in 1 .. Len(file.lines) |-> file.lines[i].w * Late(file.lines[i].p, DueOf(i))]

\* While a file is read: the jobs are those of its first lines, and the offset is what
\* their raised due dates cost.
ReadFits ==
  /\ Len(jobs) <= Len(file.lines)
  /\ \A i \in 1 .. Len(jobs) : jobs[i] = JobOf(i)
  /\ off = SumFunctionOnSet(Advance, 1 .. Len(jobs))

LEMMA FileFacts ==
  ASSUME file \in Files
  PROVE  /\ file.m \in Nat \ {0} /\ file.lines # <<>> /\ Len(file.lines) \in Nat \ {0}
         /\ \A i \in 1 .. Len(file.lines) :
              /\ file.lines[i].p \in Nat \ {0} /\ file.lines[i].w \in Nat \ {0} /\ DueOf(i) \in Nat
              /\ JobOf(i) \in JobType /\ JobOf(i).p <= JobOf(i).d
              /\ Advance[i] \in Nat
<1> DEFINE n == Len(file.lines)
<1>1. file.m \in Nat \ {0} /\ file.lines # <<>> /\ file.lines \in Seq(JobType)
  BY FileAssumption DEF JobType
<1>2. n \in Nat \ {0}
  <2>1. \A s \in Seq(JobType) : s # <<>> => Len(s) \in Nat \ {0}
    OBVIOUS
  <2> QED BY <1>1, <2>1
<1>3. ASSUME NEW i \in 1 .. n
      PROVE  /\ file.lines[i].p \in Nat \ {0} /\ file.lines[i].w \in Nat \ {0} /\ DueOf(i) \in Nat
             /\ JobOf(i) \in JobType /\ JobOf(i).p <= JobOf(i).d
             /\ Advance[i] \in Nat
  <2> DEFINE p == file.lines[i].p
             w == file.lines[i].w
             d == DueOf(i)
             r == Max({d, p})
  <2>1. p \in Nat \ {0} /\ w \in Nat \ {0} /\ file.lines[i].d \in Nat
    BY <1>1, JobFacts
  <2>2. d \in Nat
    BY <1>1, <2>1, DivIsNatural DEF DueOf
  <2>3. JobOf(i) = [p |-> p, w |-> w, d |-> r] /\ Advance[i] = w * Late(p, d)
    BY DEF JobOf, Advance
  <2> HIDE DEF p, w, d
  <2>4. r = IF d <= p THEN p ELSE d
    <3>1. p \in Int /\ d \in Int
      BY <2>1, <2>2
    <3> QED BY <3>1, MaxOfTwo
  <2> HIDE DEF r
  <2>5. r \in Nat /\ p <= r
    BY <2>1, <2>2, <2>4
  <2>6. JobOf(i) \in JobType /\ JobOf(i).p = p /\ JobOf(i).d = r
    BY <2>1, <2>3, <2>5 DEF JobType
  <2>7. Advance[i] \in Nat
    <3>1. Late(p, d) \in Nat
      BY <2>1, <2>2 DEF Late
    <3> QED BY <2>1, <2>3, <3>1
  <2> QED BY <2>1, <2>2, <2>5, <2>6, <2>7 DEF p, w, d
<1> QED BY <1>1, <1>2, <1>3

\* Whatever the completion times.
LEMMA OffsetFacts ==
  ASSUME file \in Files, jobs \in Seq(JobType), ReadFits,
         NEW C, \A i \in 1 .. Len(jobs) : C[i] \in Int /\ C[i] >= jobs[i].p
  PROVE  off + SumFunction([i \in DOMAIN jobs |-> WeightedTardiness(jobs[i], C[i])])
           = SumFunction([i \in DOMAIN jobs |-> file.lines[i].w * Late(C[i], file.lines[i].d \div file.m)])
<1> DEFINE n == Len(jobs)
           S == 1 .. n
           u == Advance
           v == [i \in DOMAIN jobs |-> WeightedTardiness(jobs[i], C[i])]
           w == [i \in DOMAIN jobs |-> file.lines[i].w * Late(C[i], file.lines[i].d \div file.m)]
<1>1. n \in Nat /\ DOMAIN jobs = S /\ IsFiniteSet(S) /\ DOMAIN v = S /\ DOMAIN w = S
  BY JobFacts
<1>2. n <= Len(file.lines) /\ Len(file.lines) \in Nat /\ off = SumFunctionOnSet(u, S) /\ \A i \in S : jobs[i] = JobOf(i)
  BY FileFacts DEF ReadFits
<1>3. ASSUME NEW i \in S PROVE u[i] \in Int /\ v[i] \in Int /\ w[i] = u[i] + v[i]
  <2> DEFINE p == file.lines[i].p
             o == file.lines[i].w
             d == DueOf(i)
  <2>1. i \in 1 .. Len(file.lines)
    BY <1>2
  <2>2. p \in Nat /\ o \in Nat /\ d \in Nat
    BY <2>1, FileFacts
  <2>3. jobs[i].p = p /\ jobs[i].w = o /\ jobs[i].d = Max({d, p})
    <3> DEFINE r == Max({d, p})
    <3>1. jobs[i] = [p |-> p, w |-> o, d |-> r]
      BY <1>2 DEF JobOf
    <3> HIDE DEF r, p, o, d
    <3>2. jobs[i].p = p /\ jobs[i].w = o /\ jobs[i].d = r
      BY <3>1
    <3> QED BY <3>2 DEF r
  <2>4. C[i] \in Int /\ C[i] >= p
    BY <2>3
  <2>5. u[i] = o * Late(p, d)
    BY <2>1 DEF Advance
  <2>6. v[i] = o * Late(C[i], Max({d, p}))
    BY <1>1, <2>3 DEF WeightedTardiness
  <2>7. w[i] = o * Late(C[i], d)
    BY <1>1 DEF DueOf
  <2> HIDE DEF u, v, w, p, o, d
  <2>8. /\ o * Late(p, d) \in Nat /\ o * Late(C[i], Max({d, p})) \in Nat
        /\ o * Late(C[i], d) = o * Late(p, d) + o * Late(C[i], Max({d, p}))
    <3> DEFINE c == C[i]
    <3>1. c \in Int /\ c >= p /\ d \in Int
      BY <2>2, <2>4
    <3> HIDE DEF c
    <3>2. /\ o * Late(p, d) \in Nat /\ o * Late(c, Max({d, p})) \in Nat
          /\ o * Late(c, d) = o * Late(p, d) + o * Late(c, Max({d, p}))
      BY <2>2, <3>1, RaisedDueDate
    <3> QED BY <3>2 DEF c
  <2> QED BY <2>5, <2>6, <2>7, <2>8
<1>4. SumFunction(v) = SumFunctionOnSet(v, S) /\ SumFunction(w) = SumFunctionOnSet(w, S)
  BY <1>1 DEF SumFunction
<1> HIDE DEF u, v, w, S, n
<1>5. SumFunctionOnSet(w, S) = SumFunctionOnSet(u, S) + SumFunctionOnSet(v, S)
  BY <1>1, <1>3, SumOfAdded
<1> QED BY <1>2, <1>4, <1>5 DEF v, w
------------------------------------------------------------------------------
(* The invariant. *)

\* Jobs whose due dates have been raised.
JobsRead == jobs \in Seq(JobType) /\ \A i \in 1 .. Len(jobs) : jobs[i].p <= jobs[i].d

Reached == IF coarse = <<>> THEN hmax ELSE coarse[1].a

FirstFits ==
  \/ intervals # <<>> /\ \E j \in 1 .. Len(jobs) : jobs[j].p <= intervals[1].b
  \/ intervals = <<>> /\ coarse # <<>> /\ \E j \in 1 .. Len(jobs) : jobs[j].p <= coarse[1].b

\* The intervals found and those still to be divided reach from 0 to the horizon.
DivisionFits ==
  /\ hmin \in Nat /\ hmax \in Nat
  /\ coarse \in Seq(Piece) /\ Chain(coarse, Reached, hmax)
  /\ intervals \in Seq(IntervalType(Len(jobs))) /\ Chain(intervals, 0, Reached)
  /\ FirstFits

CuttingFits ==
  /\ coarse # <<>>
  /\ CutsFit(jobs, cuts, coarse[1].a, coarse[1].b)
  /\ PairsFit(jobs, pairs, cuts[Len(cuts)], coarse[1].b)

IInv ==
  /\ pc \in {"read", "divide", "cut", "done"} /\ file \in Files
  /\ JobsRead
  /\ pc = "read" => ReadFits /\ intervals = <<>>
  /\ pc # "read" => DivisionFits
  /\ pc = "cut" => CuttingFits
  /\ pc = "done" => coarse = <<>>

LEMMA InitHolds == Init => IInv
<1> SUFFICES ASSUME Init PROVE IInv
  OBVIOUS
<1>1. pc = "read" /\ file \in Files /\ jobs = <<>> /\ off = 0 /\ intervals = <<>>
  BY DEF Init
<1>2. jobs \in Seq(JobType) /\ Len(jobs) = 0 /\ 1 .. 0 = {}
  BY <1>1
<1>3. ReadFits
  <2>1. Len(file.lines) \in Nat
    BY <1>1, FileFacts
  <2>2. SumFunctionOnSet(Advance, {}) = 0
    BY SumOfNone
  <2> QED BY <1>1, <1>2, <2>1, <2>2 DEF ReadFits
<1> QED BY <1>1, <1>2, <1>3 DEF IInv, JobsRead

LEMMA ReadJobKeeps ==
  ASSUME IInv, ReadJob
  PROVE  IInv'
<1> DEFINE n == Len(jobs)
           j == JobOf(n + 1)
<1>1. pc = "read" /\ pc' = pc /\ file' = file /\ intervals' = intervals /\ n < Len(file.lines)
  BY DEF ReadJob
<1>2. file \in Files /\ jobs \in Seq(JobType) /\ n \in Nat /\ ReadFits /\ intervals = <<>> /\ \A i \in 1 .. n : jobs[i].p <= jobs[i].d
  BY <1>1 DEF IInv, JobsRead
<1>3. n + 1 \in 1 .. Len(file.lines) /\ Len(file.lines) \in Nat
  BY <1>1, <1>2, FileFacts
<1>4. j \in JobType /\ j.p <= j.d /\ Advance[n + 1] \in Nat
  BY <1>2, <1>3, FileFacts
<1>5. jobs' = Append(jobs, j)
  BY DEF ReadJob, JobOf, DueOf
<1>6. off' = off + Advance[n + 1]
  <2>1. off' = off + file.lines[n + 1].w * Late(file.lines[n + 1].p, DueOf(n + 1))
    BY DEF ReadJob, DueOf
  <2> QED BY <1>3, <2>1 DEF Advance
<1>7. Advance' = Advance /\ \A i : JobOf(i)' = JobOf(i)
  BY <1>1 DEF Advance, JobOf, DueOf
<1> HIDE DEF j
<1>8. /\ jobs' \in Seq(JobType) /\ Len(jobs') = n + 1 /\ jobs'[n + 1] = j
      /\ \A i \in 1 .. n : jobs'[i] = jobs[i]
  BY <1>2, <1>4, <1>5
<1>9. \A i \in 1 .. n + 1 : jobs'[i].p <= jobs'[i].d
  BY <1>2, <1>4, <1>8
<1>10. ReadFits'
  <2>1. \A i \in 1 .. n + 1 : jobs'[i] = JobOf(i)
    BY <1>2, <1>8 DEF ReadFits, j
  <2>2. off' = SumFunctionOnSet(Advance, 1 .. n + 1)
    <3> DEFINE S == 1 .. n + 1
               R == 1 .. n
    <3>1. n + 1 \in S /\ S \ {n + 1} = R /\ S \subseteq 1 .. Len(file.lines)
      BY <1>2, <1>3
    <3>2. IsFiniteSet(S) /\ IsFiniteSet(R)
      BY <1>2, FS_Interval
    <3>3. (\A i \in S : Advance[i] \in Int) /\ \A i \in R : Advance[i] \in Int
      BY <1>2, <3>1, FileFacts
    <3>4. off = SumFunctionOnSet(Advance, R)
      BY <1>2 DEF ReadFits
    <3> HIDE DEF S, R, n
    <3>5. SumFunctionOnSet(Advance, S) = Advance[n + 1] + SumFunctionOnSet(Advance, R)
      BY <3>1, <3>2, <3>3, SumRemove
    <3>6. SumFunctionOnSet(Advance, R) \in Int
      BY <3>2, <3>3, SumType
    <3> QED BY <1>4, <1>6, <3>4, <3>5, <3>6 DEF S
  <2> QED BY <1>1, <1>3, <1>7, <1>8, <2>1, <2>2 DEF ReadFits
<1> QED BY <1>1, <1>2, <1>8, <1>9, <1>10 DEF IInv, JobsRead

LEMMA CalculateKeeps ==
  ASSUME IInv, Calculate
  PROVE  IInv'
<1> DEFINE n == Len(jobs)
           R == [x, y \in DOMAIN jobs |-> Before(jobs[x], jobs[y])]
           order == Sorting(n, R)
           js == [i \in DOMAIN jobs |-> jobs[order[i]]]
           H == HorizonOf(jobs, file.m)
<1>1. /\ pc = "read" /\ pc' = "divide" /\ file' = file /\ intervals' = intervals
      /\ n = Len(file.lines) /\ hmax' = H /\ hmin' = LeastLoad(jobs, file.m)
      /\ coarse' = CoarseIntervals(jobs', hmax')
  BY DEF Calculate
<1>2. file \in Files /\ intervals = <<>> /\ jobs \in Seq(JobType) /\ \A i \in 1 .. n : jobs[i].p <= jobs[i].d
  BY <1>1 DEF IInv, JobsRead
<1>3. file.m \in Nat \ {0} /\ n \in Nat \ {0} /\ jobs # <<>>
  <2>1. file.m \in Nat \ {0} /\ n \in Nat \ {0}
    BY <1>1, <1>2, FileFacts
  <2> QED BY <2>1
<1>4. H \in Nat /\ \A i \in 1 .. n : jobs[i].p <= H
  BY <1>2, <1>3, HorizonFacts
<1>5. hmin' \in Nat
  BY <1>1, <1>2, <1>3, LeastLoadFacts
<1>6. IsOrder(order, n)
  <2> HIDE DEF R, n
  <2> QED BY <1>3, SortingIsOrder
<1>7. jobs' = js
  <2>1. jobs' = InOrder(jobs)
    BY DEF Calculate
  <2>2. InOrder(jobs) = js
    BY DEF InOrder, Sorted
  <2> HIDE DEF js
  <2> QED BY <2>1, <2>2
<1> HIDE DEF order, H
<1>8. js \in Seq(JobType) /\ Len(js) = n /\ \A i \in 1 .. n : order[i] \in 1 .. n /\ js[i] = jobs[order[i]]
  <2> DEFINE s == js
  <2>1. s = [i \in DOMAIN jobs |-> jobs[order[i]]]
    OBVIOUS
  <2> HIDE DEF s
  <2>2. s \in Seq(JobType) /\ Len(s) = n /\ \A i \in 1 .. n : order[i] \in 1 .. n /\ s[i] = jobs[order[i]]
    BY <1>2, <1>6, <2>1, Rearranged
  <2> QED BY <2>2 DEF s
<1> HIDE DEF js, n
<1>9. (\A i \in 1 .. n : js[i].p <= H /\ js[i].p <= js[i].d) /\ js # <<>>
  <2>1. \A i \in 1 .. n : js[i].p <= H /\ js[i].p <= js[i].d
    BY <1>2, <1>4, <1>8
  <2>2. js # <<>>
    BY <1>3, <1>8
  <2> QED BY <2>1, <2>2
<1> DEFINE c == CoarseIntervals(js, H)
<1>10. /\ c \in Seq(Piece) /\ c # <<>> /\ Chain(c, 0, H)
       /\ \E j \in 1 .. n : js[j].p <= c[1].b
  BY <1>4, <1>8, <1>9, CoarseFacts
<1>11. coarse' = c
  BY <1>1, <1>7
<1> HIDE DEF c
<1>12. c[1].a = 0
  BY <1>10 DEF Chain
<1>13. DivisionFits'
  <2>1. Reached' = 0
    BY <1>10, <1>11, <1>12 DEF Reached
  <2>2. Chain(<<>>, 0, 0)
    BY DEF Chain
  <2>3. intervals' = <<>> /\ intervals' \in Seq(IntervalType(Len(jobs')))
    BY <1>1, <1>2
  <2>4. FirstFits'
    BY <1>7, <1>8, <1>10, <1>11, <2>3 DEF FirstFits
  <2>5. hmax' \in Nat /\ coarse' \in Seq(Piece) /\ Chain(coarse', 0, hmax')
    BY <1>1, <1>4, <1>10, <1>11
  <2> QED BY <1>5, <2>1, <2>2, <2>3, <2>4, <2>5 DEF DivisionFits
<1>14. JobsRead'
  BY <1>7, <1>8, <1>9 DEF JobsRead
<1> QED BY <1>1, <1>2, <1>13, <1>14 DEF IInv

LEMMA HeadFacts ==
  ASSUME JobsRead, DivisionFits, coarse # <<>>
  PROVE  /\ jobs \in Seq(JobType) /\ Head(coarse) = coarse[1] /\ Reached = coarse[1].a
         /\ coarse[1].a \in Nat /\ coarse[1].b \in Nat /\ coarse[1].a < coarse[1].b
         /\ Tail(coarse) \in Seq(Piece) /\ Chain(Tail(coarse), coarse[1].b, hmax)
<1>1. coarse \in Seq(Piece) /\ Chain(coarse, Reached, hmax) /\ jobs \in Seq(JobType)
  BY DEF DivisionFits, JobsRead
<1>2. Reached = coarse[1].a
  BY DEF Reached
<1>3. /\ Tail(coarse) \in Seq(Piece) /\ Head(coarse) = coarse[1] /\ Head(coarse) \in Piece
      /\ Head(coarse).a < Head(coarse).b /\ Chain(Tail(coarse), Head(coarse).b, hmax)
  BY <1>1, ChainTail
<1>4. coarse[1].a \in Nat /\ coarse[1].b \in Nat
  BY <1>3 DEF Piece
<1> QED BY <1>1, <1>2, <1>3, <1>4

LEMMA StartIntervalKeeps ==
  ASSUME IInv, StartInterval
  PROVE  IInv'
<1> DEFINE a == coarse[1].a
           b == coarse[1].b
<1>1. /\ pc = "divide" /\ coarse # <<>> /\ pc' = "cut"
      /\ file' = file /\ jobs' = jobs /\ hmax' = hmax /\ hmin' = hmin
      /\ coarse' = coarse /\ intervals' = intervals
      /\ pairs' = SpecialPairs(Head(coarse).a, Head(coarse).b) /\ cuts' = <<Head(coarse).a>>
  BY DEF StartInterval
<1>2. file \in Files /\ JobsRead /\ DivisionFits
  BY <1>1 DEF IInv
<1>3. jobs \in Seq(JobType) /\ Head(coarse) = coarse[1] /\ a \in Nat /\ b \in Nat /\ a < b
  BY <1>1, <1>2, HeadFacts
<1>4. JobsRead' /\ DivisionFits'
  BY <1>1, <1>2 DEF JobsRead, DivisionFits, Reached, FirstFits
<1>5. PairsFit(jobs, SpecialPairs(a, b), a, b)
  BY <1>3, SpecialPairsFacts
<1>6. CutsFit(jobs, <<a>>, a, b)
  <2> HIDE DEF a, b
  <2>1. <<a>> \in Seq(Nat) /\ <<a>> # <<>> /\ Len(<<a>>) = 1 /\ <<a>>[1] = a
    BY <1>3
  <2>2. \A i \in 1 .. 1 : ~(i < 1)
    OBVIOUS
  <2> QED BY <1>3, <2>1, <2>2 DEF CutsFit
<1>7. CuttingFits'
  <2>1. coarse' # <<>> /\ coarse'[1].a = a /\ coarse'[1].b = b /\ pairs' = SpecialPairs(a, b) /\ cuts' = <<a>>
    BY <1>1, <1>3
  <2>2. cuts'[Len(cuts')] = a
    BY <2>1
  <2> HIDE DEF a, b
  <2> QED BY <1>1, <1>5, <1>6, <2>1, <2>2 DEF CuttingFits
<1> QED BY <1>1, <1>2, <1>4, <1>7 DEF IInv

LEMMA CutKeeps ==
  ASSUME IInv, Cut
  PROVE  IInv'
<1> DEFINE a == coarse[1].a
           b == coarse[1].b
           t == Min({q.right : q \in pairs})
           settled(q) == (q.left <= t /\ t <= q.right) \/ t + jobs[q.second].p >= b
<1>1. /\ pc = "cut" /\ pc' = pc /\ pairs # {}
      /\ file' = file /\ jobs' = jobs /\ hmax' = hmax /\ hmin' = hmin
      /\ coarse' = coarse /\ intervals' = intervals
  BY DEF Cut
<1>2. file \in Files /\ JobsRead /\ DivisionFits /\ CuttingFits
  BY <1>1 DEF IInv
<1>3. jobs \in Seq(JobType) /\ Head(coarse) = coarse[1] /\ a \in Nat /\ b \in Nat /\ a < b
  BY <1>2, HeadFacts DEF CuttingFits
<1>4. JobsRead' /\ DivisionFits'
  BY <1>1, <1>2 DEF JobsRead, DivisionFits, Reached, FirstFits
<1>5. PICK min \in {q \in pairs : q.right = t} :
        cuts' = Append(cuts, t) /\ pairs' = MovedBehind(jobs, t, {q \in pairs \ {min} : ~settled(q)})
  BY <1>3 DEF Cut, MovedBehind
<1> DEFINE R == {q \in pairs \ {min} : ~settled(q)}
<1>6. CutsFit(jobs, cuts, a, b) /\ PairsFit(jobs, pairs, cuts[Len(cuts)], b)
  BY <1>2 DEF CuttingFits
<1>7. R \subseteq pairs /\ \A q \in R : ~(t + jobs[q.second].p >= b)
  OBVIOUS
<1>8. t \in Nat /\ \A q \in pairs : jobs[q.second].p \in Nat
  <2>1. \A q \in pairs : q.right \in Nat /\ q.second \in 1 .. Len(jobs)
    BY <1>6 DEF PairsFit, PairType
  <2>2. \A q \in pairs : jobs[q.second].p \in Nat
    BY <1>3, <2>1, JobFacts
  <2>3. t = min.right /\ min \in pairs
    BY <1>5
  <2> QED BY <2>1, <2>2, <2>3
<1>9. \A q \in R : t + jobs[q.second].p < b
  <2> HIDE DEF t, b
  <2> QED BY <1>3, <1>7, <1>8
<1>10. t = Min({q.right : q \in pairs})
  OBVIOUS
<1>11. pairs' = MovedBehind(jobs, t, R)
  BY <1>5
<1> HIDE DEF R, t, a, b
<1>12. CutsFit(jobs, Append(cuts, t), a, b) /\ PairsFit(jobs, MovedBehind(jobs, t, R), t, b)
  BY <1>1, <1>3, <1>6, <1>7, <1>9, <1>10, CutFacts
<1>13. cuts'[Len(cuts')] = t
  <2>1. cuts \in Seq(Nat)
    BY <1>6 DEF CutsFit
  <2> QED BY <1>5, <1>8, <2>1
<1>14. CuttingFits'
  <2>1. coarse' # <<>> /\ coarse'[1].a = a /\ coarse'[1].b = b
    BY <1>1, <1>2 DEF CuttingFits, a, b
  <2> QED BY <1>1, <1>5, <1>11, <1>12, <1>13, <2>1 DEF CuttingFits
<1> QED BY <1>1, <1>2, <1>4, <1>14 DEF IInv

LEMMA EndIntervalKeeps ==
  ASSUME IInv, EndInterval
  PROVE  IInv'
<1> DEFINE a == coarse[1].a
           b == coarse[1].b
           ps == PiecesOf(Append(cuts, b))
           n == Len(jobs)
<1>1. /\ pc = "cut" /\ pc' = "divide"
      /\ file' = file /\ jobs' = jobs /\ hmax' = hmax /\ hmin' = hmin /\ coarse' = Tail(coarse)
  BY DEF EndInterval
<1>2. file \in Files /\ JobsRead /\ DivisionFits /\ CuttingFits
  BY <1>1 DEF IInv
<1>3. /\ jobs \in Seq(JobType) /\ Head(coarse) = coarse[1] /\ Reached = a /\ a \in Nat /\ b \in Nat
      /\ Tail(coarse) \in Seq(Piece) /\ Chain(Tail(coarse), b, hmax) /\ coarse # <<>>
  BY <1>2, HeadFacts DEF CuttingFits
<1>4. intervals' = intervals \o ps
  BY <1>3 DEF EndInterval, PiecesOf
<1>5. CutsFit(jobs, cuts, a, b)
  BY <1>2 DEF CuttingFits
<1>6. /\ ps \in Seq(IntervalType(n)) /\ ps # <<>> /\ Chain(ps, a, b)
      /\ ps[1].b = b \/ \E j \in 1 .. n : ps[1].b = a + jobs[j].p
  <2> DEFINE lo == a
             hi == b
  <2>1. lo \in Nat /\ hi \in Nat /\ CutsFit(jobs, cuts, lo, hi)
    BY <1>3, <1>5
  <2> HIDE DEF lo, hi
  <2>2. LET s == PiecesOf(Append(cuts, hi))
        IN  /\ s \in Seq(IntervalType(n)) /\ s # <<>> /\ Chain(s, lo, hi)
            /\ s[1].b = hi \/ \E j \in 1 .. n : s[1].b = lo + jobs[j].p
    BY <1>3, <2>1, PiecesFacts
  <2> QED BY <2>2 DEF lo, hi
<1>7. intervals \in Seq(IntervalType(n)) /\ Chain(intervals, 0, a) /\ FirstFits /\ hmin \in Nat /\ hmax \in Nat
  BY <1>2, <1>3 DEF DivisionFits
<1> HIDE DEF a, b, ps, n
<1>8. intervals' \in Seq(IntervalType(n)) /\ intervals' # <<>> /\ Chain(intervals \o ps, 0, b)
      /\ intervals'[1] = IF intervals = <<>> THEN ps[1] ELSE intervals[1]
  <2>1. Chain(intervals \o ps, 0, b)
    BY <1>6, <1>7, ChainJoin
  <2>2. \A T : \A s, r \in Seq(T) : r # <<>> => /\ s \o r \in Seq(T) /\ s \o r # <<>>
                                               /\ (s \o r)[1] = IF s = <<>> THEN r[1] ELSE s[1]
    OBVIOUS
  <2> QED BY <1>4, <1>6, <1>7, <2>1, <2>2
<1>9. Reached' = b
  <2>1. coarse' = <<>> => b = hmax
    BY <1>1, <1>3 DEF Chain
  <2>2. coarse' # <<>> => coarse'[1].a = b
    BY <1>1, <1>3 DEF Chain
  <2> QED BY <1>1, <2>1, <2>2 DEF Reached
<1>10. FirstFits'
  <2>1. SUFFICES \E j \in 1 .. n : jobs[j].p <= intervals'[1].b
    BY <1>1, <1>8, <2>1 DEF FirstFits, n
  <2>2. CASE intervals # <<>>
    BY <1>7, <1>8, <2>2 DEF FirstFits, n
  <2>3. CASE intervals = <<>>
    <3>1. intervals'[1].b = ps[1].b
      BY <1>8, <2>3
    <3>2. a = 0
      BY <1>7, <2>3 DEF Chain
    <3>3. CASE ps[1].b = b
      BY <1>7, <2>3, <3>1, <3>3 DEF FirstFits, n, b
    <3>4. CASE \E j \in 1 .. n : ps[1].b = a + jobs[j].p
      <4>1. PICK j \in 1 .. n : ps[1].b = a + jobs[j].p
        BY <3>4
      <4>2. jobs[j].p \in Nat
        BY <1>3, <4>1, JobFacts DEF n
      <4>3. jobs[j].p <= ps[1].b
        BY <3>2, <4>1, <4>2
      <4> QED BY <3>1, <4>3
    <3> QED BY <1>6, <3>3, <3>4
  <2> QED BY <2>2, <2>3
<1>11. DivisionFits'
  BY <1>1, <1>3, <1>4, <1>7, <1>8, <1>9, <1>10 DEF DivisionFits, n
<1>12. JobsRead'
  BY <1>1, <1>2 DEF JobsRead
<1> QED BY <1>1, <1>2, <1>11, <1>12 DEF IInv

LEMMA FinishKeeps ==
  ASSUME IInv, Finish
  PROVE  IInv'
<1>1. /\ pc = "divide" /\ pc' = "done" /\ coarse = <<>>
      /\ file' = file /\ jobs' = jobs /\ hmax' = hmax /\ hmin' = hmin
      /\ coarse' = coarse /\ intervals' = intervals
  BY DEF Finish
<1>2. file \in Files /\ JobsRead /\ DivisionFits
  BY <1>1 DEF IInv
<1>3. JobsRead' /\ DivisionFits'
  BY <1>1, <1>2 DEF JobsRead, DivisionFits, Reached, FirstFits
<1> QED BY <1>1, <1>2, <1>3 DEF IInv

LEMMA StutterKeeps ==
  ASSUME IInv, UNCHANGED vars
  PROVE  IInv'
<1>1. /\ pc' = pc /\ file' = file /\ jobs' = jobs /\ off' = off /\ hmax' = hmax /\ hmin' = hmin
      /\ coarse' = coarse /\ pairs' = pairs /\ cuts' = cuts /\ intervals' = intervals
  BY DEF vars
<1>2. Reached' = Reached /\ Advance' = Advance /\ \A i : JobOf(i)' = JobOf(i)
  BY <1>1 DEF Reached, Advance, JobOf, DueOf
<1>3. ReadFits => ReadFits'
  BY <1>1, <1>2 DEF ReadFits
<1>4. JobsRead => JobsRead'
  BY <1>1 DEF JobsRead
<1>5. DivisionFits => DivisionFits'
  BY <1>1, <1>2 DEF DivisionFits, FirstFits
<1>6. CuttingFits => CuttingFits'
  BY <1>1 DEF CuttingFits
<1> QED BY <1>1, <1>3, <1>4, <1>5, <1>6 DEF IInv

LEMMA NextKeeps == IInv /\ [Next]_vars => IInv'
<1> SUFFICES ASSUME IInv, [Next]_vars PROVE IInv'
  OBVIOUS
<1>1. CASE ReadJob
  BY <1>1, ReadJobKeeps
<1>2. CASE Calculate
  BY <1>2, CalculateKeeps
<1>3. CASE StartInterval
  BY <1>3, StartIntervalKeeps
<1>4. CASE Cut
  BY <1>4, CutKeeps
<1>5. CASE EndInterval
  BY <1>5, EndIntervalKeeps
<1>6. CASE Finish
  BY <1>6, FinishKeeps
<1>7. CASE Done \/ UNCHANGED vars
  BY <1>7, StutterKeeps DEF Done
<1> QED BY <1>1, <1>2, <1>3, <1>4, <1>5, <1>6, <1>7 DEF Next

\* Preprocessing keeps its invariant: jobs that are never due before they can be done,
\* intervals and intervals to divide that reach from 0 to the horizon without gap or
\* overlap, cuts a job's length apart, and a first interval in which a job fits.
THEOREM PreprocessingCorrect == Spec => []IInv
<1> QED BY InitHolds, NextKeeps, PTL DEF Spec

\* Whatever is in the file and however many jobs it has, raising the due dates and
\* paying the difference in advance changes no schedule's cost.
THEOREM OffsetIsAlwaysExact == Spec => []OffsetIsExact
<1>1. IInv => OffsetIsExact
  <2> SUFFICES ASSUME IInv, pc = "read", NEW C \in [DOMAIN jobs -> 1 .. Total(jobs)],
                      \A i \in DOMAIN jobs : C[i] >= jobs[i].p
               PROVE  off + SumFunction([i \in DOMAIN jobs |-> WeightedTardiness(jobs[i], C[i])])
                        = SumFunction([i \in DOMAIN jobs |->
                                        file.lines[i].w * Late(C[i], file.lines[i].d \div file.m)])
    BY DEF OffsetIsExact
  <2>1. file \in Files /\ jobs \in Seq(JobType) /\ ReadFits
    BY DEF IInv, JobsRead
  <2>2. DOMAIN jobs = 1 .. Len(jobs)
    BY <2>1
  <2>3. \A i \in 1 .. Len(jobs) : C[i] \in Int /\ C[i] >= jobs[i].p
    BY <2>2
  <2> QED BY <2>1, <2>3, OffsetFacts
<1> QED BY <1>1, PreprocessingCorrect, PTL

\* find_division leaves intervals that part the horizon: each begins where the one
\* before it ends, the last ends at the horizon, and each has all jobs in an order.
DivisionIsPartition == pc = "done" => IntervalsFit

LEMMA DoneFits == IInv => DivisionIsPartition
<1> SUFFICES ASSUME IInv, pc = "done" PROVE IntervalsFit
  BY DEF DivisionIsPartition
<1>1. DivisionFits /\ coarse = <<>>
  BY DEF IInv
<1>2. Reached = hmax /\ intervals # <<>>
  BY <1>1 DEF Reached, DivisionFits, FirstFits
<1> QED BY <1>1, <1>2 DEF DivisionFits, FirstFits, IntervalsFit

\* find_division leaves a partition of the horizon into intervals.
THEOREM HorizonIsParted == Spec => []DivisionIsPartition
<1> QED BY DoneFits, PreprocessingCorrect, PTL

\* What the solver is given is an instance in the sense the diagram's theorems assume:
\* positive processing times, layers of jobs that are there, the first of which can be
\* run at once, and the layers of a job one interval after the other.
LeavesInstance ==
  pc = "done" => IsInstance([jobs |-> jobs, m |-> file.m, hmin |-> hmin, layers |-> Layers])

\* Preprocessing yields instances: what DecisionDiagram assumes of its constant.
THEOREM InstanceIsLeft == Spec => []LeavesInstance
<1>1. IInv => LeavesInstance
  <2> DEFINE I == [jobs |-> jobs, m |-> file.m, hmin |-> hmin, layers |-> Layers]
  <2> SUFFICES ASSUME IInv, pc = "done" PROVE IsInstance(I)
    BY DEF LeavesInstance
  <2>1. file \in Files /\ jobs \in Seq(JobType) /\ hmin \in Nat /\ IntervalsFit
    BY DoneFits DEF IInv, JobsRead, DivisionFits, DivisionIsPartition
  <2>2. file.m \in Nat \ {0}
    BY <2>1, FileFacts
  <2> DEFINE k == Len(intervals)
             ls == Layers
  <2>3. LayersUpTo(k, ls) /\ k \in Nat \ {0}
    BY <2>1, LayersFacts
  <2> HIDE DEF k, ls
  <2>4. /\ ls \in Seq(LayerType) /\ ls # <<>> /\ ls[1].a = 0 /\ jobs[ls[1].job].p <= ls[1].b
        /\ \A i, l \in 1 .. Len(ls) : i < l /\ ls[i].job = ls[l].job => ls[i].b <= ls[l].a
    BY <2>3 DEF LayersUpTo
  <2>5. Fits(jobs, ls[1], 0)
    <3>1. ls[1] \in LayerType
      BY <2>4
    <3>2. ls[1].job \in 1 .. Len(jobs) /\ ls[1].b \in Nat
      BY <3>1 DEF LayerType
    <3>3. jobs[ls[1].job].p \in Nat \ {0}
      BY <2>1, <3>2, JobFacts
    <3> QED BY <2>4, <3>2, <3>3 DEF Fits
  <2>6. DOMAIN jobs = 1 .. Len(jobs) /\ DOMAIN ls = 1 .. Len(ls)
    BY <2>1, <2>4
  <2>7. ls \in Seq([job : DOMAIN jobs, a : Nat, b : Nat])
    BY <2>4, <2>6 DEF LayerType
  <2>8. jobs \in Seq([p : Nat \ {0}, d : Nat, w : Nat])
    <3>1. JobType \subseteq [p : Nat \ {0}, d : Nat, w : Nat]
      BY DEF JobType
    <3>2. \A S, T : S \subseteq T => \A s \in Seq(S) : s \in Seq(T)
      OBVIOUS
    <3> QED BY <2>1, <3>1, <3>2
  <2>9. I.jobs = jobs /\ I.m = file.m /\ I.hmin = hmin /\ I.layers = ls
    BY DEF ls
  <2> HIDE DEF I
  <2> QED BY <2>1, <2>2, <2>4, <2>5, <2>6, <2>7, <2>8, <2>9 DEF IsInstance
<1> QED BY <1>1, PreprocessingCorrect, PTL
================================================================================
