------------------------------ MODULE FiniteSums ------------------------------
(***************************************************************************)
(* Induction over the naturals and over finite sets, stated with sets      *)
(* instead of predicates so that it can be cited, and what the proofs need *)
(* of minima, folds, passes over sequences and sums over finite sets, and  *)
(* of the rounds a loop over a finite set can make.                        *)
(***************************************************************************)
EXTENDS Integers, FiniteSets, FiniteSetsExt, FiniteSetTheorems, TLAPS

\* A set that holds 0 and the successor of each of its naturals holds them all.
LEMMA NatSetInduction ==
  ASSUME NEW S, 0 \in S, \A n \in S : n \in Nat => n + 1 \in S
  PROVE  \A n \in Nat : n \in S
<1> DEFINE R == {p \in Nat \X Nat : p[1] < p[2]}
           T == {n \in Nat : n \notin S}
<1>1. IsWellFoundedOn(R, Nat)
  <2>1. R = OpToRel(<, Nat)
    BY DEF OpToRel
  <2> QED BY <2>1, NatLessThanWellFounded
<1>2. SUFFICES ASSUME T # {} PROVE FALSE
  OBVIOUS
<1>3. PICK m \in T : \A y \in T : <<y, m>> \notin R
  <2> HIDE DEF R, T
  <2>1. T \subseteq Nat
    BY DEF T
  <2> QED BY <1>1, <1>2, <2>1, WFMin
<1>4. m \in Nat /\ m \notin S
  OBVIOUS
<1>5. m # 0 /\ m - 1 \in Nat
  BY <1>4
<1>6. <<m - 1, m>> \in R
  BY <1>5
<1>7. m - 1 \in S
  BY <1>3, <1>5, <1>6
<1>8. (m - 1) + 1 \in S
  BY <1>5, <1>7
<1> QED BY <1>4, <1>8

\* A family of subsets holds every subset of a finite set if it holds the empty one,
\* and each other one of which it holds all that lack one element.
LEMMA RemovalInduction ==
  ASSUME NEW S, IsFiniteSet(S), NEW F, {} \in F,
         \A T \in SUBSET S : T # {} /\ (\A x \in T : T \ {x} \in F) => T \in F
  PROVE  \A T \in SUBSET S : T \in F
<1> DEFINE N == {n \in Nat : \A T \in SUBSET S : Cardinality(T) = n => T \in F}
<1>1. \A T \in SUBSET S : IsFiniteSet(T) /\ Cardinality(T) \in Nat
  BY FS_Subset, FS_CardinalityType
<1>2. 0 \in N
  BY <1>1, FS_EmptySet
<1>3. ASSUME NEW n \in N PROVE n + 1 \in N
  <2> SUFFICES ASSUME NEW T \in SUBSET S, Cardinality(T) = n + 1 PROVE T \in F
    OBVIOUS
  <2>1. IsFiniteSet(T) /\ T # {}
    BY <1>1, FS_EmptySet
  <2>2. ASSUME NEW x \in T PROVE T \ {x} \in F
    <3>1. Cardinality(T \ {x}) = Cardinality(T) - 1
      BY <2>1, FS_RemoveElement
    <3> QED BY <3>1
  <2> QED BY <2>1, <2>2
<1>4. \A n \in Nat : n \in N
  <2> HIDE DEF N
  <2> QED BY <1>2, <1>3, NatSetInduction
<1> QED BY <1>1, <1>4

\* A finite set of integers has a least element.
LEMMA LeastElement ==
  ASSUME NEW S \in SUBSET Int, IsFiniteSet(S), S # {}
  PROVE  \E m \in S : \A n \in S : m <= n
<1> DEFINE F == {T \in SUBSET S : T # {} => \E m \in T : \A n \in T : m <= n}
<1>1. ASSUME NEW T \in SUBSET S, T # {}, \A x \in T : T \ {x} \in F PROVE T \in F
  <2>1. PICK x \in T : TRUE
    BY <1>1
  <2>2. CASE T \ {x} = {}
    BY <2>1, <2>2
  <2>3. CASE T \ {x} # {}
    <3>1. PICK m \in T \ {x} : \A n \in T \ {x} : m <= n
      BY <2>3, <1>1
    <3>2. CASE m <= x
      BY <3>1, <3>2
    <3>3. CASE ~(m <= x)
      <4>1. \A n \in T : x <= n
        BY <3>1, <3>3
      <4> QED BY <4>1
    <3> QED BY <3>2, <3>3
  <2> QED BY <2>2, <2>3
<1>2. S \in F
  <2>1. {} \in F
    OBVIOUS
  <2> HIDE DEF F
  <2> QED BY <1>1, <2>1, RemovalInduction
<1> QED BY <1>2

\* FiniteSetsExt!Min is that element.
LEMMA MinIsLeast ==
  ASSUME NEW S \in SUBSET Int, IsFiniteSet(S), S # {}
  PROVE  Min(S) \in S /\ \A n \in S : Min(S) <= n
BY LeastElement DEF Min

\* The values a function takes on a finite set are finitely many.
LEMMA FiniteImage ==
  ASSUME NEW S, IsFiniteSet(S), NEW f, DOMAIN f = S
  PROVE  IsFiniteSet({f[x] : x \in S})
<1> DEFINE T == {f[x] : x \in S}
           g == [x \in S |-> f[x]]
<1>1. g \in Surjection(S, T)
  BY DEF Surjection
<1> QED BY <1>1, FS_Surjection

\* FiniteSetsExt!Max is the greatest element.
LEMMA MaxIsGreatest ==
  ASSUME NEW S \in SUBSET Int, IsFiniteSet(S), S # {}
  PROVE  Max(S) \in S /\ \A n \in S : Max(S) >= n
<1> DEFINE f == [n \in S |-> 0 - n]
           T == {f[n] : n \in S}
<1>1. IsFiniteSet(T)
  BY FiniteImage
<1>2. T \in SUBSET Int /\ T # {}
  <2>1. \A n \in S : f[n] \in Int
    OBVIOUS
  <2>2. PICK n \in S : TRUE
    OBVIOUS
  <2>3. f[n] \in T
    OBVIOUS
  <2> QED BY <2>1, <2>3
<1>3. PICK m \in T : \A n \in T : m <= n
  <2> HIDE DEF T
  <2> QED BY <1>1, <1>2, LeastElement
<1>4. PICK k \in S : m = 0 - k
  OBVIOUS
<1>5. \A n \in S : k >= n
  <2> SUFFICES ASSUME NEW n \in S PROVE k >= n
    OBVIOUS
  <2>1. 0 - n \in T
    OBVIOUS
  <2>2. m <= 0 - n /\ n \in Int /\ k \in Int
    BY <1>3, <2>1
  <2> QED BY <1>4, <2>2
<1> QED BY <1>4, <1>5 DEF Max

\* f folds g from base over the subsets of S, taking the elements c chooses.
IsFold(f, S, base, g, c) ==
  f = [T \in SUBSET S |-> IF T = {} THEN base ELSE g[c[T]][f[T \ {c[T]}]]]

\* c chooses an element of every subset but the empty one.
IsChoice(c, S) == \A T \in SUBSET S : T # {} => c[T] \in T

\* There is such a fold.
LEMMA FoldIsDefined ==
  ASSUME NEW S, IsFiniteSet(S), NEW V, NEW base \in V, NEW g \in [S -> [V -> V]],
         NEW c, IsChoice(c, S)
  PROVE  \E f \in [SUBSET S -> V] : IsFold(f, S, base, g, c)
<1> USE DEF IsChoice
<1> DEFINE D(n) == {T \in SUBSET S : Cardinality(T) <= n}
           N == {n \in Nat : \E f \in [D(n) -> V] : \A T \in D(n) :
                    f[T] = IF T = {} THEN base ELSE g[c[T]][f[T \ {c[T]}]]}
<1>1. \A T \in SUBSET S : IsFiniteSet(T) /\ Cardinality(T) \in Nat /\ Cardinality(T) <= Cardinality(S)
  BY FS_Subset, FS_CardinalityType
<1>2. 0 \in N
  <2>1. D(0) = {{}}
    BY <1>1, FS_EmptySet
  <2>2. [T \in D(0) |-> base] \in [D(0) -> V]
    OBVIOUS
  <2> QED BY <2>1, <2>2
<1>3. ASSUME NEW n \in N PROVE n + 1 \in N
  <2>1. PICK f \in [D(n) -> V] : \A T \in D(n) :
                    f[T] = IF T = {} THEN base ELSE g[c[T]][f[T \ {c[T]}]]
    OBVIOUS
  <2> DEFINE h == [T \in D(n + 1) |-> IF T \in D(n) THEN f[T] ELSE g[c[T]][f[T \ {c[T]}]]]
  <2>2. ASSUME NEW T \in D(n + 1), T # {} PROVE c[T] \in S /\ T \ {c[T]} \in D(n)
    <3>1. c[T] \in T
      BY <2>2
    <3>2. IsFiniteSet(T) /\ Cardinality(T) \in Nat /\ Cardinality(T) <= n + 1
      BY <1>1
    <3>3. Cardinality(T \ {c[T]}) = Cardinality(T) - 1
      BY <3>1, <3>2, FS_RemoveElement, ZenonT(40)
    <3> QED BY <3>1, <3>2, <3>3
  <2>3. {} \in D(n)
    <3>1. n >= 0
      OBVIOUS
    <3> QED BY <3>1, FS_EmptySet
  <2>4. ASSUME NEW T \in D(n + 1) PROVE h[T] \in V
    <3>1. CASE T \in D(n)
      BY <2>1, <3>1
    <3>2. CASE T \notin D(n)
      <4>1. T # {}
        BY <2>3, <3>2
      <4>2. f[T \ {c[T]}] \in V /\ c[T] \in S
        BY <2>1, <2>2, <4>1
      <4>3. \A x \in S, y \in V : g[x][y] \in V
        OBVIOUS
      <4>4. g[c[T]][f[T \ {c[T]}]] \in V
        BY <4>2, <4>3
      <4> QED BY <3>2, <4>4
    <3> QED BY <3>1, <3>2
  <2>5. ASSUME NEW T \in D(n + 1)
        PROVE  h[T] = IF T = {} THEN base ELSE g[c[T]][h[T \ {c[T]}]]
    <3>1. CASE T = {}
      BY <2>1, <2>3, <3>1
    <3>2. CASE T # {}
      <4>1. h[T \ {c[T]}] = f[T \ {c[T]}]
        BY <2>2, <3>2, <1>1
      <4>2. h[T] = g[c[T]][f[T \ {c[T]}]]
        BY <2>1, <3>2
      <4> QED BY <3>2, <4>1, <4>2
    <3> QED BY <3>1, <3>2
  <2>6. h \in [D(n + 1) -> V]
    BY <2>4
  <2>7. \E k \in [D(n + 1) -> V] : \A T \in D(n + 1) :
          k[T] = IF T = {} THEN base ELSE g[c[T]][k[T \ {c[T]}]]
    <3> HIDE DEF h, D
    <3> QED BY <2>5, <2>6
  <2>8. n + 1 \in Nat
    OBVIOUS
  <2> QED BY <2>7, <2>8
<1>4. Cardinality(S) \in N
  <2>1. \A n \in Nat : n \in N
    <3> HIDE DEF N
    <3> QED BY <1>2, <1>3, NatSetInduction
  <2> QED BY <2>1, FS_CardinalityType
<1>5. D(Cardinality(S)) = SUBSET S
  BY <1>1
<1>6. PICK f \in [SUBSET S -> V] : \A T \in SUBSET S :
                    f[T] = IF T = {} THEN base ELSE g[c[T]][f[T \ {c[T]}]]
  BY <1>4, <1>5
<1>7. f = [T \in SUBSET S |-> f[T]]
  OBVIOUS
<1>8. f = [T \in SUBSET S |-> IF T = {} THEN base ELSE g[c[T]][f[T \ {c[T]}]]]
  BY <1>6, <1>7, Zenon
<1> QED BY <1>8 DEF IsFold

\* f is the left-to-right pass of g over the positions 1 .. n, as SequencesExt!FoldLeft
\* makes it: f[1 .. k] is what it has after k steps.
IsPass(f, n, base, g) ==
  f = [T \in SUBSET (1 .. n) |-> IF T = {} THEN base ELSE g[Max(T)][f[T \ {Max(T)}]]]

\* What a pass takes last of a part of the positions, and of the first k + 1.
LEMMA LastOfPart ==
  ASSUME NEW n \in Nat, NEW T \in SUBSET (1 .. n), T # {}
  PROVE  Max(T) \in T /\ \A i \in T : Max(T) >= i
<1>1. IsFiniteSet(1 .. n)
  BY FS_Interval
<1>2. IsFiniteSet(T)
  BY <1>1, FS_Subset
<1>3. T \in SUBSET Int
  OBVIOUS
<1> QED BY <1>2, <1>3, MaxIsGreatest

LEMMA LastOfInterval ==
  ASSUME NEW n \in Nat, NEW k \in 0 .. n - 1
  PROVE  /\ 1 .. k + 1 \in SUBSET (1 .. n) /\ 1 .. k + 1 # {}
         /\ Max(1 .. k + 1) = k + 1 /\ (1 .. k + 1) \ {k + 1} = 1 .. k
<1> DEFINE T == 1 .. k + 1
<1>1. k + 1 \in T /\ k + 1 <= n /\ k \in Int
  OBVIOUS
<1>2. \A i \in T : i \in Int /\ 1 <= i /\ i <= k + 1
  BY <1>1
<1>3. T \subseteq 1 .. n
  <2> HIDE DEF T
  <2> QED BY <1>1, <1>2
<1>4. Max(T) \in T /\ Max(T) >= k + 1
  <2> HIDE DEF T
  <2> QED BY <1>1, <1>3, LastOfPart
<1>5. Max(T) = k + 1
  <2> HIDE DEF T
  <2> QED BY <1>1, <1>2, <1>4
<1> QED BY <1>1, <1>3, <1>5

\* There is such a pass.
LEMMA PassIsDefined ==
  ASSUME NEW n \in Nat, NEW V, NEW base \in V, NEW g \in [1 .. n -> [V -> V]]
  PROVE  \E f \in [SUBSET (1 .. n) -> V] : IsPass(f, n, base, g)
<1> DEFINE S == 1 .. n
           c == [T \in SUBSET S |-> Max(T)]
<1>1. IsFiniteSet(S)
  BY FS_Interval
<1>2. IsChoice(c, S)
  <2> SUFFICES ASSUME NEW T \in SUBSET S, T # {} PROVE c[T] \in T
    BY DEF IsChoice
  <2> QED BY LastOfPart
<1>3. PICK f \in [SUBSET S -> V] : IsFold(f, S, base, g, c)
  <2> HIDE DEF c, S
  <2>1. g \in [S -> [V -> V]]
    BY DEF S
  <2> QED BY <1>1, <1>2, <2>1, FoldIsDefined
<1>4. IsPass(f, n, base, g)
  <2>1. \A T \in SUBSET S : c[T] = Max(T)
    BY SMTT(30)
  <2>2. f = [T \in SUBSET S |-> IF T = {} THEN base ELSE g[c[T]][f[T \ {c[T]}]]]
    BY <1>3 DEF IsFold
  <2> QED BY <2>2, <2>1 DEF IsPass
<1> QED BY <1>4

\* f sums the values of v over the subsets of S, as Folds!MapThenFoldSet does.
IsSum(f, v, S) ==
  f = [T \in SUBSET S |-> IF T = {} THEN 0
                          ELSE v[CHOOSE x \in T : TRUE] + f[T \ {CHOOSE x \in T : TRUE}]]

\* There is such a sum.
LEMMA SumIsDefined ==
  ASSUME NEW S, IsFiniteSet(S), NEW v \in [S -> Int]
  PROVE  \E f \in [SUBSET S -> Int] : IsSum(f, v, S)
<1> DEFINE c == [T \in SUBSET S |-> CHOOSE x \in T : TRUE]
           g == [x \in S |-> [n \in Int |-> v[x] + n]]
<1>1. g \in [S -> [Int -> Int]]
  OBVIOUS
<1>2. \A T \in SUBSET S : T # {} => c[T] \in T
  OBVIOUS
<1>3. \E f \in [SUBSET S -> Int] : IsFold(f, S, 0, g, c)
  <2> DEFINE V == Int
             z == 0
  <2>1. z \in V /\ g \in [S -> [V -> V]]
    BY <1>1
  <2> HIDE DEF c, g, V, z
  <2>2. IsChoice(c, S)
    BY <1>2 DEF IsChoice
  <2>3. \E f \in [SUBSET S -> V] : IsFold(f, S, z, g, c)
    BY <2>1, <2>2, FoldIsDefined
  <2> QED BY <2>3 DEF V, z
<1>4. PICK f \in [SUBSET S -> Int] : \A T \in SUBSET S :
           f[T] = IF T = {} THEN 0 ELSE g[c[T]][f[T \ {c[T]}]]
  BY <1>3 DEF IsFold
<1>5. ASSUME NEW T \in SUBSET S, T # {}
      PROVE  f[T] = v[CHOOSE x \in T : TRUE] + f[T \ {CHOOSE x \in T : TRUE}]
  <2>1. c[T] \in S /\ f[T \ {c[T]}] \in Int
    BY <1>2, <1>4, <1>5
  <2>2. f[T] = v[c[T]] + f[T \ {c[T]}]
    BY <1>4, <1>5, <2>1
  <2> QED BY <2>2
<1>6. f[{}] = 0
  BY <1>4
<1>7. \A T \in SUBSET S : f[T] = IF T = {} THEN 0
           ELSE v[CHOOSE x \in T : TRUE] + f[T \ {CHOOSE x \in T : TRUE}]
  BY <1>5, <1>6
<1>8. f = [T \in SUBSET S |-> f[T]]
  OBVIOUS
<1>9. f = [T \in SUBSET S |-> IF T = {} THEN 0
           ELSE v[CHOOSE x \in T : TRUE] + f[T \ {CHOOSE x \in T : TRUE}]]
  BY <1>7, <1>8, Zenon
<1> QED BY <1>9 DEF IsSum

\* Two sums over the same set, where r bounds what v costs beyond pi times w at each
\* element: so it does in total, and one element may be counted exactly.
LEMMA SumBound ==
  ASSUME NEW S, IsFiniteSet(S), NEW v \in [S -> Int], NEW w \in [S -> Int],
         NEW f, IsSum(f, v, S), NEW h, IsSum(h, w, S),
         NEW pi \in Int, NEW r \in Int, \A i \in S : v[i] - pi * w[i] >= r,
         NEW j \in S
  PROVE  /\ f[S] \in Int /\ h[S] \in Int
         /\ f[S] - pi * h[S] >= (Cardinality(S) - 1) * r + (v[j] - pi * w[j])
<1> DEFINE Q(T) == /\ f[T] \in Int /\ h[T] \in Int
                   /\ f[T] - pi * h[T] >= Cardinality(T) * r
                   /\ j \in T => f[T] - pi * h[T] >= (Cardinality(T) - 1) * r + (v[j] - pi * w[j])
           F == {T \in SUBSET S : Q(T)}
<1>1. {} \in F
  <2>1. f[{}] = 0 /\ h[{}] = 0
    BY DEF IsSum
  <2>2. Cardinality({}) = 0
    BY FS_EmptySet
  <2> QED BY <2>1, <2>2
<1>2. ASSUME NEW T \in SUBSET S, T # {}, \A x \in T : T \ {x} \in F PROVE T \in F
  <2> DEFINE c == CHOOSE x \in T : TRUE
             U == T \ {c}
  <2>1. c \in T /\ U \in SUBSET S
    BY <1>2
  <2>2. f[T] = v[c] + f[U] /\ h[T] = w[c] + h[U]
    BY <1>2, <2>1 DEF IsSum
  <2>3. Q(U)
    BY <1>2, <2>1
  <2>4. Cardinality(T) = Cardinality(U) + 1 /\ Cardinality(U) \in Nat
    <3>1. IsFiniteSet(T) /\ Cardinality(T) \in Nat
      BY FS_Subset, FS_CardinalityType
    <3>2. IsFiniteSet(U) /\ Cardinality(U) = Cardinality(T) - 1
      BY <2>1, <3>1, FS_RemoveElement
    <3>3. Cardinality(U) \in Nat
      BY <3>2, FS_CardinalityType
    <3> QED BY <3>1, <3>2, <3>3
  <2>5. v[c] \in Int /\ w[c] \in Int /\ v[c] - pi * w[c] >= r /\ c \in S
    BY <2>1
  <2>6. j \in T => j = c \/ j \in U
    OBVIOUS
  <2>7. pi * (w[c] + h[U]) = pi * w[c] + pi * h[U] /\ pi * w[c] \in Int /\ pi * h[U] \in Int
    <3> HIDE DEF c, U
    <3> QED BY <2>3, <2>5
  <2>8. (Cardinality(U) + 1) * r = Cardinality(U) * r + r /\ Cardinality(U) * r \in Int
        /\ (Cardinality(U) - 1) * r = Cardinality(U) * r - r
    <3>1. \A k \in Nat : (k + 1) * r = k * r + r /\ k * r \in Int /\ (k - 1) * r = k * r - r
      OBVIOUS
    <3> HIDE DEF c, U
    <3> QED BY <2>4, <3>1
  <2>9. Q(T)
    <3> HIDE DEF c, U
    <3>1. f[T] - pi * h[T] = (v[c] - pi * w[c]) + (f[U] - pi * h[U]) /\ f[T] \in Int /\ h[T] \in Int
      BY <2>2, <2>3, <2>5, <2>7
    <3>2. f[T] - pi * h[T] >= Cardinality(T) * r
      BY <3>1, <2>3, <2>4, <2>5, <2>7, <2>8
    <3>3. ASSUME j \in T
          PROVE f[T] - pi * h[T] >= (Cardinality(T) - 1) * r + (v[j] - pi * w[j])
      BY <3>1, <3>3, <2>3, <2>4, <2>5, <2>6, <2>7, <2>8
    <3> QED BY <3>1, <3>2, <3>3
  <2> QED BY <2>9
<1>3. S \in F
  <2> HIDE DEF F
  <2> QED BY <1>1, <1>2, RemovalInduction
<1> QED BY <1>3

\* g[n][h] is the value at n of a function that is h elsewhere, ...
IsStep(g, N, V) == g \in [N -> [[N -> V] -> V]]

\* ... and depends on what h is at lower ranks than n's only.
IsLocal(g, N, V, rank) ==
  \A n \in N : \A h, k \in [N -> V] :
    (\A x \in N : rank[x] < rank[n] => h[x] = k[x]) => g[n][h] = g[n][k]

\* A function may be defined by recursion along a bounded rank: g[n][h] is what it is at
\* n if it is h below.
LEMMA RecursionIsDefined ==
  ASSUME NEW N, NEW K \in Nat, NEW rank \in [N -> 0 .. K], NEW V, V # {},
         NEW g, IsStep(g, N, V), IsLocal(g, N, V, rank)
  PROVE  \E f \in [N -> V] : \A n \in N : f[n] = g[n][f]
<1>0. \A n \in N : \A h, k \in [N -> V] :
        (\A x \in N : rank[x] < rank[n] => h[x] = k[x]) => g[n][h] = g[n][k]
  BY DEF IsLocal
<1> DEFINE M == {k \in Nat : \E f \in [N -> V] : \A n \in N : rank[n] < k => f[n] = g[n][f]}
<1>1. 0 \in M
  <2>1. PICK v \in V : TRUE
    OBVIOUS
  <2>2. [n \in N |-> v] \in [N -> V] /\ \A n \in N : ~(rank[n] < 0)
    BY <2>1
  <2> QED BY <2>2
<1>2. ASSUME NEW k \in M, k \in Nat PROVE k + 1 \in M
  <2>1. PICK f \in [N -> V] : \A n \in N : rank[n] < k => f[n] = g[n][f]
    OBVIOUS
  <2> DEFINE e == [n \in N |-> IF rank[n] = k THEN g[n][f] ELSE f[n]]
  <2>2. e \in [N -> V]
    <3>1. \A n \in N : g[n][f] \in V
      BY <2>1 DEF IsStep
    <3> QED BY <2>1, <3>1
  <2>3. ASSUME NEW n \in N, rank[n] < k + 1 PROVE e[n] = g[n][e]
    <3>1. \A x \in N : rank[x] \in Int
      OBVIOUS
    <3>2. \A x \in N : rank[x] < rank[n] => f[x] = e[x]
      BY <2>3, <3>1
    <3>3. g[n][f] = g[n][e]
      <4> HIDE DEF e
      <4> QED BY <1>0, <2>1, <2>2, <3>2
    <3>4. CASE rank[n] = k
      BY <3>3, <3>4
    <3>5. CASE rank[n] # k
      <4>1. rank[n] < k
        <5>1. rank[n] \in Int /\ k \in Int
          BY <1>2, <3>1
        <5>2. \A a, b \in Int : a < b + 1 /\ a # b => a < b
          OBVIOUS
        <5> HIDE DEF M, e
        <5> QED BY <2>3, <3>5, <5>1, <5>2
      <4> QED BY <2>1, <3>3, <3>5, <4>1
    <3> QED BY <3>4, <3>5
  <2>4. \E f2 \in [N -> V] : \A n \in N : rank[n] < k + 1 => f2[n] = g[n][f2]
    <3> HIDE DEF e
    <3> QED BY <2>2, <2>3
  <2> QED BY <2>4
<1>3. K + 1 \in M
  <2>1. \A k \in Nat : k \in M
    <3> HIDE DEF M
    <3> QED BY <1>1, <1>2, NatSetInduction
  <2>2. K + 1 \in Nat
    OBVIOUS
  <2> HIDE DEF M
  <2> QED BY <2>1, <2>2
<1>4. PICK f \in [N -> V] : \A n \in N : rank[n] < K + 1 => f[n] = g[n][f]
  BY <1>3
<1>5. \A n \in N : rank[n] < K + 1
  OBVIOUS
<1> QED BY <1>4, <1>5

\* In particular along an interval: f begins with base, and g[i] is step i.
IsSteps(g, n, V) == g \in [1 .. n -> [V -> V]]
IsIteration(f, n, base, g) == f[0] = base /\ \A i \in 1 .. n : f[i] = g[i][f[i - 1]]

LEMMA IterationIsDefined ==
  ASSUME NEW n \in Nat, NEW V, NEW base \in V, NEW g, IsSteps(g, n, V)
  PROVE  \E f \in [0 .. n -> V] : IsIteration(f, n, base, g)
<1> DEFINE N == 0 .. n
           rank == [i \in N |-> i]
           step == [i \in N |-> [h \in [N -> V] |-> IF i = 0 THEN base ELSE g[i][h[i - 1]]]]
<1>1. \A i \in N : i # 0 => i \in 1 .. n /\ i - 1 \in N
  OBVIOUS
<1>2. IsStep(step, N, V)
  <2> SUFFICES ASSUME NEW i \in N, NEW h \in [N -> V], i # 0 PROVE g[i][h[i - 1]] \in V
    BY DEF IsStep
  <2>1. h[i - 1] \in V /\ i \in 1 .. n
    BY <1>1
  <2>2. g[i] \in [V -> V]
    BY <2>1 DEF IsSteps
  <2> QED BY <2>1, <2>2
<1>3. IsLocal(step, N, V, rank)
  <2> SUFFICES ASSUME NEW i \in N, NEW h \in [N -> V], NEW k \in [N -> V],
                      \A x \in N : rank[x] < rank[i] => h[x] = k[x]
               PROVE  step[i][h] = step[i][k]
    BY DEF IsLocal
  <2>1. i # 0 => h[i - 1] = k[i - 1]
    <3>1. i # 0 => i - 1 \in N /\ rank[i - 1] < rank[i]
      OBVIOUS
    <3> HIDE DEF N, rank
    <3> QED BY <3>1
  <2> QED BY <2>1
<1>4. V # {} /\ rank \in [N -> 0 .. n]
  OBVIOUS
<1>5. \E f \in [N -> V] : \A i \in N : f[i] = step[i][f]
  <2> HIDE DEF N, rank, step
  <2> QED BY <1>2, <1>3, <1>4, RecursionIsDefined
<1>6. PICK f \in [N -> V] : \A i \in N : f[i] = step[i][f]
  BY <1>5
<1>7. \A i \in N : f[i] = IF i = 0 THEN base ELSE g[i][f[i - 1]]
  BY <1>6
<1>8. IsIteration(f, n, base, g)
  <2>1. f[0] = base
    BY <1>7
  <2>2. \A i \in 1 .. n : i \in N /\ i # 0
    OBVIOUS
  <2> HIDE DEF N
  <2> QED BY <1>7, <2>1, <2>2 DEF IsIteration
<1> QED BY <1>8

\* Induction along an interval.
LEMMA IntervalInduction ==
  ASSUME NEW n \in Nat, NEW F, 0 \in F, \A i \in 1 .. n : i - 1 \in F => i \in F
  PROVE  \A i \in 0 .. n : i \in F
<1> DEFINE M == {i \in Nat : i <= n => i \in F}
<1>1. 0 \in M
  OBVIOUS
<1>2. ASSUME NEW i \in M, i \in Nat PROVE i + 1 \in M
  <2>1. i + 1 <= n => i \in F /\ i + 1 \in 1 .. n /\ (i + 1) - 1 = i
    BY <1>2
  <2>2. i + 1 <= n => i + 1 \in F
    BY <2>1
  <2> QED BY <1>2, <2>2
<1>3. \A i \in Nat : i \in M
  <2> HIDE DEF M
  <2> QED BY <1>1, <1>2, NatSetInduction
<1> QED BY <1>3
------------------------------------------------------------------------------
(* Functions!SumFunctionOnSet. *)

\* Over a finite set it is a sum.
LEMMA SumOnSetIsSum ==
  ASSUME NEW S, IsFiniteSet(S), NEW v, \A x \in S : v[x] \in Int
  PROVE  \E f : IsSum(f, v, S) /\ SumFunctionOnSet(v, S) = f[S]
<1> DEFINE iter == CHOOSE f : IsSum(f, v, S)
           w == [x \in S |-> v[x]]
<1>1. PICK f : IsSum(f, w, S)
  BY SumIsDefined
<1>2. \A T \in SUBSET S : T # {} => w[CHOOSE x \in T : TRUE] = v[CHOOSE x \in T : TRUE]
  <2> SUFFICES ASSUME NEW T \in SUBSET S, T # {}
               PROVE w[CHOOSE x \in T : TRUE] = v[CHOOSE x \in T : TRUE]
    OBVIOUS
  <2>1. (CHOOSE x \in T : TRUE) \in S
    OBVIOUS
  <2> QED BY <2>1
<1>3. IsSum(f, v, S)
  <2> HIDE DEF w
  <2> QED BY <1>1, <1>2 DEF IsSum
<1>4. IsSum(iter, v, S)
  BY <1>3
<1>5. SumFunctionOnSet(v, S) = iter[S]
  BY DEF SumFunctionOnSet, FoldFunctionOnSet, MapThenFoldSet, IsSum
<1> QED BY <1>4, <1>5

\* A sum's values are integers, and do not depend on what else it could sum.
LEMMA SumValues ==
  ASSUME NEW S, IsFiniteSet(S), NEW v, \A x \in S : v[x] \in Int,
         NEW f, IsSum(f, v, S)
  PROVE  /\ f[{}] = 0
         /\ \A T \in SUBSET S : f[T] \in Int
         /\ \A T \in SUBSET S : \A x \in T : f[T] = v[x] + f[T \ {x}]
<1>0. f[{}] = 0 /\ \A T \in SUBSET S : T # {} =>
         f[T] = v[CHOOSE x \in T : TRUE] + f[T \ {CHOOSE x \in T : TRUE}]
  BY DEF IsSum
<1>1. \A T \in SUBSET S : f[T] \in Int
  <2> DEFINE F == {T \in SUBSET S : f[T] \in Int}
  <2>1. {} \in F
    BY <1>0
  <2>2. ASSUME NEW T \in SUBSET S, T # {}, \A x \in T : T \ {x} \in F PROVE T \in F
    <3>1. PICK c \in T : f[T] = v[c] + f[T \ {c}]
      <4>1. (CHOOSE x \in T : TRUE) \in T
        BY <2>2
      <4> QED BY <1>0, <2>2, <4>1
    <3>2. v[c] \in Int /\ f[T \ {c}] \in Int
      BY <2>2
    <3> QED BY <3>1, <3>2
  <2> HIDE DEF F
  <2>3. \A T \in SUBSET S : T \in F
    BY <2>1, <2>2, RemovalInduction
  <2> QED BY <2>3 DEF F
<1> DEFINE F == {T \in SUBSET S : \A x \in T : f[T] = v[x] + f[T \ {x}]}
<1>2. ASSUME NEW T \in SUBSET S, T # {}, \A x \in T : T \ {x} \in F PROVE T \in F
  <2>1. PICK c \in T : f[T] = v[c] + f[T \ {c}]
    <3>1. (CHOOSE x \in T : TRUE) \in T
      BY <1>2
    <3> QED BY <1>0, <1>2, <3>1
  <2>2. ASSUME NEW x \in T, x # c PROVE f[T] = v[x] + f[T \ {x}]
    <3>1. f[T \ {c}] = v[x] + f[(T \ {c}) \ {x}]
      BY <1>2, <2>2
    <3>2. f[T \ {x}] = v[c] + f[(T \ {x}) \ {c}]
      BY <1>2, <2>2
    <3>3. (T \ {c}) \ {x} = (T \ {x}) \ {c} /\ (T \ {c}) \ {x} \in SUBSET S
      OBVIOUS
    <3>4. v[x] \in Int /\ v[c] \in Int /\ f[(T \ {c}) \ {x}] \in Int
      BY <1>1, <3>3
    <3>5. f[T] = v[c] + (v[x] + f[(T \ {c}) \ {x}]) /\ f[T \ {x}] = v[c] + f[(T \ {c}) \ {x}]
      BY <2>1, <3>1, <3>2, <3>3
    <3>6. \A a, b, n \in Int : a + (b + n) = b + (a + n)
      OBVIOUS
    <3> HIDE DEF F
    <3> QED BY <3>4, <3>5, <3>6
  <2> QED BY <2>1, <2>2
<1>3. \A T \in SUBSET S : T \in F
  <2>1. {} \in F
    OBVIOUS
  <2> HIDE DEF F
  <2> QED BY <1>2, <2>1, RemovalInduction
<1> QED BY <1>0, <1>1, <1>3

LEMMA SumUnfolds ==
  ASSUME NEW S, IsFiniteSet(S), NEW v, \A x \in S : v[x] \in Int,
         NEW f, IsSum(f, v, S), NEW T \in SUBSET S, NEW x \in T
  PROVE  f[T] = v[x] + f[T \ {x}]
BY SumValues

\* Two sums agree where their values do.
LEMMA SumsAgree ==
  ASSUME NEW S, IsFiniteSet(S), NEW v, \A x \in S : v[x] \in Int, NEW f, IsSum(f, v, S),
         NEW R, IsFiniteSet(R), NEW w, \A x \in R : w[x] \in Int, NEW h, IsSum(h, w, R),
         NEW U, U \subseteq S, U \subseteq R, \A x \in U : v[x] = w[x]
  PROVE  f[U] = h[U]
<1> DEFINE F == {T \in SUBSET U : f[T] = h[T]}
<1>1. f[{}] = 0 /\ h[{}] = 0
  BY SumValues
<1>3. ASSUME NEW T \in SUBSET U, T # {}, \A x \in T : T \ {x} \in F PROVE T \in F
  <2>1. PICK x \in T : TRUE
    BY <1>3
  <2>2. f[T] = v[x] + f[T \ {x}]
    <3>1. T \in SUBSET S
      OBVIOUS
    <3> HIDE DEF F
    <3> QED BY <3>1, SumUnfolds
  <2>4. h[T] = w[x] + h[T \ {x}]
    <3>1. T \in SUBSET R
      OBVIOUS
    <3> HIDE DEF F
    <3> QED BY <3>1, SumUnfolds
  <2>3. f[T \ {x}] = h[T \ {x}] /\ v[x] = w[x]
    BY <1>3
  <2> QED BY <2>2, <2>3, <2>4
<1>4. \A T \in SUBSET U : T \in F
  <2>1. {} \in F /\ IsFiniteSet(U)
    BY <1>1, FS_Subset
  <2> HIDE DEF F
  <2> QED BY <1>3, <2>1, RemovalInduction
<1> QED BY <1>4

\* What a sum over a finite set is: nothing over none, and one value more than over
\* the set without the element that has it.
LEMMA SumOfNone ==
  ASSUME NEW v
  PROVE  SumFunctionOnSet(v, {}) = 0
<1>1. PICK f : IsSum(f, v, {}) /\ SumFunctionOnSet(v, {}) = f[{}]
  BY SumOnSetIsSum, FS_EmptySet
<1> QED BY <1>1 DEF IsSum

LEMMA SumType ==
  ASSUME NEW S, IsFiniteSet(S), NEW v, \A x \in S : v[x] \in Int
  PROVE  SumFunctionOnSet(v, S) \in Int
<1>1. PICK f : IsSum(f, v, S) /\ SumFunctionOnSet(v, S) = f[S]
  BY SumOnSetIsSum
<1> QED BY <1>1, SumValues

LEMMA SumAgree ==
  ASSUME NEW S, IsFiniteSet(S), NEW v, NEW w, \A x \in S : v[x] \in Int /\ v[x] = w[x]
  PROVE  SumFunctionOnSet(v, S) = SumFunctionOnSet(w, S)
<1>0. \A x \in S : w[x] \in Int
  OBVIOUS
<1>1. PICK f : IsSum(f, v, S) /\ SumFunctionOnSet(v, S) = f[S]
  BY SumOnSetIsSum
<1>2. PICK h : IsSum(h, w, S) /\ SumFunctionOnSet(w, S) = h[S]
  BY <1>0, SumOnSetIsSum
<1>3. f[S] = h[S]
  BY <1>0, <1>1, <1>2, SumsAgree
<1> QED BY <1>1, <1>2, <1>3

LEMMA SumRemove ==
  ASSUME NEW S, IsFiniteSet(S), NEW v, \A x \in S : v[x] \in Int, NEW x \in S
  PROVE  SumFunctionOnSet(v, S) = v[x] + SumFunctionOnSet(v, S \ {x})
<1>0. IsFiniteSet(S \ {x}) /\ \A y \in S \ {x} : v[y] \in Int
  BY FS_Subset
<1>1. PICK f : IsSum(f, v, S) /\ SumFunctionOnSet(v, S) = f[S]
  BY SumOnSetIsSum
<1>2. PICK h : IsSum(h, v, S \ {x}) /\ SumFunctionOnSet(v, S \ {x}) = h[S \ {x}]
  BY <1>0, SumOnSetIsSum
<1>3. f[S] = v[x] + f[S \ {x}]
  BY <1>1, SumValues
<1>4. f[S \ {x}] = h[S \ {x}]
  <2> DEFINE R == S \ {x}
  <2>1. IsFiniteSet(R) /\ (\A y \in R : v[y] \in Int) /\ IsSum(h, v, R) /\ R \subseteq S
    BY <1>0, <1>2
  <2> HIDE DEF R
  <2>2. f[R] = h[R]
    BY <1>1, <2>1, SumsAgree
  <2> QED BY <2>2 DEF R
<1> QED BY <1>1, <1>2, <1>3, <1>4

\* The sum over two sets without a common element is that of their sums.
LEMMA SumOfUnion ==
  ASSUME NEW S, IsFiniteSet(S), NEW v, \A x \in S : v[x] \in Int,
         NEW A, A \subseteq S, NEW B, B \subseteq S, A \cap B = {}
  PROVE  SumFunctionOnSet(v, A \cup B) = SumFunctionOnSet(v, A) + SumFunctionOnSet(v, B)
<1> DEFINE b == SumFunctionOnSet(v, B)
           F == {T \in SUBSET S : T \cap B = {} => SumFunctionOnSet(v, T \cup B) = SumFunctionOnSet(v, T) + b}
<1>1. \A T \in SUBSET S : IsFiniteSet(T) /\ SumFunctionOnSet(v, T) \in Int
  BY FS_Subset, SumType
<1>2. b \in Int
  BY <1>1
<1>3. {} \in F
  <2>1. {} \cup B = B /\ SumFunctionOnSet(v, {}) = 0
    BY SumOfNone
  <2>2. SumFunctionOnSet(v, {} \cup B) = SumFunctionOnSet(v, {}) + b
    BY <1>2, <2>1
  <2> QED BY <2>2
<1>4. ASSUME NEW T \in SUBSET S, T # {}, \A x \in T : T \ {x} \in F PROVE T \in F
  <2> SUFFICES ASSUME T \cap B = {} PROVE SumFunctionOnSet(v, T \cup B) = SumFunctionOnSet(v, T) + b
    OBVIOUS
  <2>1. PICK x : x \in T
    BY <1>4
  <2> DEFINE U == T \ {x}
             W == T \cup B
             R == W \ {x}
  <2>2. SumFunctionOnSet(v, U \cup B) = SumFunctionOnSet(v, U) + b
    BY <1>4, <2>1
  <2>3. R = U \cup B
    BY <2>1
  <2>4. /\ IsFiniteSet(T) /\ IsFiniteSet(W) /\ x \in W
        /\ (\A y \in T : v[y] \in Int) /\ (\A y \in W : v[y] \in Int)
        /\ v[x] \in Int /\ SumFunctionOnSet(v, U) \in Int /\ SumFunctionOnSet(v, T) \in Int
    <3>1. W \in SUBSET S /\ U \in SUBSET S /\ T \in SUBSET S /\ x \in W /\ x \in S
      BY <2>1
    <3> HIDE DEF W, U
    <3> QED BY <1>1, <3>1
  <2>5. SumFunctionOnSet(v, T) = v[x] + SumFunctionOnSet(v, U)
    BY <2>1, <2>4, SumRemove
  <2>6. SumFunctionOnSet(v, W) = v[x] + SumFunctionOnSet(v, R)
    <3> HIDE DEF W
    <3> QED BY <2>4, SumRemove
  <2> HIDE DEF U, R, W, b
  <2>7. SumFunctionOnSet(v, R) = SumFunctionOnSet(v, U) + b
    BY <2>2, <2>3
  <2>8. SumFunctionOnSet(v, W) = SumFunctionOnSet(v, T) + b
    BY <1>2, <2>4, <2>5, <2>6, <2>7
  <2> QED BY <2>8 DEF W
<1> HIDE DEF F
<1>5. \A T \in SUBSET S : T \in F
  BY <1>3, <1>4, RemovalInduction
<1> QED BY <1>5 DEF F

\* The parts of some elements of K, ...
Together(part, K) == UNION {part[k] : k \in K}

\* ... and the sum over all parts of a partition: the sum of their sums.
LEMMA SumOfParts ==
  ASSUME NEW K, IsFiniteSet(K), NEW S, IsFiniteSet(S), NEW v, \A x \in S : v[x] \in Int,
         NEW part, \A k \in K : part[k] \subseteq S,
         \A k, l \in K : k # l => part[k] \cap part[l] = {},
         NEW w, \A k \in K : w[k] = SumFunctionOnSet(v, part[k])
  PROVE  SumFunctionOnSet(w, K) = SumFunctionOnSet(v, Together(part, K))
<1> DEFINE F == {T \in SUBSET K : SumFunctionOnSet(w, T) = SumFunctionOnSet(v, Together(part, T))}
<1>1. ASSUME NEW k \in K PROVE w[k] \in Int
  <2> DEFINE A == part[k]
  <2>1. A \subseteq S /\ w[k] = SumFunctionOnSet(v, A)
    OBVIOUS
  <2> HIDE DEF A
  <2>2. IsFiniteSet(A) /\ \A x \in A : v[x] \in Int
    BY <2>1, FS_Subset
  <2> QED BY <2>1, <2>2, SumType
<1>2. {} \in F
  <2>1. Together(part, {}) = {}
    BY DEF Together
  <2> QED BY <2>1, SumOfNone
<1>3. ASSUME NEW T \in SUBSET K, T # {}, \A k \in T : T \ {k} \in F PROVE T \in F
  <2>1. PICK k : k \in T
    BY <1>3
  <2> DEFINE U == T \ {k}
             A == part[k]
             B == Together(part, U)
  <2>2. Together(part, T) = A \cup B
    BY <2>1 DEF Together
  <2>3. A \subseteq S /\ B \subseteq S /\ A \cap B = {}
    BY <2>1 DEF Together
  <2>4. SumFunctionOnSet(w, U) = SumFunctionOnSet(v, B)
    BY <1>3, <2>1
  <2>5. SumFunctionOnSet(w, T) = w[k] + SumFunctionOnSet(w, U)
    <3>1. IsFiniteSet(T) /\ \A y \in T : w[y] \in Int
      BY <1>1, FS_Subset
    <3> QED BY <2>1, <3>1, SumRemove
  <2>6. w[k] = SumFunctionOnSet(v, A)
    BY <2>1
  <2> HIDE DEF A, B, U
  <2>7. SumFunctionOnSet(v, A \cup B) = SumFunctionOnSet(v, A) + SumFunctionOnSet(v, B)
    BY <2>3, SumOfUnion
  <2>8. SumFunctionOnSet(w, T) = SumFunctionOnSet(v, Together(part, T))
    BY <2>2, <2>4, <2>5, <2>6, <2>7
  <2> QED BY <2>8
<1> HIDE DEF F
<1>4. \A T \in SUBSET K : T \in F
  BY <1>2, <1>3, RemovalInduction
<1> QED BY <1>4 DEF F

\* A sum of differences of which none is less than r, one of them known.
LEMMA SumOfDifferences ==
  ASSUME NEW S, IsFiniteSet(S), NEW v, \A x \in S : v[x] \in Int, NEW w, \A x \in S : w[x] \in Int,
         NEW r \in Int, \A x \in S : v[x] - w[x] >= r, NEW j \in S
  PROVE  SumFunctionOnSet(v, S) - SumFunctionOnSet(w, S) >= (Cardinality(S) - 1) * r + (v[j] - w[j])
<1> DEFINE a == [x \in S |-> v[x]]
           b == [x \in S |-> w[x]]
           c == 1
<1>1. /\ a \in [S -> Int] /\ b \in [S -> Int]
      /\ \A x \in S : a[x] = v[x] /\ b[x] = w[x] /\ a[x] \in Int /\ b[x] \in Int
  OBVIOUS
<1>2. SumFunctionOnSet(a, S) = SumFunctionOnSet(v, S) /\ SumFunctionOnSet(b, S) = SumFunctionOnSet(w, S)
  <2> HIDE DEF a, b
  <2> QED BY <1>1, SumAgree
<1>3. c \in Int /\ \A x \in Int : c * x = x
  OBVIOUS
<1> HIDE DEF a, b, c
<1>4. PICK f : IsSum(f, a, S) /\ SumFunctionOnSet(a, S) = f[S]
  BY <1>1, SumOnSetIsSum
<1>5. PICK h : IsSum(h, b, S) /\ SumFunctionOnSet(b, S) = h[S]
  BY <1>1, SumOnSetIsSum
<1>6. \A x \in S : a[x] - c * b[x] >= r
  BY <1>1, <1>3
<1>7. /\ f[S] \in Int /\ h[S] \in Int
      /\ f[S] - c * h[S] >= (Cardinality(S) - 1) * r + (a[j] - c * b[j])
  BY <1>1, <1>3, <1>4, <1>5, <1>6, SumBound
<1>8. c * h[S] = h[S] /\ c * b[j] = b[j]
  BY <1>1, <1>3, <1>7
<1>9. f[S] - h[S] >= (Cardinality(S) - 1) * r + (v[j] - w[j])
  BY <1>1, <1>7, <1>8
<1> QED BY <1>2, <1>4, <1>5, <1>9
\* The sum of one value many times, ...
LEMMA SumOfConstant ==
  ASSUME NEW S, IsFiniteSet(S), NEW r \in Int, NEW v, \A x \in S : v[x] = r
  PROVE  SumFunctionOnSet(v, S) = Cardinality(S) * r
<1> DEFINE F == {T \in SUBSET S : SumFunctionOnSet(v, T) = Cardinality(T) * r}
<1>1. {} \in F
  <2>1. SumFunctionOnSet(v, {}) = 0 /\ Cardinality({}) = 0
    BY SumOfNone, FS_EmptySet
  <2> QED BY <2>1
<1>2. ASSUME NEW T \in SUBSET S, T # {}, \A x \in T : T \ {x} \in F PROVE T \in F
  <2>1. PICK x : x \in T
    BY <1>2
  <2> DEFINE U == T \ {x}
  <2>2. IsFiniteSet(T) /\ \A y \in T : v[y] \in Int
    BY FS_Subset
  <2>3. Cardinality(T) \in Nat /\ Cardinality(U) = Cardinality(T) - 1
    BY <2>1, <2>2, FS_CardinalityType, FS_RemoveElement
  <2>4. SumFunctionOnSet(v, T) = r + SumFunctionOnSet(v, U)
    BY <2>1, <2>2, SumRemove
  <2>5. SumFunctionOnSet(v, U) = Cardinality(U) * r
    BY <1>2, <2>1
  <2> HIDE DEF U
  <2>6. Cardinality(T) * r = r + Cardinality(U) * r
    BY <2>3
  <2> QED BY <2>4, <2>5, <2>6
<1> HIDE DEF F
<1>3. \A T \in SUBSET S : T \in F
  BY <1>1, <1>2, RemovalInduction
<1> QED BY <1>3 DEF F

\* ... of one value once, ...
LEMMA SumOfOne ==
  ASSUME NEW x, NEW v, v[x] \in Int
  PROVE  SumFunctionOnSet(v, {x}) = v[x]
<1>1. IsFiniteSet({x}) /\ Cardinality({x}) = 1
  BY FS_Singleton
<1> DEFINE r == v[x]
<1>2. SumFunctionOnSet(v, {x}) = Cardinality({x}) * r
  BY <1>1, SumOfConstant
<1> HIDE DEF r
<1>3. 1 * r = r
  BY DEF r
<1> QED BY <1>1, <1>2, <1>3 DEF r

\* ... and of the same values under other names.
LEMMA SumOfImage ==
  ASSUME NEW S, IsFiniteSet(S), NEW f, \A x, y \in S : f[x] = f[y] => x = y,
         NEW v, \A x \in S : v[f[x]] \in Int, NEW w, \A x \in S : w[x] = v[f[x]]
  PROVE  SumFunctionOnSet(w, S) = SumFunctionOnSet(v, {f[x] : x \in S})
<1> DEFINE T == {f[x] : x \in S}
           part == [x \in S |-> {f[x]}]
<1>1. Together(part, S) = T
  BY DEF Together
<1>2. IsFiniteSet(T)
  <2> DEFINE g == [x \in S |-> f[x]]
  <2>1. DOMAIN g = S /\ T = {g[x] : x \in S}
    OBVIOUS
  <2> HIDE DEF g, T
  <2> QED BY <2>1, FiniteImage
<1>3. \A y \in T : v[y] \in Int
  OBVIOUS
<1>4. \A x \in S : part[x] \subseteq T
  OBVIOUS
<1>5. \A x, y \in S : x # y => part[x] \cap part[y] = {}
  OBVIOUS
<1>6. \A x \in S : w[x] = SumFunctionOnSet(v, part[x])
  BY SumOfOne
<1> HIDE DEF part, T
<1>7. SumFunctionOnSet(w, S) = SumFunctionOnSet(v, Together(part, S))
  BY <1>2, <1>3, <1>4, <1>5, <1>6, SumOfParts
<1> QED BY <1>1, <1>7 DEF T

LEMMA CardinalityOfImage ==
  ASSUME NEW S, IsFiniteSet(S), NEW f, \A x, y \in S : f[x] = f[y] => x = y
  PROVE  IsFiniteSet({f[x] : x \in S}) /\ Cardinality({f[x] : x \in S}) = Cardinality(S)
<1> DEFINE T == {f[x] : x \in S}
           g == [x \in S |-> f[x]]
<1>1. g \in Bijection(S, T)
  BY DEF Bijection, Injection, Surjection, IsInjective
<1>2. ExistsBijection(S, T)
  BY <1>1 DEF ExistsBijection
<1> HIDE DEF T
<1>3. IsFiniteSet(T) /\ Cardinality(T) = Cardinality(S)
  BY <1>2, FS_Bijection
<1> QED BY <1>3 DEF T

\* The second members of a relation's pairs with a first, and the first ones with a second.
SecondsOf(R, B, a) == {b \in B : <<a, b>> \in R}
FirstsOf(R, A, b) == {a \in A : <<a, b>> \in R}

\* The pairs of a relation between A and B counted by their first members and by their
\* second ones, each at the value of its first.
ByFirst(w, v, R, A, B) == \A a \in A : w[a] = Cardinality(SecondsOf(R, B, a)) * v[a]
BySecond(h, v, R, A, B) == \A b \in B : h[b] = SumFunctionOnSet(v, FirstsOf(R, A, b))

\* Both counts agree.
LEMMA SumOfPairs ==
  ASSUME NEW A, IsFiniteSet(A), NEW B, IsFiniteSet(B), NEW R \in SUBSET (A \X B),
         NEW v, \A a \in A : v[a] \in Int,
         NEW w, ByFirst(w, v, R, A, B), NEW h, BySecond(h, v, R, A, B)
  PROVE  SumFunctionOnSet(w, A) = SumFunctionOnSet(h, B)
<1> DEFINE u == [r \in R |-> v[r[1]]]
           first == [a \in A |-> {r \in R : r[1] = a}]
           second == [b \in B |-> {r \in R : r[2] = b}]
<1>1. IsFiniteSet(R)
  BY FS_Product, FS_Subset
<1>2. /\ \A r \in R : u[r] \in Int
      /\ \A a \in A : \A r \in R : r[1] = a => u[r] = v[a]
      /\ \A a \in A : \A b \in B : <<a, b>> \in R => u[<<a, b>>] = v[a]
  OBVIOUS
<1>3. Together(first, A) = R /\ Together(second, B) = R
  BY DEF Together
<1>4. (\A a \in A : first[a] \subseteq R) /\ (\A b \in B : second[b] \subseteq R)
  OBVIOUS
<1>5. /\ \A a, c \in A : a # c => first[a] \cap first[c] = {}
      /\ \A b, c \in B : b # c => second[b] \cap second[c] = {}
  OBVIOUS
<1>6. ASSUME NEW a \in A PROVE w[a] = SumFunctionOnSet(u, first[a])
  <2> DEFINE X == {b \in B : <<a, b>> \in R}
             f == [b \in X |-> <<a, b>>]
             Y == {f[b] : b \in X}
  <2>1. Y = first[a]
    <3>1. ASSUME NEW r \in first[a] PROVE r \in Y
      <4>1. PICK x \in A, y \in B : r = <<x, y>>
        OBVIOUS
      <4>2. r \in R /\ x = a
        BY <4>1
      <4>3. y \in X /\ f[y] = r
        BY <4>1, <4>2
      <4> QED BY <4>3
    <3>2. ASSUME NEW z \in X PROVE f[z] \in first[a]
      <4>1. f[z] = <<a, z>> /\ f[z] \in R
        OBVIOUS
      <4>2. f[z][1] = a
        BY <4>1
      <4> HIDE DEF f
      <4> QED BY <4>1, <4>2
    <3> HIDE DEF f, X, first
    <3> QED BY <3>1, <3>2
  <2>2. IsFiniteSet(X)
    BY FS_Subset
  <2>3. \A x, y \in X : f[x] = f[y] => x = y
    OBVIOUS
  <2>4. \A r \in first[a] : u[r] = v[a]
    BY <1>2
  <2>5. w[a] = Cardinality(X) * v[a]
    BY DEF SecondsOf, ByFirst
  <2> HIDE DEF u, first, X, f
  <2>6. IsFiniteSet(Y) /\ Cardinality(Y) = Cardinality(X)
    BY <2>2, <2>3, CardinalityOfImage
  <2> HIDE DEF Y
  <2>7. SumFunctionOnSet(u, Y) = Cardinality(Y) * v[a]
    BY <2>1, <2>4, <2>6, SumOfConstant
  <2> QED BY <2>1, <2>5, <2>6, <2>7
<1>7. ASSUME NEW b \in B PROVE h[b] = SumFunctionOnSet(u, second[b])
  <2> DEFINE X == {a \in A : <<a, b>> \in R}
             f == [a \in X |-> <<a, b>>]
             Y == {f[a] : a \in X}
  <2>1. Y = second[b]
    <3>1. ASSUME NEW r \in second[b] PROVE r \in Y
      <4>1. PICK x \in A, y \in B : r = <<x, y>>
        OBVIOUS
      <4>2. r \in R /\ y = b
        BY <4>1
      <4>3. x \in X /\ f[x] = r
        BY <4>1, <4>2
      <4> QED BY <4>3
    <3>2. ASSUME NEW z \in X PROVE f[z] \in second[b]
      <4>1. f[z] = <<z, b>> /\ f[z] \in R
        OBVIOUS
      <4>2. f[z][2] = b
        BY <4>1
      <4> HIDE DEF f
      <4> QED BY <4>1, <4>2
    <3> HIDE DEF f, X, second
    <3> QED BY <3>1, <3>2
  <2>2. IsFiniteSet(X)
    BY FS_Subset
  <2>3. \A x, y \in X : f[x] = f[y] => x = y
    OBVIOUS
  <2>4. \A a \in X : u[f[a]] \in Int /\ v[a] = u[f[a]]
    <3>1. \A a \in X : f[a] = <<a, b>> /\ a \in A /\ <<a, b>> \in R
      OBVIOUS
    <3> HIDE DEF u, f
    <3> QED BY <1>2, <3>1
  <2>5. h[b] = SumFunctionOnSet(v, X)
    BY DEF FirstsOf, BySecond
  <2> HIDE DEF u, second, X, f
  <2>6. SumFunctionOnSet(v, X) = SumFunctionOnSet(u, Y)
    BY <2>2, <2>3, <2>4, SumOfImage
  <2> HIDE DEF Y
  <2> QED BY <2>1, <2>5, <2>6
<1> HIDE DEF u, first, second
<1>8. SumFunctionOnSet(w, A) = SumFunctionOnSet(u, Together(first, A))
  BY <1>1, <1>2, <1>4, <1>5, <1>6, SumOfParts
<1>9. SumFunctionOnSet(h, B) = SumFunctionOnSet(u, Together(second, B))
  BY <1>1, <1>2, <1>4, <1>5, <1>7, SumOfParts
<1> QED BY <1>3, <1>8, <1>9

\* A sum of sums.
LEMMA SumOfSums ==
  ASSUME NEW S, IsFiniteSet(S), NEW v, \A x \in S : v[x] \in Int, NEW w, \A x \in S : w[x] \in Int,
         NEW h, \A x \in S : h[x] = v[x] + w[x]
  PROVE  SumFunctionOnSet(h, S) = SumFunctionOnSet(v, S) + SumFunctionOnSet(w, S)
<1> DEFINE sum(u, T) == SumFunctionOnSet(u, T)
           F == {T \in SUBSET S : sum(h, T) = sum(v, T) + sum(w, T)}
<1>1. {} \in F
  BY SumOfNone
<1>2. ASSUME NEW T \in SUBSET S, T # {}, \A x \in T : T \ {x} \in F PROVE T \in F
  <2>1. PICK x \in T : TRUE
    BY <1>2
  <2>2. IsFiniteSet(T) /\ IsFiniteSet(T \ {x}) /\ \A y \in T : v[y] \in Int /\ w[y] \in Int /\ h[y] \in Int
    BY FS_Subset
  <2>3. sum(v, T \ {x}) \in Int /\ sum(w, T \ {x}) \in Int
    BY <2>2, SumType
  <2>4. sum(h, T) = h[x] + sum(h, T \ {x}) /\ sum(v, T) = v[x] + sum(v, T \ {x}) /\ sum(w, T) = w[x] + sum(w, T \ {x})
    BY <2>2, SumRemove
  <2>5. sum(h, T \ {x}) = sum(v, T \ {x}) + sum(w, T \ {x})
    BY <1>2
  <2>6. h[x] = v[x] + w[x] /\ v[x] \in Int /\ w[x] \in Int
    OBVIOUS
  <2> HIDE DEF sum
  <2>7. sum(h, T) = sum(v, T) + sum(w, T)
    BY <2>3, <2>4, <2>5, <2>6
  <2> QED BY <2>7 DEF F
<1> QED
  <2> HIDE DEF F
  <2>1. S \in F
    BY <1>1, <1>2, RemovalInduction, ZenonT(40)
  <2> QED BY <2>1 DEF F

\* ... and of twice the values.
LEMMA SumOfDoubles ==
  ASSUME NEW S, IsFiniteSet(S), NEW v, \A x \in S : v[x] \in Int, NEW h, \A x \in S : h[x] = 2 * v[x]
  PROVE  SumFunctionOnSet(h, S) = 2 * SumFunctionOnSet(v, S)
<1>1. \A x \in S : h[x] = v[x] + v[x]
  OBVIOUS
<1>2. SumFunctionOnSet(h, S) = SumFunctionOnSet(v, S) + SumFunctionOnSet(v, S)
  BY <1>1, SumOfSums
<1> QED BY <1>2, SumType

\* A sum of values that are not negative is at least each of them.
LEMMA SumAtLeast ==
  ASSUME NEW S, IsFiniteSet(S), NEW v, \A x \in S : v[x] \in Nat, NEW j \in S
  PROVE  SumFunctionOnSet(v, S) >= v[j]
<1> DEFINE o == [x \in S |-> 0]
           c == Cardinality(S)
<1>1. SumFunctionOnSet(v, S) - SumFunctionOnSet(o, S) >= (c - 1) * 0 + (v[j] - o[j])
  <2>1. \A x \in S : v[x] \in Int /\ o[x] \in Int /\ v[x] - o[x] >= 0
    OBVIOUS
  <2> HIDE DEF o
  <2> QED BY <2>1, SumOfDifferences
<1>2. SumFunctionOnSet(o, S) = c * 0 /\ c \in Nat
  BY SumOfConstant, FS_CardinalityType
<1>3. c * 0 = 0 /\ (c - 1) * 0 = 0
  BY <1>2
<1> QED BY <1>1, <1>2, <1>3, SumType

\* k is a multiple of two.
Even(k) == \E i \in Int : k = 2 * i

\* A sum of even values is even.
LEMMA SumOfEvens ==
  ASSUME NEW S, IsFiniteSet(S), NEW v, \A x \in S : Even(v[x])
  PROVE  Even(SumFunctionOnSet(v, S))
<1> DEFINE h == [x \in S |-> CHOOSE i \in Int : v[x] = 2 * i]
<1>1. \A x \in S : h[x] \in Int /\ v[x] = 2 * h[x]
  BY DEF Even
<1> HIDE DEF h
<1>2. SumFunctionOnSet(v, S) = 2 * SumFunctionOnSet(h, S)
  BY <1>1, SumOfDoubles
<1> QED BY <1>1, <1>2, SumType DEF Even

------------------------------------------------------------------------------
(* Orientations. The edges in E lead from s to t. If an even number of their ends is at
   every vertex, the edges can be turned, or not, so that as many lead into each vertex as
   out of it. *)

\* How many of a's ends are at v, and what a brings into v less what it takes out of it.
Ends(s, t, v, a) == (IF t[a] = v THEN 1 ELSE 0) + (IF s[a] = v THEN 1 ELSE 0)
Gain(s, t, v, a) == (IF t[a] = v THEN 1 ELSE 0) - (IF s[a] = v THEN 1 ELSE 0)

\* Of all edges, each one once, or as often as e says.
Degree(E, s, t, v) == SumFunctionOnSet([a \in E |-> Ends(s, t, v, a)], E)
Balance(E, s, t, e, v) == SumFunctionOnSet([a \in E |-> e[a] * Gain(s, t, v, a)], E)

\* An edge has two ends.
LEMMA EndsType ==
  ASSUME NEW s, NEW t, NEW v, NEW a
  PROVE  Ends(s, t, v, a) \in 0 .. 2 /\ Gain(s, t, v, a) \in {-1, 0, 1}
BY DEF Ends, Gain

\* The degree of a vertex is that without an edge, and the edge's.
LEMMA DegreeUnfolds ==
  ASSUME NEW E, IsFiniteSet(E), NEW s, NEW t, NEW v, NEW b \in E
  PROVE  Degree(E, s, t, v) = Ends(s, t, v, b) + Degree(E \ {b}, s, t, v)
<1> DEFINE h == [a \in E |-> Ends(s, t, v, a)]
           k == [a \in E \ {b} |-> Ends(s, t, v, a)]
<1>1. (\A a \in E : h[a] \in Int) /\ h[b] = Ends(s, t, v, b)
  BY EndsType
<1>2. \A a \in E \ {b} : h[a] \in Int /\ h[a] = k[a]
  BY EndsType
<1>3. IsFiniteSet(E \ {b})
  BY FS_Subset
<1>4. Degree(E, s, t, v) = SumFunctionOnSet(h, E) /\ Degree(E \ {b}, s, t, v) = SumFunctionOnSet(k, E \ {b})
  BY DEF Degree
<1> HIDE DEF h, k
<1>5. SumFunctionOnSet(h, E) = h[b] + SumFunctionOnSet(h, E \ {b})
  BY <1>1, SumRemove
<1>6. SumFunctionOnSet(h, E \ {b}) = SumFunctionOnSet(k, E \ {b})
  BY <1>2, <1>3, SumAgree
<1> QED BY <1>1, <1>4, <1>5, <1>6

\* ... it is that of edges with the same ends, and a number.
LEMMA DegreeAgrees ==
  ASSUME NEW E, IsFiniteSet(E), NEW s, NEW t, NEW q, NEW r, NEW v,
         \A a \in E : q[a] = s[a] /\ r[a] = t[a]
  PROVE  Degree(E, s, t, v) = Degree(E, q, r, v) /\ Degree(E, s, t, v) \in Int
<1> DEFINE h == [a \in E |-> Ends(s, t, v, a)]
           k == [a \in E |-> Ends(q, r, v, a)]
<1>1. \A a \in E : h[a] \in Int /\ h[a] = k[a]
  BY EndsType DEF Ends
<1>2. Degree(E, s, t, v) = SumFunctionOnSet(h, E) /\ Degree(E, q, r, v) = SumFunctionOnSet(k, E)
  BY DEF Degree
<1> HIDE DEF h, k
<1> QED BY <1>1, <1>2, SumAgree, SumType

\* What an edge brings in, turned or not, is a number, ...
LEMMA BalanceType ==
  ASSUME NEW E, NEW s, NEW t, NEW e, NEW v, NEW a \in E, e[a] \in {-1, 1}
  PROVE  e[a] * Gain(s, t, v, a) \in Int
BY EndsType

\* ... the balance of a vertex is that without the edge, and this, ...
LEMMA BalanceUnfolds ==
  ASSUME NEW E, IsFiniteSet(E), NEW s, NEW t, NEW v, NEW e, \A a \in E : e[a] \in {-1, 1}, NEW b \in E
  PROVE  Balance(E, s, t, e, v) = e[b] * Gain(s, t, v, b) + Balance(E \ {b}, s, t, e, v)
<1> DEFINE h == [a \in E |-> e[a] * Gain(s, t, v, a)]
           k == [a \in E \ {b} |-> e[a] * Gain(s, t, v, a)]
<1>1. (\A a \in E : h[a] \in Int) /\ h[b] = e[b] * Gain(s, t, v, b)
  BY BalanceType
<1>2. \A a \in E \ {b} : h[a] \in Int /\ h[a] = k[a]
  BY BalanceType
<1>3. IsFiniteSet(E \ {b})
  BY FS_Subset
<1>4. /\ Balance(E, s, t, e, v) = SumFunctionOnSet(h, E)
      /\ Balance(E \ {b}, s, t, e, v) = SumFunctionOnSet(k, E \ {b})
  BY DEF Balance
<1> HIDE DEF h, k
<1>5. SumFunctionOnSet(h, E) = h[b] + SumFunctionOnSet(h, E \ {b})
  BY <1>1, SumRemove
<1>6. SumFunctionOnSet(h, E \ {b}) = SumFunctionOnSet(k, E \ {b})
  BY <1>2, <1>3, SumAgree
<1> QED BY <1>1, <1>4, <1>5, <1>6

\* ... and it is that of edges with the same ends that are turned alike.
LEMMA BalanceAgrees ==
  ASSUME NEW E, IsFiniteSet(E), NEW s, NEW t, NEW q, NEW r, NEW v,
         \A a \in E : q[a] = s[a] /\ r[a] = t[a],
         NEW e, \A a \in E : e[a] \in {-1, 1}, NEW f, \A a \in E : f[a] = e[a]
  PROVE  Balance(E, s, t, e, v) = Balance(E, q, r, f, v) /\ Balance(E, s, t, e, v) \in Int
<1> DEFINE h == [a \in E |-> e[a] * Gain(s, t, v, a)]
           k == [a \in E |-> f[a] * Gain(q, r, v, a)]
<1>1. \A a \in E : h[a] \in Int
  BY BalanceType
<1>2. \A a \in E : h[a] = k[a]
  BY DEF Gain
<1>3. Balance(E, s, t, e, v) = SumFunctionOnSet(h, E) /\ Balance(E, q, r, f, v) = SumFunctionOnSet(k, E)
  BY DEF Balance
<1> HIDE DEF h, k
<1> QED BY <1>1, <1>2, <1>3, SumAgree, SumType

\* Each vertex has an even number of ends, and e, which turns the edges, is balanced at each.
IsEven(E, s, t, V) == \A v \in V : Even(Degree(E, s, t, v))
IsBalanced(E, s, t, V, e) == e \in [E -> {-1, 1}] /\ \A v \in V : Balance(E, s, t, e, v) = 0

\* q and r make one edge, a, of a and b, which meet at v: b is turned with it or against it.
MergesAt(s, t, q, r, a, b, v, turn) ==
  /\ turn \in {-1, 1}
  /\ \A w : /\ Ends(s, t, w, a) + Ends(s, t, w, b) = Ends(q, r, w, a) + (IF w = v THEN 2 ELSE 0)
            /\ Gain(q, r, w, a) = Gain(s, t, w, a) + turn * Gain(s, t, w, b)

\* Degrees stay even, ...
LEMMA JoinIsEven ==
  ASSUME NEW E, IsFiniteSet(E), NEW s, NEW t, NEW q, NEW r, NEW b \in E, NEW a \in E \ {b}, NEW v, NEW turn,
         MergesAt(s, t, q, r, a, b, v, turn), \A x \in E \ {a, b} : q[x] = s[x] /\ r[x] = t[x],
         NEW V, IsEven(E, s, t, V)
  PROVE  IsEven(E \ {b}, q, r, V)
<1> SUFFICES ASSUME NEW w \in V PROVE Even(Degree(E \ {b}, q, r, w))
  BY DEF IsEven
<1> DEFINE R == E \ {a, b}
<1>1. IsFiniteSet(E \ {b}) /\ IsFiniteSet(R) /\ (E \ {b}) \ {a} = R
  BY FS_Subset
<1>2. /\ Degree(E, s, t, w) = Ends(s, t, w, b) + Degree(E \ {b}, s, t, w)
      /\ Degree(E \ {b}, s, t, w) = Ends(s, t, w, a) + Degree(R, s, t, w)
      /\ Degree(E \ {b}, q, r, w) = Ends(q, r, w, a) + Degree(R, q, r, w)
  BY <1>1, DegreeUnfolds
<1>3. Degree(R, s, t, w) = Degree(R, q, r, w) /\ Degree(R, s, t, w) \in Int
  BY <1>1, DegreeAgrees
<1>4. Ends(s, t, w, a) \in Int /\ Ends(s, t, w, b) \in Int /\ Ends(q, r, w, a) \in Int
  BY EndsType
<1>5. Ends(s, t, w, a) + Ends(s, t, w, b) = Ends(q, r, w, a) + (IF w = v THEN 2 ELSE 0)
  BY DEF MergesAt
<1>6. PICK k \in Int : Degree(E, s, t, w) = 2 * k
  BY DEF IsEven, Even
<1> HIDE DEF R
<1>7. Degree(E \ {b}, q, r, w) = 2 * (IF w = v THEN k - 1 ELSE k)
  BY <1>2, <1>3, <1>4, <1>5, <1>6
<1>8. (IF w = v THEN k - 1 ELSE k) \in Int
  OBVIOUS
<1> QED BY <1>7, <1>8 DEF Even

\* ... and what balances the edges that are left balances all.
LEMMA JoinIsBalanced ==
  ASSUME NEW E, IsFiniteSet(E), NEW s, NEW t, NEW q, NEW r, NEW b \in E, NEW a \in E \ {b}, NEW v, NEW turn,
         MergesAt(s, t, q, r, a, b, v, turn), \A x \in E \ {a, b} : q[x] = s[x] /\ r[x] = t[x],
         NEW V, NEW f, IsBalanced(E \ {b}, q, r, V, f)
  PROVE  \E e : IsBalanced(E, s, t, V, e)
<1> DEFINE e == [x \in E |-> IF x = b THEN turn * f[a] ELSE f[x]]
           R == E \ {a, b}
<1>1. e \in [E -> {-1, 1}] /\ e[b] = turn * e[a] /\ (\A x \in E \ {b} : e[x] = f[x]) /\ e[a] \in {-1, 1}
  <2>1. \A x \in E \ {b} : f[x] \in {-1, 1}
    BY DEF IsBalanced
  <2>2. turn * f[a] \in {-1, 1}
    <3>1. f[a] = -1 \/ f[a] = 1
      BY <2>1
    <3>2. turn = -1 \/ turn = 1
      BY DEF MergesAt
    <3> QED BY <3>1, <3>2
  <2> QED BY <2>1, <2>2
<1> HIDE DEF e
<1>2. ASSUME NEW w \in V PROVE Balance(E, s, t, e, w) = 0
  <2>1. IsFiniteSet(E \ {b}) /\ IsFiniteSet(R) /\ (E \ {b}) \ {a} = R
    BY FS_Subset
  <2>2. (\A x \in E : e[x] \in {-1, 1}) /\ (\A x \in E \ {b} : e[x] \in {-1, 1} /\ f[x] \in {-1, 1}) /\ f[a] = e[a]
    BY <1>1
  <2>3. /\ Balance(E, s, t, e, w) = e[b] * Gain(s, t, w, b) + Balance(E \ {b}, s, t, e, w)
        /\ Balance(E \ {b}, s, t, e, w) = e[a] * Gain(s, t, w, a) + Balance(R, s, t, e, w)
    BY <2>1, <2>2, BalanceUnfolds
  <2>4. Balance(E \ {b}, q, r, f, w) = f[a] * Gain(q, r, w, a) + Balance(R, q, r, f, w)
    BY <2>1, <2>2, BalanceUnfolds
  <2>5. \A x \in R : e[x] = f[x] /\ f[x] \in {-1, 1} /\ e[x] \in {-1, 1}
    BY <1>1, <2>2
  <2>6. Balance(R, s, t, e, w) = Balance(R, q, r, f, w) /\ Balance(R, s, t, e, w) \in Int
    BY <2>1, <2>5, BalanceAgrees
  <2>7. Balance(E \ {b}, q, r, f, w) = 0
    BY DEF IsBalanced
  <2>8. Gain(q, r, w, a) = Gain(s, t, w, a) + turn * Gain(s, t, w, b)
    BY DEF MergesAt
  <2>9. Gain(s, t, w, a) \in Int /\ Gain(s, t, w, b) \in Int /\ turn \in Int /\ e[a] \in Int
    BY <1>1, EndsType DEF MergesAt
  <2>10. e[b] * Gain(s, t, w, b) + e[a] * Gain(s, t, w, a) = f[a] * Gain(q, r, w, a)
    BY <1>1, <2>2, <2>8, <2>9
  <2>11. e[b] * Gain(s, t, w, b) \in Int /\ e[a] * Gain(s, t, w, a) \in Int
    BY <2>2, BalanceType
  <2> HIDE DEF R
  <2> QED BY <2>3, <2>4, <2>6, <2>7, <2>10, <2>11
<1> QED BY <1>1, <1>2 DEF IsBalanced

\* With b gone and a in its place, the edges are otherwise as they were.
Merges(E, s, t, q, r, a, b, turn) ==
  MergesAt(s, t, q, r, a, b, t[b], turn) /\ \A x \in E \ {a, b} : q[x] = s[x] /\ r[x] = t[x]

\* Two edges that meet at v, b leading there from elsewhere, can be made one.
LEMMA EdgesJoin ==
  ASSUME NEW E, NEW V, NEW s \in [E -> V], NEW t \in [E -> V], NEW b \in E, NEW a \in E \ {b},
         s[b] # t[b], Ends(s, t, t[b], a) = 1
  PROVE  \E q \in [E -> V], r \in [E -> V], turn \in {-1, 1} : Merges(E, s, t, q, r, a, b, turn)
<1>1. CASE t[a] = t[b]
  <2> DEFINE r == [t EXCEPT ![a] = s[b]]
  <2>1. r \in [E -> V] /\ r[a] = s[b] /\ \A x \in E \ {a, b} : r[x] = t[x]
    OBVIOUS
  <2> HIDE DEF r
  <2>2. s[a] # t[b]
    BY <1>1 DEF Ends
  <2>3. MergesAt(s, t, s, r, a, b, t[b], -1)
    BY <1>1, <2>1, <2>2 DEF MergesAt, Ends, Gain
  <2> QED BY <2>1, <2>3 DEF Merges
<1>2. CASE t[a] # t[b]
  <2> DEFINE q == [s EXCEPT ![a] = s[b]]
  <2>1. q \in [E -> V] /\ q[a] = s[b] /\ \A x \in E \ {a, b} : q[x] = s[x]
    OBVIOUS
  <2> HIDE DEF q
  <2>2. s[a] = t[b]
    BY <1>2 DEF Ends
  <2>3. MergesAt(s, t, q, t, a, b, t[b], 1)
    BY <1>2, <2>1, <2>2 DEF MergesAt, Ends, Gain
  <2> QED BY <2>1, <2>3 DEF Merges
<1> QED BY <1>1, <1>2

\* Another edge meets b where it leads to.
LEMMA EdgeMeets ==
  ASSUME NEW E, IsFiniteSet(E), NEW V, NEW s \in [E -> V], NEW t \in [E -> V], IsEven(E, s, t, V), NEW b \in E,
         s[b] # t[b]
  PROVE  \E a \in E \ {b} : Ends(s, t, t[b], a) = 1
<1> SUFFICES ASSUME \A a \in E \ {b} : Ends(s, t, t[b], a) # 1 PROVE FALSE
  OBVIOUS
<1> DEFINE h == [a \in E \ {b} |-> Ends(s, t, t[b], a)]
<1>1. \A a \in E \ {b} : Even(h[a])
  <2> SUFFICES ASSUME NEW a \in E \ {b} PROVE Even(Ends(s, t, t[b], a))
    OBVIOUS
  <2>1. Ends(s, t, t[b], a) = 2 * 0 \/ Ends(s, t, t[b], a) = 2 * 1
    BY EndsType
  <2> QED BY <2>1 DEF Even
<1>2. IsFiniteSet(E \ {b})
  BY FS_Subset
<1>3. Degree(E \ {b}, s, t, t[b]) = SumFunctionOnSet(h, E \ {b})
  BY DEF Degree
<1> HIDE DEF h
<1>4. Even(Degree(E \ {b}, s, t, t[b]))
  BY <1>1, <1>2, <1>3, SumOfEvens
<1>5. Ends(s, t, t[b], b) = 1
  BY DEF Ends
<1>6. Degree(E, s, t, t[b]) = 1 + Degree(E \ {b}, s, t, t[b])
  BY <1>5, DegreeUnfolds
<1>7. Even(Degree(E, s, t, t[b]))
  <2>1. t[b] \in V
    OBVIOUS
  <2> QED BY <2>1 DEF IsEven
<1>8. PICK k \in Int : Degree(E \ {b}, s, t, t[b]) = 2 * k
  BY <1>4 DEF Even
<1>9. PICK l \in Int : Degree(E, s, t, t[b]) = 2 * l
  BY <1>7 DEF Even
<1> QED BY <1>6, <1>8, <1>9

\* An edge from a vertex to itself changes nothing.
LEMMA LoopChangesNothing ==
  ASSUME NEW E, IsFiniteSet(E), NEW s, NEW t, NEW V, NEW b \in E, s[b] = t[b]
  PROVE  /\ IsEven(E, s, t, V) => IsEven(E \ {b}, s, t, V)
         /\ \A f : IsBalanced(E \ {b}, s, t, V, f) => \E e : IsBalanced(E, s, t, V, e)
<1>1. ASSUME IsEven(E, s, t, V), NEW v \in V PROVE Even(Degree(E \ {b}, s, t, v))
  <2>1. PICK k \in Int : Degree(E, s, t, v) = 2 * k
    BY <1>1 DEF IsEven, Even
  <2>2. Degree(E, s, t, v) = Ends(s, t, v, b) + Degree(E \ {b}, s, t, v)
    BY DegreeUnfolds
  <2>3. Degree(E \ {b}, s, t, v) \in Int
    BY FS_Subset, DegreeAgrees
  <2>4. Ends(s, t, v, b) = 0 \/ Ends(s, t, v, b) = 2
    BY DEF Ends
  <2>5. Degree(E \ {b}, s, t, v) = 2 * k \/ Degree(E \ {b}, s, t, v) = 2 * (k - 1)
    BY <2>1, <2>2, <2>3, <2>4
  <2>6. k \in Int /\ k - 1 \in Int
    OBVIOUS
  <2> QED BY <2>5, <2>6 DEF Even
<1>2. ASSUME NEW f, IsBalanced(E \ {b}, s, t, V, f) PROVE \E e : IsBalanced(E, s, t, V, e)
  <2> DEFINE e == [x \in E |-> IF x = b THEN 1 ELSE f[x]]
  <2>1. e \in [E -> {-1, 1}] /\ e[b] = 1 /\ (\A x \in E \ {b} : e[x] = f[x] /\ e[x] \in {-1, 1}) /\ \A x \in E : e[x] \in {-1, 1}
    BY <1>2 DEF IsBalanced
  <2> HIDE DEF e
  <2>2. ASSUME NEW v \in V PROVE Balance(E, s, t, e, v) = 0
    <3>1. Balance(E, s, t, e, v) = e[b] * Gain(s, t, v, b) + Balance(E \ {b}, s, t, e, v)
      BY <2>1, BalanceUnfolds
    <3>2. Gain(s, t, v, b) = 0
      BY DEF Gain
    <3>3. IsFiniteSet(E \ {b})
      BY FS_Subset
    <3>4. Balance(E \ {b}, s, t, e, v) = Balance(E \ {b}, s, t, f, v)
      BY <2>1, <3>3, BalanceAgrees
    <3>5. Balance(E \ {b}, s, t, f, v) = 0
      BY <1>2 DEF IsBalanced
    <3> QED BY <2>1, <3>1, <3>2, <3>4, <3>5
  <2> QED BY <2>1, <2>2 DEF IsBalanced
<1> QED BY <1>1, <1>2 DEF IsEven

\* Edge by edge: a loop turns nothing, and of two that meet at a vertex one is made.
LEMMA OrientationExists ==
  ASSUME NEW S, IsFiniteSet(S), NEW V, NEW s, NEW t, \A a \in S : s[a] \in V /\ t[a] \in V, IsEven(S, s, t, V)
  PROVE  \E e : IsBalanced(S, s, t, V, e)
<1> DEFINE Claim(T, q, r) == IsEven(T, q, r, V) => \E e : IsBalanced(T, q, r, V, e)
           F == {T \in SUBSET S : \A q, r \in [T -> V] : Claim(T, q, r)}
<1>1. {} \in F
  <2> SUFFICES ASSUME NEW q, NEW r PROVE \E e : IsBalanced({}, q, r, V, e)
    OBVIOUS
  <2> DEFINE e == [a \in {} |-> 1]
  <2>1. ASSUME NEW v \in V PROVE Balance({}, q, r, e, v) = 0
    BY SumOfNone DEF Balance
  <2>2. e \in [{} -> {-1, 1}]
    OBVIOUS
  <2> QED BY <2>1, <2>2 DEF IsBalanced
<1>2. ASSUME NEW T \in SUBSET S, T # {}, \A x \in T : T \ {x} \in F PROVE T \in F
  <2> SUFFICES ASSUME NEW q \in [T -> V], NEW r \in [T -> V], IsEven(T, q, r, V)
               PROVE  \E e : IsBalanced(T, q, r, V, e)
    OBVIOUS
  <2>1. PICK b \in T : TRUE
    BY <1>2
  <2>2. IsFiniteSet(T) /\ IsFiniteSet(T \ {b})
    BY FS_Subset
  <2>3. ASSUME NEW x, NEW y, \A a \in T \ {b} : x[a] \in V /\ y[a] \in V, IsEven(T \ {b}, x, y, V)
        PROVE  \E e : IsBalanced(T \ {b}, x, y, V, e)
    <3> DEFINE x2 == [a \in T \ {b} |-> x[a]]
               y2 == [a \in T \ {b} |-> y[a]]
    <3>1. x2 \in [T \ {b} -> V] /\ y2 \in [T \ {b} -> V] /\ \A a \in T \ {b} : x2[a] = x[a] /\ y2[a] = y[a]
      BY <2>3
    <3> HIDE DEF x2, y2
    <3>2. IsEven(T \ {b}, x2, y2, V)
      <4>1. \A v \in V : Degree(T \ {b}, x, y, v) = Degree(T \ {b}, x2, y2, v)
        BY <2>2, <3>1, DegreeAgrees
      <4> QED BY <2>3, <4>1 DEF IsEven
    <3>3. PICK e : IsBalanced(T \ {b}, x2, y2, V, e)
      BY <1>2, <2>1, <3>1, <3>2
    <3>4. \A a \in T \ {b} : e[a] \in {-1, 1}
      BY <3>3 DEF IsBalanced
    <3>5. \A v \in V : Balance(T \ {b}, x, y, e, v) = Balance(T \ {b}, x2, y2, e, v)
      BY <2>2, <3>1, <3>4, BalanceAgrees
    <3> QED BY <3>3, <3>5 DEF IsBalanced
  <2> HIDE DEF F, Claim
  <2>4. CASE q[b] = r[b]
    <3>1. IsEven(T \ {b}, q, r, V)
      BY <2>1, <2>2, <2>4, LoopChangesNothing
    <3>2. PICK e : IsBalanced(T \ {b}, q, r, V, e)
      BY <2>3, <3>1
    <3> QED BY <2>1, <2>2, <2>4, <3>2, LoopChangesNothing
  <2>5. CASE q[b] # r[b]
    <3>1. PICK a \in T \ {b} : Ends(q, r, r[b], a) = 1
      BY <2>1, <2>2, <2>5, EdgeMeets
    <3>2. PICK x \in [T -> V], y \in [T -> V], turn \in {-1, 1} : Merges(T, q, r, x, y, a, b, turn)
      BY <2>1, <2>5, <3>1, EdgesJoin
    <3>3. IsEven(T \ {b}, x, y, V)
      BY <2>1, <2>2, <3>1, <3>2, JoinIsEven DEF Merges
    <3>4. PICK f : IsBalanced(T \ {b}, x, y, V, f)
      BY <2>3, <3>2, <3>3
    <3> QED BY <2>1, <2>2, <3>1, <3>2, <3>4, JoinIsBalanced DEF Merges
  <2> QED BY <2>4, <2>5
<1>3. S \in F
  <2> HIDE DEF F
  <2>1. \A T \in SUBSET S : T \in F
    BY <1>1, <1>2, RemovalInduction
  <2> QED BY <2>1
<1> DEFINE q == [a \in S |-> s[a]]
           r == [a \in S |-> t[a]]
<1>4. q \in [S -> V] /\ r \in [S -> V] /\ \A a \in S : q[a] = s[a] /\ r[a] = t[a]
  OBVIOUS
<1> HIDE DEF q, r
<1>5. IsEven(S, q, r, V)
  <2>1. \A v \in V : Degree(S, s, t, v) = Degree(S, q, r, v)
    BY <1>4, DegreeAgrees
  <2> QED BY <2>1 DEF IsEven
<1>6. PICK e : IsBalanced(S, q, r, V, e)
  BY <1>3, <1>4, <1>5
<1>7. \A a \in S : e[a] \in {-1, 1}
  BY <1>6 DEF IsBalanced
<1>8. \A v \in V : Balance(S, s, t, e, v) = Balance(S, q, r, e, v)
  BY <1>4, <1>7, BalanceAgrees
<1> QED BY <1>6, <1>8 DEF IsBalanced

\* Values that are 0 add nothing.
LEMMA ZerosAddNothing ==
  ASSUME NEW S, IsFiniteSet(S), NEW v, \A n \in S : v[n] \in Int,
         NEW T \in SUBSET S, \A n \in S \ T : v[n] = 0
  PROVE  SumFunctionOnSet(v, S) = SumFunctionOnSet(v, T)
<1> DEFINE U == S \ T
<1>1. U \subseteq S /\ T \subseteq S /\ T \cap U = {} /\ S = T \cup U /\ \A n \in U : v[n] = 0
  OBVIOUS
<1> HIDE DEF U
<1>2. IsFiniteSet(U) /\ IsFiniteSet(T)
  BY <1>1, FS_Subset
<1>3. SumFunctionOnSet(v, U) = Cardinality(U) * 0 /\ Cardinality(U) \in Nat
  BY <1>1, <1>2, SumOfConstant, FS_CardinalityType
<1>4. SumFunctionOnSet(v, T \cup U) = SumFunctionOnSet(v, T) + SumFunctionOnSet(v, U)
  BY <1>1, SumOfUnion
<1>5. SumFunctionOnSet(v, T) \in Int
  BY <1>1, <1>2, SumType
<1> QED BY <1>1, <1>3, <1>4, <1>5

\* F is g and h together, each of which has half of it, at every edge to within one.
IsHalved(E, F, g, h) ==
  /\ g \in [E -> Nat] /\ h \in [E -> Nat]
  /\ \A a \in E : F[a] = g[a] + h[a] /\ g[a] - h[a] \in {-1, 0, 1}

\* What is not even is odd.
LEMMA EvenOrOdd ==
  ASSUME NEW f \in Nat
  PROVE  \E k \in Nat : f = IF Even(f) THEN 2 * k ELSE 2 * k + 1
<1> DEFINE k == f \div 2
<1>1. k \in Nat /\ (f = 2 * k \/ f = 2 * k + 1)
  OBVIOUS
<1> HIDE DEF k
<1>2. CASE Even(f)
  <2>1. PICK i \in Int : f = 2 * i
    BY <1>2 DEF Even
  <2>2. i \in Nat
    BY <2>1
  <2> QED BY <1>2, <2>1, <2>2
<1>3. CASE ~Even(f)
  <2>1. f # 2 * k
    BY <1>1, <1>3 DEF Even
  <2> QED BY <1>1, <1>3, <2>1
<1> QED BY <1>2, <1>3

\* The ends of the odd edges and what all edges bring in are even or odd together.
LEMMA ParityOfEnds ==
  ASSUME NEW s, NEW t, NEW v, NEW a, NEW f \in Nat
  PROVE  Even((IF ~Even(f) THEN Ends(s, t, v, a) ELSE 0) + f * Gain(s, t, v, a))
<1> DEFINE n == Ends(s, t, v, a)
           g == Gain(s, t, v, a)
<1>1. \/ (n = 0 /\ g = 0)
      \/ (n = 2 /\ g = 0)
      \/ (n = 1 /\ (g = 1 \/ g = -1))
  BY DEF Ends, Gain
<1> HIDE DEF n, g
<1>2. CASE Even(f)
  <2>1. PICK k \in Int : f = 2 * k
    BY <1>2 DEF Even
  <2>2. f * g = 2 * 0 \/ f * g = 2 * k \/ f * g = 2 * (-k)
    BY <1>1, <2>1
  <2>3. 0 \in Int /\ k \in Int /\ -k \in Int
    OBVIOUS
  <2>4. PICK i \in Int : f * g = 2 * i
    BY <2>2, <2>3
  <2>5. 0 + f * g = 2 * i
    BY <2>4
  <2>6. Even(0 + f * g)
    BY <2>5 DEF Even
  <2> QED BY <1>2, <2>6 DEF n, g
<1>3. CASE ~Even(f)
  <2>1. PICK k \in Nat : f = 2 * k + 1
    BY <1>3, EvenOrOdd
  <2>2. n + f * g = 2 * 0 \/ n + f * g = 2 * 1 \/ n + f * g = 2 * (k + 1) \/ n + f * g = 2 * (-k)
    BY <1>1, <2>1
  <2>3. 0 \in Int /\ 1 \in Int /\ k + 1 \in Int /\ -k \in Int
    OBVIOUS
  <2>4. Even(n + f * g)
    BY <2>2, <2>3 DEF Even
  <2> QED BY <1>3, <2>4 DEF n, g
<1> QED BY <1>2, <1>3

\* The edges that carry an odd number have even degrees.
LEMMA OddIsEven ==
  ASSUME NEW E, IsFiniteSet(E), NEW s, NEW t, NEW F, \A a \in E : F[a] \in Nat,
         NEW v, Even(Balance(E, s, t, F, v))
  PROVE  Even(Degree({a \in E : ~Even(F[a])}, s, t, v))
<1> DEFINE O == {a \in E : ~Even(F[a])}
           w == [a \in E |-> IF ~Even(F[a]) THEN Ends(s, t, v, a) ELSE 0]
           b == [a \in E |-> F[a] * Gain(s, t, v, a)]
           u == [a \in E |-> w[a] + b[a]]
           d == [a \in O |-> Ends(s, t, v, a)]
<1>1. \A a \in E : w[a] \in Int /\ b[a] \in Int /\ u[a] = w[a] + b[a] /\ Even(u[a])
  BY EndsType, ParityOfEnds
<1>2. O \in SUBSET E /\ (\A a \in E \ O : w[a] = 0) /\ (\A a \in O : w[a] = d[a] /\ w[a] \in Int) /\ IsFiniteSet(O)
  BY EndsType, FS_Subset
<1>3. Balance(E, s, t, F, v) = SumFunctionOnSet(b, E) /\ Degree(O, s, t, v) = SumFunctionOnSet(d, O)
  BY DEF Balance, Degree
<1> HIDE DEF O, w, b, u, d
<1>4. SumFunctionOnSet(u, E) = SumFunctionOnSet(w, E) + SumFunctionOnSet(b, E)
  BY <1>1, SumOfSums
<1>5. SumFunctionOnSet(w, E) = SumFunctionOnSet(w, O)
  BY <1>1, <1>2, ZerosAddNothing
<1>6. SumFunctionOnSet(w, O) = SumFunctionOnSet(d, O)
  BY <1>2, SumAgree
<1>7. PICK k \in Int : SumFunctionOnSet(u, E) = 2 * k
  BY <1>1, SumOfEvens DEF Even
<1>8. PICK l \in Int : SumFunctionOnSet(b, E) = 2 * l
  BY <1>3 DEF Even
<1>9. SumFunctionOnSet(w, E) \in Int
  BY <1>1, SumType
<1>10. SumFunctionOnSet(w, E) = 2 * (k - l)
  BY <1>4, <1>7, <1>8, <1>9
<1>11. k - l \in Int
  OBVIOUS
<1>12. Even(Degree(O, s, t, v))
  BY <1>3, <1>5, <1>6, <1>10, <1>11 DEF Even
<1> QED BY <1>12 DEF O

\* The edges lie between the vertices, F is even at each of these, and two flows agree there.
Connects(E, s, t, V) == \A a \in E : s[a] \in V /\ t[a] \in V
IsEvenFlow(E, s, t, V, F) ==
  (\A a \in E : F[a] \in Nat) /\ \A v \in V : Even(Balance(E, s, t, F, v))
AreAlike(E, s, t, V, g, h) == \A v \in V : Balance(E, s, t, g, v) = Balance(E, s, t, h, v)

\* A flow whose balance at each vertex is even is the sum of two halves with the same balance:
\* the odd edges, turned so that they are balanced, say which half has more.
LEMMA FlowHalves ==
  ASSUME NEW E, IsFiniteSet(E), NEW V, NEW s, NEW t, Connects(E, s, t, V), NEW F, IsEvenFlow(E, s, t, V, F)
  PROVE  \E g, h : IsHalved(E, F, g, h) /\ AreAlike(E, s, t, V, g, h)
<1> DEFINE O == {a \in E : ~Even(F[a])}
<1>0. /\ \A a \in E : s[a] \in V /\ t[a] \in V /\ F[a] \in Nat
      /\ \A v \in V : Even(Balance(E, s, t, F, v))
  BY DEF Connects, IsEvenFlow
<1>1. IsEven(O, s, t, V)
  BY <1>0, OddIsEven DEF IsEven
<1>2. O \in SUBSET E /\ IsFiniteSet(O) /\ \A a \in O : s[a] \in V /\ t[a] \in V
  BY <1>0, FS_Subset
<1>3. \A a \in E : a \in O <=> ~Even(F[a])
  OBVIOUS
<1> HIDE DEF O
<1>4. PICK e : IsBalanced(O, s, t, V, e)
  BY <1>1, <1>2, OrientationExists
<1> DEFINE d == [a \in E |-> IF a \in O THEN e[a] ELSE 0]
           g == [a \in E |-> CHOOSE k \in Nat : 2 * k = F[a] + d[a]]
           h == [a \in E |-> F[a] - g[a]]
<1>5. \A a \in E : d[a] \in {-1, 0, 1} /\ g[a] \in Nat /\ 2 * g[a] = F[a] + d[a]
  <2> SUFFICES ASSUME NEW a \in E PROVE d[a] \in {-1, 0, 1} /\ \E k \in Nat : 2 * k = F[a] + d[a]
    OBVIOUS
  <2>1. CASE a \in O
    <3>1. d[a] = e[a] /\ e[a] \in {-1, 1}
      BY <1>4, <2>1 DEF IsBalanced
    <3>2. PICK k \in Nat : F[a] = 2 * k + 1
      <4>1. F[a] \in Nat
        BY <1>0
      <4> QED BY <1>3, <2>1, <4>1, EvenOrOdd
    <3> HIDE DEF d
    <3>3. k \in Nat /\ k + 1 \in Nat /\ (2 * k = F[a] + d[a] \/ 2 * (k + 1) = F[a] + d[a])
      BY <3>1, <3>2
    <3> QED BY <3>1, <3>3
  <2>2. CASE a \notin O
    <3>1. d[a] = 0
      BY <2>2
    <3>2. PICK k \in Int : F[a] = 2 * k
      BY <1>3, <2>2 DEF Even
    <3>3. k \in Nat
      <4>1. F[a] \in Nat
        BY <1>0
      <4> QED BY <3>2, <4>1
    <3> QED BY <3>1, <3>2, <3>3
  <2> QED BY <2>1, <2>2
<1>6. \A a \in E : h[a] = F[a] - g[a]
  OBVIOUS
<1>7. g = [a \in E |-> g[a]] /\ h = [a \in E |-> h[a]] /\ \A a \in E : d[a] = IF a \in O THEN e[a] ELSE 0
  OBVIOUS
<1> HIDE DEF d, g, h
<1>8. \A a \in E : F[a] = g[a] + h[a] /\ g[a] = h[a] + d[a] /\ g[a] - h[a] = d[a] /\ h[a] \in Nat
  <2> SUFFICES ASSUME NEW a \in E PROVE F[a] = g[a] + h[a] /\ g[a] = h[a] + d[a] /\ g[a] - h[a] = d[a] /\ h[a] \in Nat
    OBVIOUS
  <2>1. F[a] \in Nat /\ g[a] \in Nat /\ d[a] \in {-1, 0, 1} /\ 2 * g[a] = F[a] + d[a] /\ h[a] = F[a] - g[a]
    BY <1>0, <1>5, <1>6
  <2> QED BY <2>1
<1>9. IsHalved(E, F, g, h)
  BY <1>5, <1>7, <1>8 DEF IsHalved
<1>10. ASSUME NEW v \in V PROVE Balance(E, s, t, g, v) = Balance(E, s, t, h, v)
  <2> DEFINE bg == [a \in E |-> g[a] * Gain(s, t, v, a)]
             bh == [a \in E |-> h[a] * Gain(s, t, v, a)]
             bd == [a \in E |-> d[a] * Gain(s, t, v, a)]
             be == [a \in O |-> e[a] * Gain(s, t, v, a)]
  <2>1. \A a \in E : bh[a] \in Int /\ bd[a] \in Int /\ bg[a] = bh[a] + bd[a]
    <3> SUFFICES ASSUME NEW a \in E, NEW y, y = Gain(s, t, v, a)
                 PROVE  h[a] * y \in Int /\ d[a] * y \in Int /\ g[a] * y = h[a] * y + d[a] * y
      OBVIOUS
    <3>1. y \in {-1, 0, 1} /\ d[a] \in {-1, 0, 1} /\ h[a] \in Nat /\ g[a] = h[a] + d[a]
      BY <1>5, <1>8, EndsType
    <3>2. y = -1 \/ y = 0 \/ y = 1
      BY <3>1
    <3> QED BY <3>1, <3>2
  <2>2. (\A a \in E \ O : bd[a] = 0) /\ \A a \in O : bd[a] = be[a] /\ bd[a] \in Int
    <3>1. \A a \in E : bd[a] = d[a] * Gain(s, t, v, a) /\ Gain(s, t, v, a) \in {-1, 0, 1}
      BY EndsType
    <3>2. \A a \in E \ O : d[a] = 0
      BY <1>7
    <3>3. \A a \in E \ O : bd[a] = 0
      BY <3>1, <3>2
    <3> QED BY <1>2, <1>7, <2>1, <3>3
  <2>3. /\ Balance(E, s, t, g, v) = SumFunctionOnSet(bg, E) /\ Balance(E, s, t, h, v) = SumFunctionOnSet(bh, E)
        /\ Balance(O, s, t, e, v) = SumFunctionOnSet(be, O)
    BY DEF Balance
  <2> HIDE DEF bg, bh, bd, be
  <2>4. SumFunctionOnSet(bg, E) = SumFunctionOnSet(bh, E) + SumFunctionOnSet(bd, E)
    BY <2>1, SumOfSums
  <2>5. SumFunctionOnSet(bd, E) = SumFunctionOnSet(bd, O)
    BY <1>2, <2>1, <2>2, ZerosAddNothing
  <2>6. SumFunctionOnSet(bd, O) = SumFunctionOnSet(be, O)
    BY <1>2, <2>2, SumAgree
  <2>7. Balance(O, s, t, e, v) = 0
    BY <1>4 DEF IsBalanced
  <2>8. SumFunctionOnSet(bh, E) \in Int
    BY <2>1, SumType
  <2> QED BY <2>3, <2>4, <2>5, <2>6, <2>7, <2>8
<1>11. AreAlike(E, s, t, V, g, h)
  BY <1>10 DEF AreAlike
<1> QED BY <1>9, <1>11
------------------------------------------------------------------------------
(* A loop over a finite set C of columns: paths leave a diagram D for good, *)
(* and each joins a master R once while it is one.  A column that joins the *)
(* master when it is a path no longer is cleaned away in the next turn.     *)

WorkOf(C, D, R) ==
  Cardinality(D) * (Cardinality(C) + 3) + Cardinality(C \ (R \cap D)) + (IF R \subseteq D THEN 0 ELSE 1)

WorkLimit(C) == Cardinality(C) * (Cardinality(C) + 3) + Cardinality(C) + 2

\* The work left is a number, of which there is never more than at the beginning.
LEMMA WorkType ==
  ASSUME NEW C, IsFiniteSet(C), NEW D \in SUBSET C, NEW R \in SUBSET C
  PROVE  /\ Cardinality(C) \in Nat /\ Cardinality(D) \in 0 .. Cardinality(C)
         /\ Cardinality(D) * (Cardinality(C) + 3) \in Nat
         /\ Cardinality(C \ (R \cap D)) \in 0 .. Cardinality(C)
         /\ WorkOf(C, D, R) \in Nat /\ WorkOf(C, D, R) <= WorkLimit(C) - 1 /\ WorkLimit(C) \in Nat
<1>1. Cardinality(C) \in Nat
  BY FS_CardinalityType
<1>2. ASSUME NEW S \in SUBSET C PROVE Cardinality(S) \in 0 .. Cardinality(C)
  BY <1>1, FS_Subset, FS_CardinalityType
<1>3. C \ (R \cap D) \in SUBSET C
  OBVIOUS
<1>4. Cardinality(D) \in 0 .. Cardinality(C) /\ Cardinality(C \ (R \cap D)) \in 0 .. Cardinality(C)
  BY <1>2, <1>3
<1>5. \A d \in 0 .. Cardinality(C) : d * (Cardinality(C) + 3) \in Nat /\ d * (Cardinality(C) + 3) <= Cardinality(C) * (Cardinality(C) + 3)
  <2>1. \A d, n, l \in Nat : d <= n => d * l \in Nat /\ d * l <= n * l
    OBVIOUS
  <2> QED BY <1>1, <2>1
<1>6. Cardinality(C) * (Cardinality(C) + 3) \in Nat
  BY <1>1
<1> QED BY <1>1, <1>4, <1>5, <1>6 DEF WorkOf, WorkLimit

\* A path less in the diagram is worth more than anything the master can lose.
LEMMA WorkFallsWithDiagram ==
  ASSUME NEW C, IsFiniteSet(C), NEW D \in SUBSET C, NEW E \in SUBSET D, E # D, NEW R \in SUBSET C, NEW Q \in SUBSET C
  PROVE  WorkOf(C, E, Q) <= WorkOf(C, D, R) - 2
<1>1. Cardinality(E) <= Cardinality(D) - 1
  <2>1. IsFiniteSet(D)
    BY FS_Subset
  <2>2. IsFiniteSet(E) /\ Cardinality(E) <= Cardinality(D) /\ (Cardinality(E) = Cardinality(D) => E = D)
    BY <2>1, FS_Subset
  <2>3. Cardinality(E) \in Nat /\ Cardinality(D) \in Nat
    BY <2>1, <2>2, FS_CardinalityType
  <2> QED BY <2>2, <2>3
<1>2. E \in SUBSET C
  OBVIOUS
<1>3. /\ Cardinality(C) \in Nat /\ Cardinality(D) \in Nat /\ Cardinality(E) \in Nat
      /\ Cardinality(C \ (R \cap D)) \in Nat /\ Cardinality(C \ (Q \cap E)) \in 0 .. Cardinality(C)
  <2>1. /\ Cardinality(C) \in Nat /\ Cardinality(E) \in 0 .. Cardinality(C)
        /\ Cardinality(C \ (Q \cap E)) \in 0 .. Cardinality(C)
    BY <1>2, WorkType
  <2>2. Cardinality(D) \in 0 .. Cardinality(C) /\ Cardinality(C \ (R \cap D)) \in 0 .. Cardinality(C)
    BY WorkType
  <2> QED BY <2>1, <2>2
<1>4. /\ Cardinality(E) * (Cardinality(C) + 3) + (Cardinality(C) + 3) <= Cardinality(D) * (Cardinality(C) + 3)
      /\ Cardinality(E) * (Cardinality(C) + 3) \in Nat /\ Cardinality(D) * (Cardinality(C) + 3) \in Nat
  <2>1. \A d, n, l \in Nat : d <= n - 1 => d * l \in Nat /\ n * l \in Nat /\ d * l + l <= n * l
    <3> SUFFICES ASSUME NEW d \in Nat, NEW n \in Nat, NEW l \in Nat, d <= n - 1
                 PROVE  d * l \in Nat /\ n * l \in Nat /\ d * l + l <= n * l
      OBVIOUS
    <3>1. (d + 1) * l <= n * l /\ (d + 1) * l = d * l + l
      OBVIOUS
    <3> QED BY <3>1
  <2> QED BY <1>1, <1>3, <2>1
<1> QED BY <1>3, <1>4 DEF WorkOf

\* Cleaning the master costs no work, and saves some if there is anything to clean.
LEMMA WorkOfCleaned ==
  ASSUME NEW C, IsFiniteSet(C), NEW D \in SUBSET C, NEW R \in SUBSET C
  PROVE  WorkOf(C, D, R \cap D) = WorkOf(C, D, R) - (IF R \subseteq D THEN 0 ELSE 1)
<1>1. (R \cap D) \cap D = R \cap D /\ R \cap D \subseteq D /\ R \cap D \in SUBSET C
  OBVIOUS
<1>2. Cardinality(D) * (Cardinality(C) + 3) \in Nat /\ Cardinality(C) \in Nat /\ Cardinality(C \ (R \cap D)) \in 0 .. Cardinality(C)
  BY WorkType
<1> DEFINE w == Cardinality(D) * (Cardinality(C) + 3)
           a == Cardinality(C \ (R \cap D))
<1>3. /\ WorkOf(C, D, R) = w + a + (IF R \subseteq D THEN 0 ELSE 1)
      /\ WorkOf(C, D, R \cap D) = w + a + 0
  BY <1>1 DEF WorkOf
<1>4. w \in Nat /\ a \in Nat
  BY <1>2
<1> HIDE DEF w, a
<1> QED BY <1>3, <1>4

\* A column that joins the master does work if it is a path the master lacks, and
\* undoes none, but for one unit, if it is not a path.
LEMMA WorkOfAdded ==
  ASSUME NEW C, IsFiniteSet(C), NEW D \in SUBSET C, NEW R \in SUBSET C, NEW s \in C
  PROVE  /\ WorkOf(C, D, R \cup {s}) <= WorkOf(C, D, R) + 1
         /\ s \in D => WorkOf(C, D, R \cup {s}) <= WorkOf(C, D, R)
         /\ s \in D /\ s \notin R => WorkOf(C, D, R \cup {s}) = WorkOf(C, D, R) - 1
<1> DEFINE A == C \ (R \cap D)
           B == C \ ((R \cup {s}) \cap D)
<1>1. B = IF s \in D THEN A \ {s} ELSE A
  OBVIOUS
<1>2. IsFiniteSet(A) /\ IsFiniteSet(B) /\ B \subseteq A
  BY <1>1, FS_Subset
<1>3. Cardinality(B) <= Cardinality(A) /\ Cardinality(A) \in Int /\ Cardinality(B) \in Int
  BY <1>2, FS_Subset, FS_CardinalityType
<1>4. s \in D /\ s \notin R => Cardinality(B) = Cardinality(A) - 1
  BY <1>1, <1>2, FS_RemoveElement, ZenonT(40)
<1>5. Cardinality(D) * (Cardinality(C) + 3) \in Nat
  BY WorkType
<1> DEFINE F == IF R \subseteq D THEN 0 ELSE 1
           G == IF R \cup {s} \subseteq D THEN 0 ELSE 1
<1>6. /\ WorkOf(C, D, R) = Cardinality(D) * (Cardinality(C) + 3) + Cardinality(A) + F
      /\ WorkOf(C, D, R \cup {s}) = Cardinality(D) * (Cardinality(C) + 3) + Cardinality(B) + G
  BY DEF WorkOf
<1>7. F \in 0 .. 1 /\ G \in 0 .. 1 /\ (s \in D => F = G)
  OBVIOUS
<1> HIDE DEF A, B, F, G
<1> QED BY <1>3, <1>4, <1>5, <1>6, <1>7

=============================================================================
