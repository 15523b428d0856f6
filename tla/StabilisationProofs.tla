-------------------------- MODULE StabilisationProofs --------------------------
(***************************************************************************)
(* Stabilisation for every set of columns, number of jobs and machines,    *)
(* grid and limit: whatever point a technique prices at, the bound it      *)
(* reports is a bound, fixing keeps the schedules still wanted, giving up  *)
(* is right, and the node keeps the promise of NodeBound.                  *)
(***************************************************************************)
EXTENDS Stabilisation, FiniteSums

TypeOK ==
  /\ pc \in {"master", "turn", "fix", "column", "done"}
  /\ verdict \in {"initialized", "LP_bound_computed", "infeasible"}
  /\ value \in Int
  /\ technique \in Kinds
  /\ dd0 \subseteq Col /\ dd \subseteq dd0 /\ rmp \subseteq Col
  /\ piOut \in Nat /\ piIn \in Nat /\ piSep \in Nat
  /\ etaOut \in Int /\ etaIn \in Nat
  /\ alpha \in 0 .. 9 /\ alphabar \in 0 .. 10 /\ k \in Nat
  /\ hasCenter \in BOOLEAN /\ center \in BOOLEAN /\ misprice \in BOOLEAN
  /\ subgradient \in Int
  /\ iterations \in Nat /\ prevFix \in Nat /\ continueLP \in BOOLEAN
  /\ priced \subseteq Col

\* The bound found so far holds for every solution still wanted, and none of these
\* has lost a path.
BoundInv == \A x \in Wanted : x \in Solutions(dd) /\ etaIn <= CostOf(x)

\* eta_out is the value of a master with no more columns than the present one.
MasterInv == iterations > 0 => \A q \in Dual : MasterAt(rmp, q) <= etaOut

\* The loop still runs until a verdict is given.
VerdictInv == /\ pc # "done" <=> verdict = "initialized"
              /\ pc \in {"turn", "fix", "column"} => iterations > 0

IInv == TypeOK /\ BoundInv /\ MasterInv /\ VerdictInv /\ GivesUpOnlyAtOptimum

USE DEF node, points, eta, smooth, flags, vars
------------------------------------------------------------------------------
(* What is computed over the columns of a diagram. *)

LEMMA ColumnType == ASSUME NEW s \in Col PROVE s.jobs \in Nat /\ s.cost \in Nat
BY StabilisationAssumption

LEMMA ValueType == ASSUME NEW s \in Col, NEW pi \in Int
                   PROVE  Reduced(s, pi) \in Int /\ Line(s, pi) \in Int /\ Slope(s) \in Int
<1>1. s.jobs * pi \in Int /\ Jobs * pi \in Int /\ Machines * s.jobs \in Int
  BY ColumnType, StabilisationAssumption
<1>2. Reduced(s, pi) \in Int
  BY <1>1, ColumnType DEF Reduced
<1>3. Machines * Reduced(s, pi) \in Int
  BY <1>2, StabilisationAssumption
<1> QED BY <1>1, <1>2, <1>3, StabilisationAssumption DEF Line, Slope

\* The columns' values at a point are a finite set of integers.
LEMMA FiniteValues ==
  ASSUME NEW D \in SUBSET Col, NEW pi \in Int
  PROVE  /\ IsFiniteSet({Reduced(s, pi) : s \in D}) /\ {Reduced(s, pi) : s \in D} \subseteq Int
         /\ IsFiniteSet({Line(s, pi) : s \in D}) /\ {Line(s, pi) : s \in D} \subseteq Int
<1>1. IsFiniteSet(D)
  BY StabilisationAssumption, FS_Subset
<1>2. IsFiniteSet({[t \in D |-> Reduced(t, pi)][s] : s \in D})
  BY <1>1, FiniteImage
<1>3. IsFiniteSet({[t \in D |-> Line(t, pi)][s] : s \in D})
  BY <1>1, FiniteImage
<1>4. /\ {[t \in D |-> Reduced(t, pi)][s] : s \in D} = {Reduced(s, pi) : s \in D}
      /\ {[t \in D |-> Line(t, pi)][s] : s \in D} = {Line(s, pi) : s \in D}
  OBVIOUS
<1>5. \A s \in D : Reduced(s, pi) \in Int /\ Line(s, pi) \in Int
  BY ValueType
<1> QED BY <1>2, <1>3, <1>4, <1>5

\* The Lagrangian function is the least of its lines.
LEMMA LagrangeIsLeast ==
  ASSUME NEW D \in SUBSET Col, NEW pi \in Int
  PROVE  /\ Lagrange(D, pi) \in Int
         /\ Lagrange(D, pi) <= Jobs * pi
         /\ \A s \in D : Lagrange(D, pi) <= Line(s, pi)
         /\ Lagrange(D, pi) = Jobs * pi \/ \E s \in D : Lagrange(D, pi) = Line(s, pi)
<1> DEFINE V == {Jobs * pi} \cup {Line(s, pi) : s \in D}
<1>1. V \subseteq Int /\ IsFiniteSet(V) /\ V # {}
  <2>1. Jobs * pi \in Int
    BY StabilisationAssumption
  <2>2. IsFiniteSet({Jobs * pi})
    BY FS_Singleton
  <2>3. IsFiniteSet(V)
    BY <2>2, FiniteValues, FS_Union
  <2> QED BY <2>1, <2>3, FiniteValues
<1>2. Min(V) \in V /\ \A n \in V : Min(V) <= n
  <2> HIDE DEF V
  <2> QED BY <1>1, MinIsLeast
<1>3. Lagrange(D, pi) = Min(V)
  BY DEF Lagrange
<1> QED BY <1>1, <1>2, <1>3

LEMMA MasterIsLagrange == ASSUME NEW R, NEW pi PROVE MasterAt(R, pi) = Lagrange(R, pi)
BY DEF MasterAt, Lagrange

\* More columns make the master cheaper.
LEMMA MasterFalls ==
  ASSUME NEW R \in SUBSET Col, NEW S \in SUBSET R, NEW pi \in Int
  PROVE  MasterAt(R, pi) <= MasterAt(S, pi)
<1>1. S \in SUBSET Col
  OBVIOUS
<1> QED BY <1>1, LagrangeIsLeast, MasterIsLagrange
------------------------------------------------------------------------------
(* What a solution costs is the sum of its columns' costs, and a sum is at *)
(* least what the Lagrangian function says.                                *)

LEMMA CostIsSum ==
  ASSUME NEW x \in [1 .. Machines -> Col]
  PROVE  \E f : IsSum(f, [i \in 1 .. Machines |-> x[i].cost], 1 .. Machines) /\ CostOf(x) = f[1 .. Machines]
<1> DEFINE S == 1 .. Machines
           v == [i \in S |-> x[i].cost]
           IsIter(f) == f = [T \in SUBSET S |-> IF T = {} THEN 0
                          ELSE x[CHOOSE i \in T : TRUE].cost + f[T \ {CHOOSE i \in T : TRUE}]]
           iter == CHOOSE f : IsIter(f)
<1>1. \A f : IsSum(f, v, S) <=> IsIter(f)
  <2> SUFFICES ASSUME NEW f
               PROVE  [T \in SUBSET S |-> IF T = {} THEN 0
                          ELSE x[CHOOSE i \in T : TRUE].cost + f[T \ {CHOOSE i \in T : TRUE}]]
                      = [T \in SUBSET S |-> IF T = {} THEN 0
                          ELSE v[CHOOSE i \in T : TRUE] + f[T \ {CHOOSE i \in T : TRUE}]]
    BY ZenonT(40) DEF IsSum
  <2>1. ASSUME NEW T \in SUBSET S, T # {} PROVE x[CHOOSE i \in T : TRUE].cost = v[CHOOSE i \in T : TRUE]
    <3>1. (CHOOSE i \in T : TRUE) \in S
      BY <2>1
    <3> QED BY <3>1
  <2> QED BY <2>1
<1>2. \E f : IsIter(f)
  <2>1. IsFiniteSet(S) /\ v \in [S -> Int]
    BY FS_Interval, StabilisationAssumption
  <2>2. PICK f \in [SUBSET S -> Int] : IsSum(f, v, S)
    BY <2>1, SumIsDefined
  <2>3. IsIter(f)
    BY <1>1, <2>2
  <2> QED BY <2>3
<1>3. IsIter(iter)
  BY <1>2
<1>4. CostOf(x) = iter[S]
  BY DEF CostOf, FoldFunction, FoldFunctionOnSet, MapThenFoldSet
<1> QED BY <1>1, <1>3, <1>4

LEMMA JobsIsSum ==
  ASSUME NEW x \in [1 .. Machines -> Col]
  PROVE  \E f : IsSum(f, [i \in 1 .. Machines |-> x[i].jobs], 1 .. Machines) /\ JobsIn(x) = f[1 .. Machines]
<1> DEFINE S == 1 .. Machines
           v == [i \in S |-> x[i].jobs]
           IsIter(f) == f = [T \in SUBSET S |-> IF T = {} THEN 0
                          ELSE x[CHOOSE i \in T : TRUE].jobs + f[T \ {CHOOSE i \in T : TRUE}]]
           iter == CHOOSE f : IsIter(f)
<1>1. \A f : IsSum(f, v, S) <=> IsIter(f)
  <2> SUFFICES ASSUME NEW f
               PROVE  [T \in SUBSET S |-> IF T = {} THEN 0
                          ELSE x[CHOOSE i \in T : TRUE].jobs + f[T \ {CHOOSE i \in T : TRUE}]]
                      = [T \in SUBSET S |-> IF T = {} THEN 0
                          ELSE v[CHOOSE i \in T : TRUE] + f[T \ {CHOOSE i \in T : TRUE}]]
    BY ZenonT(40) DEF IsSum
  <2>1. ASSUME NEW T \in SUBSET S, T # {} PROVE x[CHOOSE i \in T : TRUE].jobs = v[CHOOSE i \in T : TRUE]
    <3>1. (CHOOSE i \in T : TRUE) \in S
      BY <2>1
    <3> QED BY <3>1
  <2> QED BY <2>1
<1>2. \E f : IsIter(f)
  <2>1. IsFiniteSet(S) /\ v \in [S -> Int]
    BY FS_Interval, StabilisationAssumption
  <2>2. PICK f \in [SUBSET S -> Int] : IsSum(f, v, S)
    BY <2>1, SumIsDefined
  <2>3. IsIter(f)
    BY <1>1, <2>2
  <2> QED BY <2>3
<1>3. IsIter(iter)
  BY <1>2
<1>4. JobsIn(x) = iter[S]
  BY DEF JobsIn, FoldFunction, FoldFunctionOnSet, MapThenFoldSet
<1> QED BY <1>1, <1>3, <1>4

\* Costs add up, to no less than zero and no less than r for each machine but one,
\* if every path costs r beyond what its jobs pay.
LEMMA CostBound ==
  ASSUME NEW x \in [1 .. Machines -> Col], NEW pi \in Int, NEW r \in Int,
         \A i \in 1 .. Machines : Reduced(x[i], pi) >= r,
         NEW j \in 1 .. Machines
  PROVE  /\ CostOf(x) \in Int /\ JobsIn(x) \in Int
         /\ CostOf(x) - pi * JobsIn(x) >= (Machines - 1) * r + Reduced(x[j], pi)
<1> DEFINE S == 1 .. Machines
           v == [i \in S |-> x[i].cost]
           w == [i \in S |-> x[i].jobs]
<1>1. PICK f : IsSum(f, v, S) /\ CostOf(x) = f[S]
  BY CostIsSum
<1>2. PICK h : IsSum(h, w, S) /\ JobsIn(x) = h[S]
  BY JobsIsSum
<1>3. v \in [S -> Int] /\ w \in [S -> Int]
  BY StabilisationAssumption
<1>4. \A i \in S : v[i] - pi * w[i] = Reduced(x[i], pi)
  <2> SUFFICES ASSUME NEW i \in S PROVE v[i] - pi * w[i] = Reduced(x[i], pi)
    OBVIOUS
  <2>1. x[i].jobs \in Int /\ v[i] = x[i].cost /\ w[i] = x[i].jobs
    BY ColumnType
  <2>2. pi * x[i].jobs = x[i].jobs * pi
    BY <2>1
  <2> QED BY <2>1, <2>2 DEF Reduced
<1>5. IsFiniteSet(S) /\ Cardinality(S) = Machines
  <2>1. 1 \in Int /\ Machines \in Int /\ 1 <= Machines
    BY StabilisationAssumption
  <2>2. IsFiniteSet(S) /\ Cardinality(S) = IF 1 > Machines THEN 0 ELSE Machines - 1 + 1
    BY <2>1, FS_Interval
  <2> QED BY <2>1, <2>2
<1>6. \A i \in S : v[i] - pi * w[i] >= r
  BY <1>4
<1>7. /\ f[S] \in Int /\ h[S] \in Int
      /\ f[S] - pi * h[S] >= (Cardinality(S) - 1) * r + (v[j] - pi * w[j])
  <2> HIDE DEF S, v, w
  <2>1. j \in S
    BY DEF S
  <2> QED BY <1>1, <1>2, <1>3, <1>5, <1>6, <2>1, SumBound
<1> QED BY <1>1, <1>2, <1>4, <1>5, <1>7

\* Whatever the duals, the Lagrangian function and the bound through a path are no
\* more than the cost of a solution that uses it.
LEMMA SolutionBound ==
  ASSUME NEW D \in SUBSET Col, NEW pi \in Nat, NEW x \in Solutions(D)
  PROVE  /\ CostOf(x) \in Nat /\ CostOf(x) <= UB - 1
         /\ Lagrange(D, pi) <= CostOf(x)
         /\ \A j \in 1 .. Machines : x[j] \in D /\ Through(D, x[j], pi) <= CostOf(x)
<1> USE StabilisationAssumption
<1>1. x \in [1 .. Machines -> D] /\ x \in [1 .. Machines -> Col] /\ 1 \in 1 .. Machines
      /\ JobsIn(x) >= Jobs /\ CostOf(x) <= UB - 1
  BY DEF Solutions
<1> DEFINE V == {Reduced(s, pi) : s \in D}
           r == Min(V)
<1>2. r \in V /\ \A n \in V : r <= n
  <2>1. V \in SUBSET Int /\ IsFiniteSet(V)
    <3>1. pi \in Int
      OBVIOUS
    <3> QED BY <3>1, FiniteValues
  <2>2. x[1] \in D
    BY <1>1
  <2>3. V # {}
    BY <2>2
  <2> HIDE DEF V
  <2> QED BY <2>1, <2>3, MinIsLeast
<1>3. PICK t \in D : r = Reduced(t, pi)
  BY <1>2
<1>4. r \in Int /\ \A j \in 1 .. Machines : Reduced(x[j], pi) \in Int /\ Reduced(x[j], pi) >= r
  <2>1. r \in Int
    BY <1>3, ValueType
  <2> SUFFICES ASSUME NEW j \in 1 .. Machines
               PROVE  Reduced(x[j], pi) \in Int /\ Reduced(x[j], pi) >= r
    BY <2>1
  <2>2. x[j] \in D /\ x[j] \in Col
    BY <1>1
  <2>3. Reduced(x[j], pi) \in Int /\ Reduced(x[j], pi) \in V
    BY <2>2, ValueType
  <2> HIDE DEF r, V
  <2> QED BY <1>2, <2>1, <2>3
<1>5. CostOf(x) \in Nat /\ JobsIn(x) \in Int
  <2>1. \A i \in 1 .. Machines : Reduced(x[i], 0) = x[i].cost /\ x[i].cost \in Nat
    BY <1>1, ColumnType DEF Reduced
  <2>2. \A i \in 1 .. Machines : Reduced(x[i], 0) >= 0
    BY <2>1
  <2>3. /\ CostOf(x) \in Int /\ JobsIn(x) \in Int
        /\ CostOf(x) - 0 * JobsIn(x) >= (Machines - 1) * 0 + Reduced(x[1], 0)
    <3> DEFINE z == 0
    <3>1. z \in Int /\ \A i \in 1 .. Machines : Reduced(x[i], z) >= z
      BY <2>2
    <3>2. /\ CostOf(x) \in Int /\ JobsIn(x) \in Int
          /\ CostOf(x) - z * JobsIn(x) >= (Machines - 1) * z + Reduced(x[1], z)
      <4> HIDE DEF z
      <4> QED BY <1>1, <3>1, CostBound
    <3> QED BY <3>2
  <2> QED BY <1>1, <2>1, <2>3
<1>6. ASSUME NEW j \in 1 .. Machines PROVE Through(D, x[j], pi) <= CostOf(x)
  <2>1. CostOf(x) - pi * JobsIn(x) >= (Machines - 1) * r + Reduced(x[j], pi)
    <3> HIDE DEF r, V
    <3>1. pi \in Int
      OBVIOUS
    <3> QED BY <1>1, <1>4, <3>1, CostBound
  <2>2. Jobs * pi <= pi * JobsIn(x) /\ Jobs * pi \in Int /\ pi * JobsIn(x) \in Int
    <3>1. \A n \in Int : n >= Jobs => Jobs * pi <= pi * n /\ Jobs * pi \in Int /\ pi * n \in Int
      OBVIOUS
    <3> QED BY <1>1, <1>5, <3>1
  <2>3. (Machines - 1) * r \in Int
    <3> HIDE DEF r, V
    <3> QED BY <1>4
  <2>4. Through(D, x[j], pi) = Jobs * pi + (Machines - 1) * r + Reduced(x[j], pi)
    BY DEF Through
  <2> HIDE DEF r, V
  <2> QED BY <1>4, <1>5, <2>1, <2>2, <2>3, <2>4
<1>7. Lagrange(D, pi) <= CostOf(x)
  <2>1. Lagrange(D, pi) \in Int /\ Lagrange(D, pi) <= Line(t, pi)
    BY LagrangeIsLeast
  <2>2. Line(t, pi) = Jobs * pi + Machines * r
    BY <1>3 DEF Line
  <2>3. /\ Machines * r = (Machines - 1) * r + r
        /\ (Machines - 1) * r \in Int /\ Jobs * pi \in Int
    <3> HIDE DEF r, V
    <3> QED BY <1>4
  <2>4. Through(D, x[1], pi) = Jobs * pi + (Machines - 1) * r + Reduced(x[1], pi)
    BY DEF Through
  <2>5. 1 \in 1 .. Machines /\ Through(D, x[1], pi) <= CostOf(x) /\ Reduced(x[1], pi) >= r
    <3> HIDE DEF r, V
    <3> QED BY <1>1, <1>4, <1>6
  <2>6. r \in Int /\ Reduced(x[1], pi) \in Int
    <3> HIDE DEF r, V
    <3> QED BY <1>1, <1>4, <2>5
  <2> DEFINE a == Jobs * pi
             b == (Machines - 1) * r
             c == Machines * r
             v == Reduced(x[1], pi)
  <2>7. /\ a \in Int /\ b \in Int /\ c = b + r /\ v >= r
        /\ Line(t, pi) = a + c /\ Through(D, x[1], pi) = a + b + v
    <3> HIDE DEF r, V
    <3> QED BY <2>2, <2>3, <2>4, <2>5
  <2> HIDE DEF r, V, a, b, c, v
  <2> QED BY <1>5, <2>1, <2>5, <2>6, <2>7 DEF v
<1> QED BY <1>1, <1>5, <1>6, <1>7

\* The bound through a path is a number.
LEMMA ThroughType ==
  ASSUME NEW D \in SUBSET Col, NEW pi \in Nat, NEW s \in D
  PROVE  Through(D, s, pi) \in Int
<1> DEFINE V == {Reduced(t, pi) : t \in D}
<1>1. pi \in Int /\ Jobs \in Nat /\ Machines \in Nat
  BY StabilisationAssumption
<1>2. V \in SUBSET Int /\ IsFiniteSet(V) /\ V # {}
  BY <1>1, FiniteValues
<1>3. Min(V) \in Int
  <2> HIDE DEF V
  <2> QED BY <1>2, MinIsLeast
<1>4. Reduced(s, pi) \in Int
  BY <1>1, ValueType
<1>5. Through(D, s, pi) = Jobs * pi + (Machines - 1) * Min(V) + Reduced(s, pi)
  BY DEF Through
<1> HIDE DEF V
<1>6. Jobs * pi \in Int /\ (Machines - 1) * Min(V) \in Int
  BY <1>1, <1>3
<1> QED BY <1>4, <1>5, <1>6

\* No path, no solution.
LEMMA NothingInEmptyDiagram == Solutions({}) = {}
<1> SUFFICES ASSUME NEW x \in Solutions({}) PROVE FALSE
  OBVIOUS
<1>1. x \in [1 .. Machines -> {}] /\ 1 \in 1 .. Machines
  BY StabilisationAssumption DEF Solutions
<1> QED BY <1>1

\* Fixing takes no path of a solution that is better than the incumbent.
LEMMA FixedKeeps ==
  ASSUME NEW D \in SUBSET Col, NEW pi \in Nat, NEW E \in Fixed(D, pi), NEW x \in Solutions(D)
  PROVE  x \in Solutions(E)
<1>1. PICK S \in SUBSET {s \in D : Through(D, s, pi) > UB - 1} : E = D \ S
  BY DEF Fixed
<1>2. ASSUME NEW j \in 1 .. Machines PROVE x[j] \in E
  <2>1. x[j] \in D /\ Through(D, x[j], pi) <= CostOf(x) /\ CostOf(x) <= UB - 1
        /\ CostOf(x) \in Nat /\ UB \in Nat
    BY SolutionBound, StabilisationAssumption
  <2>2. Through(D, x[j], pi) \in Int
    BY <2>1, ThroughType
  <2> QED BY <1>1, <2>1, <2>2
<1>3. x \in [1 .. Machines -> E]
  <2>1. x \in [1 .. Machines -> D]
    BY DEF Solutions
  <2> QED BY <1>2, <2>1
<1> QED BY <1>3 DEF Solutions
------------------------------------------------------------------------------
(* The steps.                                                              *)

\* The smoothing factors are tenths.
LEMMA FactorType ==
  ASSUME TypeOK, NEW try \in Nat
  PROVE  Factor(try) \in 0 .. 10 /\ Factor(try) \in Nat
<1>1. \A a \in 0 .. 9 : try * (10 - a) \in Nat
  OBVIOUS
<1> QED BY <1>1 DEF TypeOK, Factor

LEMMA MixType ==
  ASSUME TypeOK, NEW ab \in 0 .. 10
  PROVE  Mix(ab) \in Nat
<1>1. ab * piIn \in Nat /\ (10 - ab) * piOut \in Nat
  <2>1. \A m, n \in Nat : m * n \in Nat
    OBVIOUS
  <2> QED BY <2>1 DEF TypeOK
<1>2. \A n \in Nat : n \div 10 \in Nat
  OBVIOUS
<1> QED BY <1>1, <1>2 DEF Mix

\* At the factor zero it is the master's dual itself.
LEMMA MixOfZero == ASSUME TypeOK PROVE Mix(0) = piOut
BY DEF TypeOK, Mix

LEMMA AdjustedType ==
  ASSUME NEW a \in 0 .. 10, NEW product \in Int
  PROVE  Adjusted(a, product) \subseteq 0 .. 9
<1>1. Max({a - 1, 0}) \in 0 .. 9
  <2>1. \E m \in {a - 1, 0} : \A n \in {a - 1, 0} : m >= n
    BY 0 >= 0
  <2>2. Max({a - 1, 0}) \in {a - 1, 0} /\ Max({a - 1, 0}) >= 0
    BY <2>1 DEF Max
  <2> QED BY <2>2
<1>2. ASSUME NEW n \in Nat PROVE Min({n, 9}) \in 0 .. 9
  <2>1. \E m \in {n, 9} : \A l \in {n, 9} : m <= l
    OBVIOUS
  <2>2. Min({n, 9}) \in {n, 9} /\ Min({n, 9}) <= 9
    BY <2>1 DEF Min
  <2> QED BY <2>2
<1>3. (9 * a + 10) \div 10 \in Nat /\ (9 * a + 19) \div 10 \in Nat
  OBVIOUS
<1> QED BY <1>1, <1>2, <1>3 DEF Adjusted

LEMMA HybridDualType == ASSUME TypeOK PROVE HybridDual \subseteq Nat
<1> DEFINE step == ((10 - alpha) * Distance) \div 10
<1>1. step \in Nat
  <2>1. Distance \in Nat
    BY DEF Distance, TypeOK
  <2>2. \A a \in 0 .. 9, n \in Nat : ((10 - a) * n) \in Nat
    OBVIOUS
  <2>3. \A n \in Nat : n \div 10 \in Nat
    OBVIOUS
  <2> QED BY <2>1, <2>2, <2>3 DEF TypeOK
<1>2. Mix(alpha) \in Nat /\ Mix(alphabar) \in Nat
  BY MixType DEF TypeOK
<1>3. piIn + step \in Nat /\ (IF piIn > step THEN piIn - step ELSE 0) \in Nat /\ piOut \in Nat
  <2> HIDE DEF step
  <2> QED BY <1>1 DEF TypeOK
<1> QED BY <1>2, <1>3 DEF HybridDual

LEMMA InitInv == Init => IInv
<1> SUFFICES ASSUME Init PROVE IInv
  OBVIOUS
<1>1. technique \in Kinds /\ dd \subseteq Col
  BY StabilisationAssumption DEF Init, Cloned, Kinds
<1>2. TypeOK
  <2>1. dd0 \subseteq Col /\ dd \subseteq dd0 /\ rmp \subseteq Col
    BY <1>1 DEF Init
  <2>2. hasCenter \in BOOLEAN /\ center \in BOOLEAN /\ misprice \in BOOLEAN /\ continueLP \in BOOLEAN
    BY DEF Init
  <2> QED BY <1>1, <2>1, <2>2 DEF Init, TypeOK
<1>3. BoundInv
  <2> SUFFICES ASSUME NEW x \in Wanted PROVE x \in Solutions(dd) /\ etaIn <= CostOf(x)
    BY DEF BoundInv
  <2>1. x \in Solutions(dd) /\ dd \in SUBSET Col /\ 0 \in Nat
    BY <1>1 DEF Wanted, Init
  <2>2. CostOf(x) \in Nat
    BY <2>1, SolutionBound
  <2> QED BY <2>1, <2>2 DEF Init
<1> QED BY <1>2, <1>3 DEF Init, IInv, MasterInv, VerdictInv, GivesUpOnlyAtOptimum

\* What a point priced at raises the bound to holds for the solutions still wanted,
\* and fixing there keeps them.
LEMMA PriceKeepsBound ==
  ASSUME IInv, NEW pi \in Nat, Recenter(pi, Lagrange(dd, pi)),
         dd' = dd \/ dd' \in Fixed(dd, pi), dd0' = dd0
  PROVE  /\ BoundInv' /\ etaIn' \in Nat /\ etaIn' >= etaIn
         /\ piIn' \in Nat /\ center' \in BOOLEAN /\ dd' \subseteq dd
<1>1. Wanted' = Wanted
  BY DEF Wanted
<1>2. dd \in SUBSET Col /\ pi \in Int
  BY DEF IInv, TypeOK
<1>3. Lagrange(dd, pi) \in Int /\ etaIn \in Nat
  BY <1>2, LagrangeIsLeast DEF IInv, TypeOK
<1>4. ASSUME NEW x \in Wanted PROVE x \in Solutions(dd') /\ etaIn' <= CostOf(x)
  <2>1. x \in Solutions(dd) /\ etaIn <= CostOf(x)
    BY DEF IInv, BoundInv
  <2>2. Lagrange(dd, pi) <= CostOf(x)
    BY <1>2, <2>1, SolutionBound
  <2>3. x \in Solutions(dd')
    BY <1>2, <2>1, FixedKeeps
  <2> QED BY <2>1, <2>2, <2>3 DEF Recenter
<1>5. BoundInv'
  BY <1>1, <1>4 DEF BoundInv
<1>6. dd' \subseteq dd
  BY DEF Fixed
<1> QED BY <1>3, <1>5, <1>6 DEF Recenter, IInv, TypeOK

\* A path that is best at the master's duals and does not improve the master: none does.
LEMMA BestAtMaster ==
  ASSUME IInv, NEW s \in Best(dd, piOut), ~Improves(s)
  PROVE  \A t \in dd : ~Improves(t)
<1> SUFFICES ASSUME NEW t \in dd PROVE ~Improves(t)
  OBVIOUS
<1>1. s \in Col /\ t \in Col /\ piOut \in Int /\ etaOut \in Int
  BY DEF IInv, TypeOK, Best
<1>2. Line(s, piOut) \in Int /\ Line(t, piOut) \in Int
  BY <1>1, ValueType
<1> QED BY <1>1, <1>2 DEF Best, Improves

LEMMA BaseTurnInv == ASSUME IInv, BaseTurn PROVE IInv'
<1>1. piOut \in Nat
  BY DEF IInv, TypeOK
<1>2. PICK s \in Best(dd, piOut) : priced' = {x \in {s} : Improves(x)}
  BY DEF BaseTurn
<1>3. /\ BoundInv' /\ etaIn' \in Nat /\ piIn' \in Nat /\ center' \in BOOLEAN
  BY <1>1, PriceKeepsBound DEF BaseTurn
<1>4. s \in Col
  BY DEF IInv, TypeOK, Best
<1>5. TypeOK'
  BY <1>2, <1>3, <1>4 DEF BaseTurn, IInv, TypeOK
<1>6. GivesUpOnlyAtOptimum'
  <2>1. ASSUME priced' = {} PROVE \A t \in dd : ~Improves(t)
    BY <1>2, <2>1, BestAtMaster
  <2> QED BY <2>1 DEF BaseTurn, GivesUpOnlyAtOptimum, Improves
<1>7. MasterInv' /\ VerdictInv'
  BY DEF BaseTurn, IInv, MasterInv, VerdictInv
<1> QED BY <1>3, <1>5, <1>6, <1>7 DEF IInv

LEMMA SmoothedTurnInv == ASSUME IInv, SmoothedTurn PROVE IInv'
<1> DEFINE ab == IF hasCenter THEN Factor(k') ELSE 0
           pi == Mix(ab)
           e  == Lagrange(dd, pi)
<1>1. k' \in Nat
  BY DEF IInv, TypeOK, SmoothedTurn
<1>2. ab \in 0 .. 10 /\ pi \in Nat
  <2>1. ab \in 0 .. 10
    BY <1>1, FactorType DEF IInv
  <2> QED BY <2>1, MixType DEF IInv
<1>3. PICK s \in Best(dd, pi) :
        IF Improves(s) THEN priced' = {s} /\ Adapt(s, ab)
        ELSE UNCHANGED <<priced, alpha>> /\ alphabar' = ab
  BY DEF SmoothedTurn
<1>4. s \in Col /\ priced' \subseteq Col /\ alpha' \in 0 .. 9 /\ alphabar' \in 0 .. 10
  <2>1. s \in Col
    BY <1>3 DEF IInv, TypeOK, Best
  <2>2. Slope(s) * (piOut - piIn) \in Int
    <3>1. Slope(s) \in Int
      BY <2>1, ValueType, 0 \in Int
    <3> QED BY <3>1 DEF IInv, TypeOK
  <2>3. Adjusted(ab, Slope(s) * (piOut - piIn)) \subseteq 0 .. 9
    <3> HIDE DEF ab
    <3> QED BY <1>2, <2>2, AdjustedType
  <2> HIDE DEF ab, pi
  <2>4. CASE Improves(s)
    <3>1. alpha' \in 0 .. 9 /\ alphabar' \in 0 .. 10
      BY <1>2, <1>3, <2>3, <2>4 DEF Adapt, IInv, TypeOK
    <3> QED BY <1>3, <2>1, <2>4, <3>1
  <2>5. CASE ~Improves(s)
    BY <1>2, <1>3, <2>1, <2>5 DEF IInv, TypeOK
  <2> QED BY <2>4, <2>5
<1>5. CASE TriesAgain(ab)
  <2>1. pc' = "turn" /\ UNCHANGED <<dd, piIn, etaIn, hasCenter, center, continueLP>>
    BY <1>5 DEF SmoothedTurn
  <2> HIDE DEF ab, pi, e
  <2>2. TypeOK'
    <3>1. piSep' \in Nat
      BY <1>2 DEF SmoothedTurn, ab, pi
    <3> QED BY <1>1, <1>4, <2>1, <3>1 DEF SmoothedTurn, IInv, TypeOK
  <2>3. BoundInv'
    BY <2>1 DEF SmoothedTurn, IInv, BoundInv, Wanted
  <2> QED BY <2>1, <2>2, <2>3
       DEF SmoothedTurn, IInv, MasterInv, VerdictInv, GivesUpOnlyAtOptimum
<1>6. CASE ~TriesAgain(ab)
  <2>1. /\ pc' = "fix"
        /\ Recenter(pi, e)
        /\ hasCenter' = (hasCenter \/ e > etaIn)
        /\ continueLP' = IF technique = "static" THEN etaIn < etaOut ELSE continueLP
        /\ dd' = dd \/ dd' \in Fixed(dd, pi)
    BY <1>6 DEF SmoothedTurn
  <2>2. /\ piSep' = pi /\ dd0' = dd0
    BY DEF SmoothedTurn
  <2> HIDE DEF ab, pi
  <2>3. BoundInv' /\ etaIn' \in Nat /\ piIn' \in Nat /\ center' \in BOOLEAN /\ dd' \subseteq dd
    BY <1>2, <2>1, <2>2, PriceKeepsBound
  <2>4. TypeOK'
    <3>1. hasCenter' \in BOOLEAN /\ continueLP' \in BOOLEAN
      <4> HIDE DEF e
      <4>1. (hasCenter \/ e > etaIn) \in BOOLEAN /\ (etaIn < etaOut) \in BOOLEAN
        OBVIOUS
      <4>2. continueLP \in BOOLEAN
        BY DEF IInv, TypeOK
      <4> QED BY <2>1, <4>1, <4>2
    <3> QED BY <1>1, <1>2, <1>4, <2>1, <2>2, <2>3, <3>1 DEF SmoothedTurn, IInv, TypeOK
  <2>5. GivesUpOnlyAtOptimum'
    <3> SUFFICES ASSUME priced' = {} PROVE \A t \in dd : ~Improves(t)
      BY <2>3 DEF SmoothedTurn, GivesUpOnlyAtOptimum, Improves
    <3>1. ab = 0
      BY <1>2, <1>6 DEF TriesAgain
    <3>2. pi = piOut
      BY <3>1, MixOfZero DEF IInv, pi
    <3> QED BY <1>3, <3>2, BestAtMaster
  <2> QED BY <2>1, <2>3, <2>4, <2>5 DEF SmoothedTurn, IInv, MasterInv, VerdictInv
<1> QED BY <1>5, <1>6

LEMMA HybridTurnInv == ASSUME IInv, HybridTurn PROVE IInv'
<1>1. PICK pi \in HybridDual : \E s \in Best(dd, pi) \cup {t \in Col : dd = {}} : HybridPrice(pi, s)
  BY DEF HybridTurn
<1>2. PICK s \in Best(dd, pi) \cup {t \in Col : dd = {}} : HybridPrice(pi, s)
  BY <1>1
<1> DEFINE e          == Lagrange(dd, pi)
           found      == dd # {} /\ Improves(s)
           stabilized == IF misprice THEN alphabar > 0 ELSE alpha > 0
<1>3. pi \in Nat /\ s \in Col
  BY HybridDualType DEF IInv, TypeOK, Best
<1>4. /\ pc = "turn" /\ technique = "hybrid"
      /\ UNCHANGED <<node, rmp, piOut, etaOut, continueLP, iterations, prevFix>>
  BY DEF HybridTurn
<1> HIDE DEF e, found, stabilized
<1>5. Recenter(pi, e) /\ (dd' = dd \/ dd' \in Fixed(dd, pi)) /\ dd0' = dd0
  BY <1>2, <1>4 DEF HybridPrice, e
<1>6. BoundInv' /\ etaIn' \in Nat /\ piIn' \in Nat /\ center' \in BOOLEAN /\ dd' \subseteq dd
  BY <1>3, <1>5, PriceKeepsBound DEF e
<1>7. subgradient' \in Int
  <2>1. Slope(s) \in Int
    BY <1>3, ValueType, 0 \in Int
  <2> QED BY <1>2, <2>1 DEF HybridPrice, IInv, TypeOK
<1>8. alpha' \in 0 .. 9
  <2>1. (piOut - piIn') * subgradient' \in Int
    BY <1>6, <1>7 DEF IInv, TypeOK
  <2>2. alpha \in 0 .. 10
    BY DEF IInv, TypeOK
  <2>3. Adjusted(alpha, (piOut - piIn') * subgradient') \subseteq 0 .. 9
    BY <2>1, <2>2, AdjustedType
  <2>4. alpha' \in Adjusted(alpha, (piOut - piIn') * subgradient') \/ alpha' = alpha
    BY <1>2 DEF HybridPrice
  <2> QED BY <2>3, <2>4 DEF IInv, TypeOK
<1>9. k' \in Nat /\ alphabar' \in 0 .. 10
  <2>1. (k' = k + 1 /\ alphabar' = Factor(k')) \/ UNCHANGED <<k, alphabar>>
    BY <1>2 DEF HybridPrice
  <2>2. k' \in Nat
    BY <2>1 DEF IInv, TypeOK
  <2> QED BY <2>1, <2>2, FactorType DEF IInv, TypeOK
<1>10. priced' \subseteq Col /\ hasCenter' \in BOOLEAN /\ misprice' \in BOOLEAN
  <2>1. priced' = {s} \/ priced' = {}
    BY <1>2 DEF HybridPrice
  <2>2. (hasCenter \/ e > etaIn) \in BOOLEAN /\ (~found /\ stabilized) \in BOOLEAN
    OBVIOUS
  <2>3. hasCenter' = (hasCenter \/ e > etaIn) /\ misprice' = (~found /\ stabilized)
    BY <1>2 DEF HybridPrice, found, stabilized, e
  <2> QED BY <1>3, <2>1, <2>2, <2>3
<1>11. piSep' = pi /\ (pc' = "turn" \/ pc' = "fix")
  BY <1>2 DEF HybridPrice
<1>12. TypeOK'
  BY <1>3, <1>4, <1>6, <1>7, <1>8, <1>9, <1>10, <1>11 DEF IInv, TypeOK
<1>13. GivesUpOnlyAtOptimum'
  <2> SUFFICES ASSUME pc' = "fix", priced' = {} PROVE \A t \in dd : ~Improves(t)
    BY <1>4, <1>6 DEF GivesUpOnlyAtOptimum, Improves
  <2>1. ~found /\ ~stabilized
    <3>1. ~found
      BY <1>2 DEF HybridPrice, found
    <3>2. ~misprice'
      BY <1>2 DEF HybridPrice
    <3>3. misprice' = (~found /\ stabilized)
      BY <1>2 DEF HybridPrice, found, stabilized, e
    <3> QED BY <3>1, <3>2, <3>3
  <2>2. pi = piOut
    <3>1. misprice => alphabar = 0
      BY <2>1 DEF stabilized, IInv, TypeOK
    <3>2. ~misprice => alpha = 0
      BY <2>1 DEF stabilized, IInv, TypeOK
    <3>3. Mix(0) = piOut
      BY MixOfZero DEF IInv
    <3> QED BY <3>1, <3>2, <3>3 DEF HybridDual
  <2>3. CASE dd = {}
    BY <2>3
  <2>4. CASE dd # {}
    <3>1. s \in Best(dd, piOut) /\ ~Improves(s)
      BY <2>1, <2>2, <2>4 DEF found
    <3> QED BY <3>1, BestAtMaster
  <2> QED BY <2>3, <2>4
<1>14. MasterInv' /\ VerdictInv'
  BY <1>4, <1>11 DEF IInv, MasterInv, VerdictInv
<1> QED BY <1>6, <1>12, <1>13, <1>14 DEF IInv

\* The master is solved to its optimum.
LEMMA Resolved ==
  ASSUME NEW R \in SUBSET Col, NEW pi \in Duals(R)
  PROVE  /\ pi \in Nat /\ MasterAt(R, pi) \in Int
         /\ \A q \in Dual : MasterAt(R, q) <= MasterAt(R, pi)
<1>1. pi \in Dual /\ \A q \in Dual : MasterAt(R, q) <= MasterAt(R, pi)
  BY DEF Duals
<1>2. pi \in Nat
  BY <1>1, StabilisationAssumption DEF Dual
<1> QED BY <1>1, <1>2, LagrangeIsLeast, MasterIsLagrange

LEMMA MasterStepInv == ASSUME IInv, Master PROVE IInv'
<1>1. /\ pc = "master" /\ pc' = "turn" /\ piOut' \in Duals(rmp) /\ etaOut' = MasterAt(rmp, piOut')
      /\ iterations' = iterations + 1 /\ priced' = {} /\ (k' = 0 \/ k' = k)
      /\ center' = (technique = "hybrid" /\ center)
      /\ UNCHANGED <<node, dd, rmp, piIn, piSep, etaIn, alpha, alphabar, hasCenter, misprice,
                     subgradient, continueLP, prevFix>>
  BY DEF Master
<1>2. rmp \in SUBSET Col
  BY DEF IInv, TypeOK
<1>3. /\ piOut' \in Nat /\ etaOut' \in Int
      /\ \A q \in Dual : MasterAt(rmp, q) <= etaOut'
  BY <1>1, <1>2, Resolved
<1>4. center' \in BOOLEAN
  <2>1. (technique = "hybrid" /\ center) \in BOOLEAN
    OBVIOUS
  <2> QED BY <1>1, <2>1
<1>5. TypeOK'
  BY <1>1, <1>3, <1>4 DEF IInv, TypeOK
<1>6. BoundInv'
  BY <1>1 DEF IInv, BoundInv, Wanted
<1>7. MasterInv' /\ VerdictInv' /\ GivesUpOnlyAtOptimum'
  BY <1>1, <1>3 DEF IInv, TypeOK, MasterInv, VerdictInv, GivesUpOnlyAtOptimum
<1> QED BY <1>5, <1>6, <1>7 DEF IInv

LEMMA FixInv ==
  ASSUME IInv, Fix, \/ pc = "fix" /\ pc' = "column"
                    \/ pc = "column" /\ pc' = "master"
  PROVE  IInv'
<1>1. /\ prevFix' = iterations /\ dd' \in Fixed(dd, piSep) /\ rmp' = rmp \cap dd'
      /\ piOut' \in Duals(rmp') /\ etaOut' = MasterAt(rmp', piOut')
      /\ continueLP' = (etaIn < etaOut')
      /\ UNCHANGED <<node, piIn, piSep, etaIn, smooth, center, iterations, priced>>
  BY DEF Fix
<1>2. rmp' \in SUBSET Col /\ dd \in SUBSET Col /\ piSep \in Nat
  BY <1>1 DEF IInv, TypeOK
<1>3. /\ piOut' \in Nat /\ etaOut' \in Int
      /\ \A q \in Dual : MasterAt(rmp', q) <= etaOut'
  BY <1>1, <1>2, Resolved
<1>4. dd' \subseteq dd
  BY <1>1 DEF Fixed
<1>5. continueLP' \in BOOLEAN
  <2>1. (etaIn < etaOut') \in BOOLEAN
    OBVIOUS
  <2> QED BY <1>1, <2>1
<1>6. TypeOK'
  BY <1>1, <1>2, <1>3, <1>4, <1>5 DEF IInv, TypeOK
<1>7. BoundInv'
  <2> SUFFICES ASSUME NEW x \in Wanted PROVE x \in Solutions(dd') /\ etaIn' <= CostOf(x)
    BY <1>1 DEF BoundInv, Wanted
  <2>1. x \in Solutions(dd) /\ etaIn <= CostOf(x)
    BY DEF IInv, BoundInv
  <2> QED BY <1>1, <1>2, <2>1, FixedKeeps
<1>8. MasterInv' /\ VerdictInv' /\ GivesUpOnlyAtOptimum'
  BY <1>1, <1>3 DEF IInv, MasterInv, VerdictInv, GivesUpOnlyAtOptimum
<1> QED BY <1>6, <1>7, <1>8 DEF IInv

LEMMA AddColumnInv == ASSUME IInv, AddColumn PROVE IInv'
<1>1. TypeOK' /\ BoundInv'
  BY DEF AddColumn, IInv, TypeOK, BoundInv, Wanted
<1>2. MasterInv'
  <2> SUFFICES ASSUME iterations > 0, NEW q \in Dual PROVE MasterAt(rmp', q) <= etaOut
    BY DEF AddColumn, MasterInv
  <2>1. rmp' \in SUBSET Col /\ rmp \in SUBSET Col /\ rmp \in SUBSET rmp' /\ q \in Int
    BY <1>1, StabilisationAssumption DEF AddColumn, TypeOK, IInv, Dual
  <2>2. MasterAt(rmp', q) <= MasterAt(rmp, q)
    BY <2>1, MasterFalls
  <2>3. MasterAt(rmp, q) <= etaOut
    BY DEF IInv, MasterInv
  <2>4. MasterAt(rmp', q) \in Int /\ MasterAt(rmp, q) \in Int /\ etaOut \in Int
    BY <2>1, LagrangeIsLeast, MasterIsLagrange DEF IInv, TypeOK
  <2> QED BY <2>2, <2>3, <2>4
<1>3. VerdictInv' /\ GivesUpOnlyAtOptimum'
  BY DEF AddColumn, IInv, VerdictInv, GivesUpOnlyAtOptimum
<1> QED BY <1>1, <1>2, <1>3 DEF IInv

LEMMA FinishInv == ASSUME IInv, Finish PROVE IInv'
<1>1. /\ pc = "master" /\ pc' = "done" /\ piOut' \in Duals(rmp)
      /\ \/ verdict' = "LP_bound_computed" /\ value' = MasterAt(rmp, piOut')
         \/ verdict' = "infeasible" /\ value' = UB
      /\ UNCHANGED <<technique, dd0, dd, rmp, piIn, piSep, eta, smooth, flags>>
  BY DEF Finish
<1>2. piOut' \in Nat /\ value' \in Int
  <2>1. rmp \in SUBSET Col
    BY DEF IInv, TypeOK
  <2>2. piOut' \in Nat /\ MasterAt(rmp, piOut') \in Int
    BY <1>1, <2>1, Resolved
  <2> QED BY <1>1, <2>2, StabilisationAssumption
<1>3. TypeOK'
  BY <1>1, <1>2 DEF IInv, TypeOK
<1>4. BoundInv' /\ MasterInv'
  BY <1>1 DEF IInv, BoundInv, MasterInv, Wanted
<1>5. VerdictInv' /\ GivesUpOnlyAtOptimum'
  BY <1>1 DEF IInv, VerdictInv, GivesUpOnlyAtOptimum
<1> QED BY <1>3, <1>4, <1>5 DEF IInv

LEMMA NextInv == IInv /\ [Next]_vars => IInv'
<1> SUFFICES ASSUME IInv, [Next]_vars PROVE IInv'
  OBVIOUS
<1>1. CASE FixAtCenter \/ FixAndClean
  <2>1. CASE FixAtCenter
    <3>1. pc = "fix" /\ pc' = "column" /\ Fix
      BY <2>1 DEF FixAtCenter
    <3> QED BY <3>1, FixInv
  <2>2. CASE FixAndClean
    BY <2>2, FixInv, Zenon DEF FixAndClean
  <2> QED BY <1>1, <2>1, <2>2
<1>2. CASE NoFixAtCenter
  BY <1>2 DEF NoFixAtCenter, IInv, TypeOK, BoundInv, MasterInv, VerdictInv, GivesUpOnlyAtOptimum, Wanted
<1>3. CASE UNCHANGED vars
  BY <1>3 DEF IInv, TypeOK, BoundInv, MasterInv, VerdictInv, GivesUpOnlyAtOptimum, Wanted, Improves
<1> QED BY <1>1, <1>2, <1>3, MasterStepInv, BaseTurnInv, SmoothedTurnInv, HybridTurnInv,
           AddColumnInv, FinishInv DEF Next, Done

\* What each turn of the loop keeps, on which the theorems below rest.
THEOREM Invariance == Spec => []IInv
BY InitInv, NextInv, PTL DEF Spec

\* Every variable keeps its type, the smoothing factors theirs of a tenth to nine.
THEOREM TypeCorrect == Spec => []TypeOK
<1>1. IInv => TypeOK
  BY DEF IInv
<1> QED BY Invariance, <1>1, PTL

\* evaluate_nodes takes no schedule better than the incumbent out of the diagram,
\* at whatever point, and however far from the master's duals, it is called.
THEOREM FixingIsSafe == Spec => []FixingKeepsWanted
<1>1. IInv => FixingKeepsWanted
  BY DEF IInv, BoundInv, FixingKeepsWanted
<1> QED BY Invariance, <1>1, PTL

\* The mispricing loops of solve end without a column only when no path has negative
\* reduced cost at the master's own duals.
THEOREM GivingUpIsRight == Spec => []GivesUpOnlyAtOptimum
<1>1. IInv => GivesUpOnlyAtOptimum
  BY DEF IInv
<1> QED BY Invariance, <1>1, PTL

\* A node with any technique keeps the promise of NodeBound: its bound rises and holds,
\* its value is within the tolerance of a bound, and it prunes only what is empty.
THEOREM Refinement == Spec => ImplementsNodeBound
<1> USE DEF Bound!vars
<1>1. Init => Bound!Init
  <2> SUFFICES ASSUME Init PROVE Bound!Init
    OBVIOUS
  <2>1. \A x \in Wanted : CostOf(x) \in Nat
    <3>1. dd \in SUBSET Col /\ Wanted = Solutions(dd) /\ 0 \in Nat
      BY StabilisationAssumption DEF Init, Wanted
    <3> QED BY <3>1, SolutionBound
  <2> QED BY <2>1 DEF Init, Bound!Init
<1>2. IInv /\ IInv' /\ [Next]_vars => [Bound!Next]_(Bound!vars)
  <2> SUFFICES ASSUME IInv, IInv', [Next]_vars PROVE [Bound!Next]_(Bound!vars)
    OBVIOUS
  <2>1. CASE Master \/ FixAtCenter \/ NoFixAtCenter \/ AddColumn \/ FixAndClean
    <3>1. Wanted' = Wanted /\ etaIn' = etaIn /\ verdict' = verdict /\ value' = value
      BY <2>1 DEF Master, FixAtCenter, NoFixAtCenter, AddColumn, FixAndClean, Fix, Wanted
    <3>2. verdict = "initialized"
      BY <2>1 DEF Master, FixAtCenter, NoFixAtCenter, AddColumn, FixAndClean, IInv, VerdictInv
    <3> QED BY <3>1, <3>2
  <2>2. CASE BaseTurn \/ SmoothedTurn \/ HybridTurn
    <3>1. Wanted' = Wanted /\ verdict' = verdict /\ value' = value
      BY <2>2 DEF BaseTurn, SmoothedTurn, HybridTurn, Wanted
    <3>2. verdict = "initialized"
      BY <2>2 DEF BaseTurn, SmoothedTurn, HybridTurn, IInv, VerdictInv
    <3>3. \A x \in Wanted : etaIn' <= CostOf(x)
      BY <3>1 DEF IInv, BoundInv
    <3>4. etaIn' >= etaIn
      <4>1. \A pi, e : Recenter(pi, e) => (etaIn' = e /\ e > etaIn) \/ etaIn' = etaIn
        BY DEF Recenter
      <4>2. etaIn' = etaIn \/ etaIn' > etaIn
        BY <2>2, <4>1 DEF BaseTurn, SmoothedTurn, HybridTurn, HybridPrice
      <4> QED BY <4>2 DEF IInv, TypeOK
    <3> QED BY <3>1, <3>2, <3>3, <3>4 DEF Bound!Next, Bound!Raise
  <2>3. CASE Finish
    <3>1. /\ pc = "master" /\ pc' = "done" /\ piOut' \in Duals(rmp) /\ verdict = "initialized"
          /\ dd0' = dd0 /\ etaIn' = etaIn /\ iterations' = iterations /\ iterations \in Nat
          /\ Wanted' = Wanted
      BY <2>3 DEF Finish, IInv, TypeOK, VerdictInv, Wanted
    <3>2. CASE iterations >= MaxIter
      BY <2>3, <3>1, <3>2 DEF Finish, Bound!Next, Bound!GiveUp
    <3>3. CASE ~(iterations >= MaxIter)
      <4>1. dd = {} => Wanted = {}
        BY NothingInEmptyDiagram DEF IInv, BoundInv
      <4>2. ASSUME NEW x \in Wanted
            PROVE  /\ CostOf(x) \in Nat /\ CostOf(x) <= UB - 1 /\ etaIn <= CostOf(x)
                   /\ dd # {} /\ etaOut <= etaIn /\ iterations > 0
        <5>1. x \in Solutions(dd) /\ etaIn <= CostOf(x) /\ dd # {}
          BY <4>1 DEF IInv, BoundInv
        <5>2. CostOf(x) \in Nat /\ CostOf(x) <= UB - 1
          <6>1. dd \in SUBSET Col /\ 0 \in Nat
            BY DEF IInv, TypeOK
          <6> QED BY <5>1, <6>1, SolutionBound
        <5>3. iterations > 0 /\ ~(etaIn < etaOut /\ etaIn <= UB - 1)
          BY <2>3, <3>3, <5>1, <3>1, StabilisationAssumption DEF Finish, InLoop
        <5> QED BY <5>1, <5>2, <5>3, StabilisationAssumption DEF IInv, TypeOK
      <4>3. ASSUME NEW x \in Wanted PROVE \A q \in Dual : MasterAt(rmp, q) <= CostOf(x)
        <5> SUFFICES ASSUME NEW q \in Dual PROVE MasterAt(rmp, q) <= CostOf(x)
          OBVIOUS
        <5>1. MasterAt(rmp, q) <= etaOut
          BY <4>2 DEF IInv, MasterInv
        <5>2. MasterAt(rmp, q) \in Int
          <6>1. rmp \in SUBSET Col /\ q \in Int
            BY StabilisationAssumption DEF IInv, TypeOK, Dual
          <6> QED BY <6>1, LagrangeIsLeast, MasterIsLagrange
        <5> QED BY <4>2, <5>1, <5>2 DEF IInv, TypeOK
      <4>4. CASE rmp # {} /\ dd # {}
        <5>1. verdict' = "LP_bound_computed" /\ value' = MasterAt(rmp, piOut')
          BY <2>3, <4>4 DEF Finish
        <5>2. piOut' \in Dual
          BY <3>1 DEF Duals
        <5>3. value' \in Int
          BY DEF IInv, TypeOK
        <5>4. \A x \in Wanted : value' < CostOf(x) + 1
          BY <4>2, <4>3, <5>1, <5>2, <5>3
        <5> QED BY <3>1, <3>3, <5>1, <5>4 DEF Bound!Next, Bound!Compute
      <4>5. CASE ~(rmp # {} /\ dd # {})
        <5>1. verdict' = "infeasible"
          BY <2>3, <4>5 DEF Finish
        <5>2. Wanted = {}
          <6> SUFFICES ASSUME NEW x \in Wanted PROVE FALSE
            OBVIOUS
          <6>1. rmp = {} /\ MaxDual \in Dual
            BY <4>2, <4>5, StabilisationAssumption DEF Dual
          <6>2. MasterAt({}, MaxDual) <= CostOf(x)
            BY <4>3, <6>1
          <6>3. MasterAt({}, MaxDual) = Jobs * MaxDual
            <7>1. {} \in SUBSET Col /\ MaxDual \in Int
              BY StabilisationAssumption
            <7> QED BY <7>1, LagrangeIsLeast, MasterIsLagrange
          <6>4. Jobs * MaxDual >= MaxDual
            <7>1. \A m, n \in Nat : m # 0 => m * n >= n
              OBVIOUS
            <7> QED BY <7>1, StabilisationAssumption
          <6>5. Jobs * MaxDual \in Nat
            BY StabilisationAssumption
          <6> QED BY <4>2, <6>2, <6>3, <6>4, <6>5, StabilisationAssumption
        <5> QED BY <3>1, <3>3, <5>1, <5>2 DEF Bound!Next, Bound!Prune
      <4> QED BY <4>4, <4>5
    <3> QED BY <3>2, <3>3
  <2>4. CASE UNCHANGED vars
    <3>1. Wanted' = Wanted /\ etaIn' = etaIn /\ verdict' = verdict /\ value' = value
          /\ iterations' = iterations
      BY <2>4 DEF Wanted
    <3> QED BY <3>1
  <2> QED BY <2>1, <2>2, <2>3, <2>4 DEF Next, Done
<1> QED BY <1>1, <1>2, Invariance, PTL DEF Spec, ImplementsNodeBound, Bound!Spec
------------------------------------------------------------------------------
(* The loop ends.  What is left to do shrinks in every turn but the first,  *)
(* for which continueLP has no value yet, and the last: paths leave the     *)
(* diagram for good, and each joins the master once.  A path that is fixed  *)
(* away in the turn that priced it still joins, and leaves with the next.   *)

Work == WorkOf(Col, dd, rmp)

Limit == WorkLimit(Col)

\* Neither test of the loop on eta_in holds any more.
Stops == iterations > 0 /\ (etaIn >= etaOut \/ etaIn > UB - 1)

\* What the turn leaves to solve_pricing: a path to add, or the end of the loop.
PricedInv == /\ priced \subseteq dd \ rmp
             /\ priced = {} => etaIn >= etaOut
             /\ ~continueLP => etaIn >= etaOut \/ iterations = 1

\* What is left to do when a turn has priced, and the path, if any, is not yet added.
PricedWork ==
  \/ iterations + Work <= Limit - 1
  \/ iterations + Work <= Limit /\ priced \subseteq dd
  \/ iterations + Work <= Limit + 1 /\ PricedInv

WorkInv ==
  /\ pc = "master" => \/ iterations + Work <= Limit
                      \/ iterations + Work <= Limit + 1 /\ Stops
  /\ pc = "turn" => iterations + Work <= Limit + 1
  /\ pc \in {"fix", "column"} => PricedWork
  /\ pc = "done" => iterations <= Limit + 1

\* eta_out is the master's value at its duals, and continueLP, which some techniques
\* leave alone, is as the tests of the loop found it.
LoopInv ==
  /\ pc = "turn" => etaOut = MasterAt(rmp, piOut) /\ priced = {}
  /\ priced = {} \/ \E s \in Col : priced = {s}
  /\ technique \in {"dynamic", "hybrid"} =>
       /\ pc = "master" /\ iterations > 0 => continueLP \/ etaIn >= etaOut
       /\ pc = "turn" /\ iterations > 1 => continueLP

TerminationInv == IInv /\ LoopInv /\ WorkInv

\* The work left, over the columns of this node.
LEMMA WorkLeft ==
  ASSUME NEW D \in SUBSET Col, NEW R \in SUBSET Col
  PROVE  /\ WorkOf(Col, D, R) \in Nat /\ WorkOf(Col, D, R) <= Limit - 1
         /\ Limit \in Nat /\ Cardinality(Col) \in Nat
BY WorkType, StabilisationAssumption DEF Limit

\* The first turn begins with no more work than there ever is.
LEMMA InitTermination == Init => TerminationInv
<1> SUFFICES ASSUME Init PROVE LoopInv /\ WorkInv
  BY InitInv DEF TerminationInv
<1>1. dd \in SUBSET Col /\ rmp \in SUBSET Col
  BY InitInv DEF IInv, TypeOK
<1>2. Work \in Nat /\ Work <= Limit - 1 /\ Limit \in Nat
  BY <1>1, WorkLeft DEF Work
<1> QED BY <1>2 DEF Init, LoopInv, WorkInv

\* Work done makes room for iterations.
LEMMA Budget ==
  \A i, w, v, l, c \in Int : v <= w - c /\ i + w <= l => i + v <= l - c
OBVIOUS

\* What each turn leaves to be done, if it kept the diagram and is about to end.
LEMMA TurnWork ==
  ASSUME TerminationInv, IInv', pc = "turn", dd' \subseteq dd, rmp' = rmp,
         iterations' = iterations,
         pc' = "turn" \/ (pc' = "fix" /\ (dd' = dd => PricedInv'))
  PROVE  WorkInv'
<1>1. /\ dd \in SUBSET Col /\ dd' \in SUBSET dd /\ rmp \in SUBSET Col
      /\ iterations' \in Nat /\ iterations' + Work <= Limit + 1
  BY DEF TerminationInv, IInv, TypeOK, WorkInv
<1>2. dd' \in SUBSET Col /\ rmp' \in SUBSET Col
  BY <1>1
<1>3. Work \in Nat /\ Work' \in Nat /\ Limit \in Nat
  BY <1>1, <1>2, WorkLeft DEF Work
<1>4. dd' # dd => Work' <= Work - 2
  BY <1>1, <1>2, WorkFallsWithDiagram, StabilisationAssumption DEF Work
<1>5. dd' = dd => Work' = Work
  BY DEF Work
<1>6. Limit' = Limit
  BY DEF Limit
<1>7. PricedWork' \/ pc' = "turn"
  <2>1. CASE pc' = "turn"
    BY <2>1
  <2>2. CASE pc' = "fix" /\ dd' # dd
    <3>1. iterations' + Work' <= (Limit + 1) - 2
      <4>1. Work' <= Work - 2 /\ iterations' \in Int /\ iterations' + Work <= Limit + 1
        BY <1>1, <1>4, <2>2
      <4>2. Work \in Int /\ Work' \in Int /\ Limit + 1 \in Int
        BY <1>3
      <4> QED BY <4>1, <4>2, Budget
    <3>2. (Limit + 1) - 2 = Limit - 1
      BY <1>3
    <3>3. iterations' + Work' <= Limit - 1
      BY <3>1, <3>2
    <3> QED BY <1>6, <3>3 DEF PricedWork
  <2>3. CASE pc' = "fix" /\ dd' = dd
    <3>1. iterations' + Work' <= Limit + 1
      BY <1>1, <1>5, <2>3
    <3> QED BY <1>6, <2>3, <3>1 DEF PricedWork
  <2> QED BY <2>1, <2>2, <2>3
<1>8. iterations' + Work' <= Limit + 1
  <2>1. Work' <= Work
    BY <1>3, <1>4, <1>5
  <2>2. \A i, w, v, l \in Int : v <= w /\ i + w <= l => i + v <= l
    OBVIOUS
  <2>3. Work \in Int /\ Work' \in Int /\ iterations' \in Int /\ Limit + 1 \in Int
    BY <1>1, <1>3
  <2> QED BY <1>1, <2>1, <2>2, <2>3
<1> QED BY <1>6, <1>7, <1>8 DEF WorkInv

\* A path that improves the master is not among its columns.
LEMMA ImprovingIsNew ==
  ASSUME IInv, LoopInv, pc = "turn", NEW s \in Col, Improves(s)
  PROVE  s \notin rmp
<1>1. rmp \in SUBSET Col /\ piOut \in Int /\ etaOut = MasterAt(rmp, piOut)
  BY DEF IInv, TypeOK, LoopInv
<1>2. Line(s, piOut) \in Int /\ Lagrange(rmp, piOut) \in Int
  BY <1>1, ValueType, LagrangeIsLeast
<1>3. s \in rmp => Lagrange(rmp, piOut) <= Line(s, piOut)
  BY <1>1, LagrangeIsLeast
<1> QED BY <1>1, <1>2, <1>3, MasterIsLagrange DEF Improves

\* If no path improves the master, the Lagrangian bound at its duals is its value.
LEMMA NoneImproves ==
  ASSUME IInv, LoopInv, pc = "turn", \A t \in dd : ~Improves(t)
  PROVE  Lagrange(dd, piOut) >= etaOut /\ Lagrange(dd, piOut) \in Int
<1>1. /\ dd \in SUBSET Col /\ rmp \in SUBSET Col /\ piOut \in Int
      /\ etaOut \in Int /\ etaOut = MasterAt(rmp, piOut)
  BY DEF IInv, TypeOK, LoopInv
<1>2. /\ Lagrange(dd, piOut) \in Int
      /\ Lagrange(dd, piOut) = Jobs * piOut \/ \E s \in dd : Lagrange(dd, piOut) = Line(s, piOut)
  BY <1>1, LagrangeIsLeast
<1>3. etaOut <= Jobs * piOut
  BY <1>1, LagrangeIsLeast, MasterIsLagrange
<1>4. CASE Lagrange(dd, piOut) = Jobs * piOut
  BY <1>2, <1>3, <1>4
<1>5. CASE \E s \in dd : Lagrange(dd, piOut) = Line(s, piOut)
  BY <1>1, <1>2, <1>5 DEF Improves
<1> QED BY <1>2, <1>4, <1>5

\* The value continueLP has during a turn of a technique that leaves it alone.
LEMMA ContinueIsFresh ==
  ASSUME IInv, LoopInv, pc = "turn", technique \in {"dynamic", "hybrid"}
  PROVE  continueLP \/ iterations = 1
BY DEF IInv, TypeOK, VerdictInv, LoopInv

LEMMA BaseTurnTermination == ASSUME TerminationInv, IInv', BaseTurn PROVE LoopInv' /\ WorkInv'
<1> USE DEF TerminationInv
<1>1. PICK s \in Best(dd, piOut) : priced' = {x \in {s} : Improves(x)}
  BY DEF BaseTurn
<1>2. s \in dd /\ s \in Col
  BY DEF Best, IInv, TypeOK
<1>3. /\ pc = "turn" /\ pc' = "fix" /\ dd' = dd /\ rmp' = rmp /\ iterations' = iterations
      /\ Recenter(piOut, Lagrange(dd, piOut)) /\ continueLP' = (etaIn < etaOut)
      /\ technique = "base" /\ technique' = technique /\ etaOut' = etaOut
  BY DEF BaseTurn
<1>4. /\ etaIn \in Nat /\ etaOut \in Int /\ Lagrange(dd, piOut) \in Int /\ etaIn' \in Nat
      /\ etaIn' >= etaIn /\ etaIn' >= Lagrange(dd, piOut)
  <2>1. etaIn \in Nat /\ etaOut \in Int /\ dd \in SUBSET Col /\ piOut \in Int /\ etaIn' \in Nat
    BY DEF IInv, TypeOK
  <2>2. Lagrange(dd, piOut) \in Int
    BY <2>1, LagrangeIsLeast
  <2> QED BY <1>3, <2>1, <2>2 DEF Recenter
<1>5. PricedInv'
  <2>1. priced' \subseteq dd \ rmp
    BY <1>1, <1>2, <1>3, ImprovingIsNew
  <2>2. priced' = {} => etaIn' >= etaOut
    <3> SUFFICES ASSUME priced' = {} PROVE etaIn' >= etaOut
      OBVIOUS
    <3>1. \A t \in dd : ~Improves(t)
      BY <1>1, BestAtMaster
    <3> QED BY <1>3, <1>4, <3>1, NoneImproves
  <2>3. ~continueLP' => etaIn' >= etaOut
    <3>1. ~continueLP' => ~(etaIn < etaOut)
      BY <1>3, Zenon
    <3> QED BY <1>4, <3>1
  <2> QED BY <1>3, <2>1, <2>2, <2>3 DEF PricedInv
<1>6. LoopInv'
  BY <1>1, <1>2, <1>3 DEF LoopInv
<1> QED BY <1>3, <1>5, <1>6, TurnWork

LEMMA SmoothedTurnTermination == ASSUME TerminationInv, IInv', SmoothedTurn PROVE LoopInv' /\ WorkInv'
<1> USE DEF TerminationInv
<1> DEFINE ab == IF hasCenter THEN Factor(k') ELSE 0
           pi == Mix(ab)
           e  == Lagrange(dd, pi)
<1>1. /\ pc = "turn" /\ rmp' = rmp /\ iterations' = iterations
      /\ technique \in {"static", "dynamic"} /\ technique' = technique
      /\ etaOut' = etaOut /\ piOut' = piOut
      /\ priced = {}
  BY DEF SmoothedTurn, LoopInv
<1>2. PICK s \in Best(dd, pi) :
        IF Improves(s) THEN priced' = {s} /\ Adapt(s, ab)
        ELSE UNCHANGED <<priced, alpha>> /\ alphabar' = ab
  BY DEF SmoothedTurn
<1>3. s \in dd /\ s \in Col
  BY DEF Best, IInv, TypeOK
<1>4. priced' = {} \/ (priced' = {s} /\ Improves(s))
  BY <1>1, <1>2
<1>5. ab \in 0 .. 10 /\ pi \in Nat
  <2>1. k' \in Nat
    BY DEF IInv, TypeOK
  <2>2. ab \in 0 .. 10
    BY <2>1, FactorType DEF IInv
  <2> QED BY <2>2, MixType DEF IInv
<1>6. CASE TriesAgain(ab)
  <2>1. pc' = "turn" /\ dd' = dd /\ continueLP' = continueLP /\ priced' = {}
    BY <1>6 DEF SmoothedTurn, TriesAgain
  <2>2. LoopInv'
    BY <1>1, <2>1 DEF LoopInv
  <2> QED BY <1>1, <2>1, <2>2, TurnWork
<1>7. CASE ~TriesAgain(ab)
  <2>1. /\ pc' = "fix"
        /\ Recenter(pi, e)
        /\ continueLP' = IF technique = "static" THEN etaIn < etaOut ELSE continueLP
        /\ dd' = dd \/ dd' \in Fixed(dd, pi)
    BY <1>7 DEF SmoothedTurn
  <2>2. LoopInv'
    BY <1>1, <1>3, <1>4, <2>1 DEF LoopInv
  <2>3. etaIn \in Nat /\ etaOut \in Int /\ e \in Int /\ etaIn' \in Nat /\ etaIn' >= etaIn /\ etaIn' >= e
    <3>1. etaIn \in Nat /\ etaOut \in Int /\ dd \in SUBSET Col /\ etaIn' \in Nat
      BY DEF IInv, TypeOK
    <3>2. e \in Int
      <4>1. pi \in Int
        BY <1>5
      <4> QED BY <3>1, <4>1, LagrangeIsLeast
    <3> HIDE DEF e, pi, ab
    <3> QED BY <2>1, <3>1, <3>2 DEF Recenter
  <2>4. ASSUME dd' = dd PROVE PricedInv'
    <3>1. priced' \subseteq dd \ rmp
      BY <1>1, <1>3, <1>4, ImprovingIsNew
    <3>2. priced' = {} => etaIn' >= etaOut
      <4> SUFFICES ASSUME priced' = {} PROVE etaIn' >= etaOut
        OBVIOUS
      <4>1. pi = piOut
        <5>1. ab = 0
          BY <1>5, <1>7 DEF TriesAgain
        <5> QED BY <5>1, MixOfZero DEF IInv
      <4>2. ~Improves(s)
        BY <1>2
      <4>3. \A t \in dd : ~Improves(t)
        BY <4>1, <4>2, BestAtMaster
      <4>4. e >= etaOut
        BY <1>1, <4>1, <4>3, NoneImproves
      <4> HIDE DEF e
      <4> QED BY <2>3, <4>4
    <3>3. ~continueLP' => etaIn' >= etaOut \/ iterations = 1
      <4> HIDE DEF e, pi, ab
      <4>1. CASE technique = "static"
        <5>1. continueLP' = (etaIn < etaOut)
          BY <2>1, <4>1, Zenon
        <5>2. ~continueLP' => ~(etaIn < etaOut)
          BY <5>1, Zenon
        <5> QED BY <2>3, <5>2
      <4>2. CASE technique = "dynamic"
        <5>1. continueLP' = continueLP
          BY <2>1, <4>2
        <5> QED BY <1>1, <4>2, <5>1, ContinueIsFresh
      <4> QED BY <1>1, <4>1, <4>2
    <3> HIDE DEF e, pi, ab
    <3> QED BY <1>1, <2>4, <3>1, <3>2, <3>3 DEF PricedInv
  <2>5. dd' \subseteq dd
    BY <2>1 DEF Fixed
  <2> HIDE DEF e, pi, ab
  <2> QED BY <1>1, <2>1, <2>2, <2>4, <2>5, TurnWork
<1> QED BY <1>6, <1>7

LEMMA HybridTurnTermination == ASSUME TerminationInv, IInv', HybridTurn PROVE LoopInv' /\ WorkInv'
<1> USE DEF TerminationInv
<1>1. PICK pi \in HybridDual : \E s \in Best(dd, pi) \cup {t \in Col : dd = {}} : HybridPrice(pi, s)
  BY DEF HybridTurn
<1>2. PICK s \in Best(dd, pi) \cup {t \in Col : dd = {}} : HybridPrice(pi, s)
  BY <1>1
<1>3. /\ pc = "turn" /\ rmp' = rmp /\ iterations' = iterations
      /\ technique = "hybrid" /\ technique' = technique
      /\ etaOut' = etaOut /\ piOut' = piOut /\ continueLP' = continueLP
  BY DEF HybridTurn
<1>4. /\ pi \in Int /\ s \in Col /\ dd \in SUBSET Col
      /\ etaIn \in Nat /\ etaIn' \in Nat /\ etaOut \in Int
  BY HybridDualType DEF IInv, TypeOK, Best
<1> DEFINE e          == Lagrange(dd, pi)
           found      == dd # {} /\ Improves(s)
           stabilized == IF misprice THEN alphabar > 0 ELSE alpha > 0
<1>5. /\ Recenter(pi, e) /\ dd' \subseteq dd /\ (pc' = "turn" \/ pc' = "fix")
      /\ priced' = {} \/ (priced' = {s} /\ found)
  <2>1. dd' = dd \/ dd' \in Fixed(dd, pi)
    BY <1>2 DEF HybridPrice
  <2> QED BY <1>2, <2>1 DEF HybridPrice, Fixed
<1>6. pc' = "turn" => priced' = {}
  BY <1>2 DEF HybridPrice
<1>7. LoopInv'
  <2>1. s \in Col /\ (priced' = {} \/ priced' = {s})
    BY <1>4, <1>5
  <2> QED BY <1>3, <1>5, <1>6, <2>1 DEF LoopInv
<1>8. e \in Int /\ etaIn' >= e
  <2>1. e \in Int
    BY <1>4, LagrangeIsLeast
  <2> HIDE DEF e
  <2> QED BY <1>4, <1>5, <2>1 DEF Recenter
<1>9. ASSUME pc' = "fix", dd' = dd PROVE PricedInv'
  <2>1. priced' \subseteq dd \ rmp
    <3>1. found => s \in dd /\ s \notin rmp
      BY <1>3, <1>4, ImprovingIsNew DEF Best
    <3> QED BY <1>5, <3>1
  <2>2. priced' = {} => etaIn' >= etaOut
    <3> SUFFICES ASSUME priced' = {} PROVE etaIn' >= etaOut
      OBVIOUS
    <3>1. pi = piOut
      <4>1. ~found /\ ~stabilized
        BY <1>2, <1>9 DEF HybridPrice
      <4>2. misprice => alphabar = 0
        BY <4>1 DEF IInv, TypeOK
      <4>3. ~misprice => alpha = 0
        BY <4>1 DEF IInv, TypeOK
      <4>4. Mix(0) = piOut
        BY MixOfZero DEF IInv
      <4> QED BY <4>2, <4>3, <4>4 DEF HybridDual
    <3>2. \A t \in dd : ~Improves(t)
      BY <1>3, <1>9 DEF IInv, GivesUpOnlyAtOptimum, Improves
    <3>3. e >= etaOut
      BY <1>3, <3>1, <3>2, NoneImproves
    <3> HIDE DEF e
    <3> QED BY <1>4, <1>8, <3>3
  <2>3. ~continueLP' => etaIn' >= etaOut \/ iterations = 1
    BY <1>3, ContinueIsFresh
  <2> QED BY <1>3, <1>9, <2>1, <2>2, <2>3 DEF PricedInv
<1> QED BY <1>3, <1>5, <1>7, <1>9, TurnWork

LEMMA MasterTermination == ASSUME TerminationInv, IInv', Master PROVE LoopInv' /\ WorkInv'
<1> USE DEF TerminationInv
<1>1. /\ pc = "master" /\ pc' = "turn" /\ dd' = dd /\ rmp' = rmp /\ iterations' = iterations + 1
      /\ priced' = {} /\ etaOut' = MasterAt(rmp, piOut') /\ technique' = technique
      /\ continueLP' = continueLP /\ iterations \in Nat /\ InLoop
      /\ etaIn \in Nat /\ etaOut \in Int
  BY DEF Master, IInv, TypeOK
<1>2. iterations > 0 => etaIn < etaOut /\ etaIn <= UB - 1
  BY <1>1 DEF InLoop
<1>3. ~Stops
  BY <1>1, <1>2, StabilisationAssumption DEF Stops
<1>4. iterations + Work <= Limit
  BY <1>1, <1>3 DEF WorkInv
<1>5. Work \in Nat /\ Limit \in Nat
  BY WorkLeft DEF Work, IInv, TypeOK
<1>6. iterations' + Work' <= Limit'  + 1
  <2>1. Work' = Work /\ Limit' = Limit
    BY <1>1 DEF Work, Limit
  <2>2. iterations + 1 + Work <= Limit + 1
    BY <1>1, <1>4, <1>5
  <2> QED BY <1>1, <2>1, <2>2
<1>7. LoopInv'
  <2>1. iterations > 0 /\ technique \in {"dynamic", "hybrid"} => continueLP
    BY <1>1, <1>2 DEF LoopInv
  <2>2. iterations' > 1 => iterations > 0
    BY <1>1
  <2> QED BY <1>1, <2>1, <2>2 DEF LoopInv
<1> QED BY <1>1, <1>6, <1>7 DEF WorkInv

\* Fixing and cleaning: either work is done, or the master is what it was, no dearer.
LEMMA FixWork ==
  ASSUME IInv, IInv', Fix, pc \in {"fix", "column"}
  PROVE  /\ Work \in Int /\ Work' \in Int
         /\ \/ Work' <= Work - 2
            \/ Work' = Work - 1 /\ dd' = dd
            \/ Work' = Work /\ dd' = dd /\ rmp' = rmp /\ etaOut' <= etaOut
<1>1. /\ dd \in SUBSET Col /\ rmp \in SUBSET Col /\ dd' \in SUBSET dd /\ rmp' = rmp \cap dd'
      /\ dd' \in SUBSET Col /\ rmp' \in SUBSET Col
      /\ piOut' \in Duals(rmp') /\ etaOut' = MasterAt(rmp', piOut')
  BY DEF IInv, TypeOK, Fix, Fixed
<1>2. Work \in Int /\ Work' \in Int
  <2>1. WorkOf(Col, dd, rmp) \in Nat
    BY <1>1, WorkLeft
  <2>2. WorkOf(Col, dd', rmp') \in Nat
    BY <1>1, WorkLeft
  <2> QED BY <2>1, <2>2 DEF Work
<1>3. CASE dd' # dd
  BY <1>1, <1>2, <1>3, WorkFallsWithDiagram, StabilisationAssumption DEF Work
<1>4. CASE dd' = dd /\ ~(rmp \subseteq dd)
  BY <1>1, <1>2, <1>4, WorkOfCleaned, StabilisationAssumption DEF Work
<1>5. CASE dd' = dd /\ rmp \subseteq dd
  <2>1. rmp' = rmp /\ Work' = Work
    BY <1>1, <1>5 DEF Work
  <2>2. piOut' \in Dual /\ iterations > 0
    BY <1>1 DEF Duals, IInv, VerdictInv
  <2>3. etaOut' <= etaOut
    BY <1>1, <2>1, <2>2 DEF IInv, MasterInv
  <2> QED BY <1>2, <1>5, <2>1, <2>3
<1> QED BY <1>2, <1>3, <1>4, <1>5

\* The four ways the budget is kept.
LEMMA Budgets ==
  ASSUME NEW i \in Int, NEW w \in Int, NEW v \in Int, NEW l \in Int
  PROVE  /\ i + w <= l - 1 /\ v <= w => i + v <= l - 1
         /\ i + w <= l - 1 /\ v <= w + 1 => i + v <= l
         /\ i + w <= l /\ v <= w => i + v <= l
         /\ i + w <= l + 1 /\ v <= w => i + v <= l + 1
         /\ i + w <= l + 1 /\ v <= w - 1 => i + v <= l
         /\ i + w <= l + 1 /\ v <= w - 2 => i + v <= l - 1
OBVIOUS

LEMMA FixAtCenterTermination ==
  ASSUME TerminationInv, IInv', FixAtCenter PROVE LoopInv' /\ WorkInv'
<1> USE DEF TerminationInv
<1>1. /\ pc = "fix" /\ pc' = "column" /\ Fix
      /\ iterations' = iterations /\ priced' = priced /\ etaIn' = etaIn
      /\ continueLP' = (etaIn < etaOut') /\ dd' \subseteq dd /\ rmp' = rmp \cap dd'
      /\ iterations \in Int
  BY DEF FixAtCenter, Fix, Fixed, IInv, TypeOK
<1>2. LoopInv'
  BY <1>1 DEF LoopInv
<1>3. Limit' = Limit /\ Limit \in Int
  <2>1. Limit \in Nat
    BY WorkLeft, {} \in SUBSET Col
  <2> QED BY <2>1 DEF Limit
<1>4. /\ Work \in Int /\ Work' \in Int
      /\ \/ Work' <= Work - 2
         \/ Work' = Work - 1 /\ dd' = dd
         \/ Work' = Work /\ dd' = dd /\ rmp' = rmp /\ etaOut' <= etaOut
  BY <1>1, FixWork
<1>5. PricedWork
  BY <1>1 DEF WorkInv
<1>6. Work' <= Work - 2 \/ Work' <= Work
  BY <1>4
<1>7. /\ iterations + Work <= Limit - 1 /\ Work' <= Work => iterations + Work' <= Limit - 1
      /\ iterations + Work <= Limit /\ Work' <= Work => iterations + Work' <= Limit
      /\ iterations + Work <= Limit + 1 /\ Work' <= Work => iterations + Work' <= Limit + 1
      /\ iterations + Work <= Limit + 1 /\ Work' <= Work - 1 => iterations + Work' <= Limit
      /\ iterations + Work <= Limit + 1 /\ Work' <= Work - 2 => iterations + Work' <= Limit - 1
  BY <1>1, <1>3, <1>4, Budgets, ZenonT(40)
<1>8. PricedWork'
  <2>1. CASE iterations + Work <= Limit - 1
    <3>1. Work' <= Work
      BY <1>4
    <3> QED BY <1>1, <1>3, <1>7, <2>1, <3>1 DEF PricedWork
  <2>2. CASE iterations + Work <= Limit /\ priced \subseteq dd
    <3>1. CASE Work' <= Work - 2
      <4>1. iterations + Work <= Limit + 1
        BY <1>1, <1>3, <1>4, <2>2
      <4> QED BY <1>1, <1>3, <1>7, <3>1, <4>1 DEF PricedWork
    <3>2. CASE Work' <= Work /\ dd' = dd
      BY <1>1, <1>3, <1>7, <2>2, <3>2 DEF PricedWork
    <3> QED BY <1>4, <3>1, <3>2
  <2>3. CASE iterations + Work <= Limit + 1 /\ PricedInv
    <3>1. CASE Work' <= Work - 2
      BY <1>1, <1>3, <1>7, <2>3, <3>1 DEF PricedWork
    <3>2. CASE Work' = Work - 1 /\ dd' = dd
      BY <1>1, <1>3, <1>4, <1>7, <2>3, <3>2 DEF PricedWork, PricedInv
    <3>3. CASE Work' = Work /\ dd' = dd /\ rmp' = rmp /\ etaOut' <= etaOut
      <4>1. PricedInv'
        BY <1>1, <2>3, <3>3 DEF PricedInv, IInv, TypeOK
      <4> QED BY <1>1, <1>3, <1>7, <2>3, <3>3, <4>1 DEF PricedWork
    <3> QED BY <1>4, <3>1, <3>2, <3>3
  <2> QED BY <1>5, <2>1, <2>2, <2>3 DEF PricedWork
<1> QED BY <1>1, <1>2, <1>8 DEF WorkInv

LEMMA FixAndCleanTermination ==
  ASSUME TerminationInv, IInv', FixAndClean PROVE LoopInv' /\ WorkInv'
<1> USE DEF TerminationInv
<1>1. /\ pc = "column" /\ pc' = "master" /\ Fix /\ ~AddsColumn
      /\ iterations' = iterations /\ priced' = priced /\ etaIn' = etaIn
      /\ continueLP' = (etaIn < etaOut')
      /\ iterations \in Int /\ iterations > 0 /\ technique' = technique
      /\ etaIn \in Int /\ etaOut \in Int /\ etaOut' \in Int
  BY DEF FixAndClean, Fix, IInv, TypeOK, VerdictInv
<1>2. LoopInv'
  <2>1. continueLP' \/ etaIn' >= etaOut'
    <3>1. continueLP' \/ ~(etaIn < etaOut')
      BY <1>1, Zenon
    <3> QED BY <1>1, <3>1
  <2> QED BY <1>1, <2>1 DEF LoopInv
<1>3. Limit' = Limit /\ Limit \in Int
  <2>1. Limit \in Nat
    BY WorkLeft, {} \in SUBSET Col
  <2> QED BY <2>1 DEF Limit
<1>4. /\ Work \in Int /\ Work' \in Int
      /\ \/ Work' <= Work - 2
         \/ Work' = Work - 1 /\ dd' = dd
         \/ Work' = Work /\ dd' = dd /\ rmp' = rmp /\ etaOut' <= etaOut
  BY <1>1, FixWork
<1>5. PricedWork
  BY <1>1 DEF WorkInv
<1>6. \A w, v \in Int :
        /\ iterations + w <= Limit - 1 /\ v <= w => iterations + v <= Limit
        /\ iterations + w <= Limit /\ v <= w => iterations + v <= Limit
        /\ iterations + w <= Limit + 1 /\ v <= w => iterations + v <= Limit + 1
        /\ iterations + w <= Limit + 1 /\ v <= w - 1 => iterations + v <= Limit
        /\ v <= Limit - 1 /\ iterations = 1 => iterations + v <= Limit
  BY <1>1, <1>3
<1>7. iterations + Work' <= Limit \/ (iterations + Work' <= Limit + 1 /\ Stops')
  <2>1. CASE iterations + Work <= Limit
    <3>1. Work' <= Work
      BY <1>4
    <3> QED BY <1>4, <1>6, <2>1, <3>1
  <2>2. CASE iterations + Work <= Limit + 1 /\ PricedInv
    <3>1. CASE Work' <= Work - 1
      BY <1>4, <1>6, <2>2, <3>1
    <3>2. CASE Work' = Work /\ dd' = dd /\ rmp' = rmp /\ etaOut' <= etaOut
      <4>1. CASE iterations = 1
        <5>1. Work' <= Limit - 1
          <6>1. dd' \in SUBSET Col /\ rmp' \in SUBSET Col
            BY DEF IInv, TypeOK
          <6>2. WorkOf(Col, dd', rmp') <= Limit - 1
            BY <6>1, WorkLeft
          <6> QED BY <6>2 DEF Work
        <5> QED BY <1>4, <1>6, <4>1, <5>1
      <4>2. CASE iterations # 1
        <5>1. etaIn >= etaOut \/ etaIn > UB - 1
          BY <1>1, <2>2, <4>2, StabilisationAssumption DEF AddsColumn, PricedInv
        <5>2. etaIn' >= etaOut' \/ etaIn' > UB - 1
          BY <1>1, <3>2, <5>1
        <5> QED BY <1>1, <1>4, <1>6, <2>2, <3>2, <5>2 DEF Stops
      <4> QED BY <4>1, <4>2
    <3> QED BY <1>4, <3>1, <3>2
  <2>3. iterations + Work <= Limit - 1 => iterations + Work <= Limit
    BY <1>1, <1>3, <1>4
  <2> QED BY <1>5, <2>1, <2>2, <2>3 DEF PricedWork
<1> QED BY <1>1, <1>2, <1>3, <1>7 DEF WorkInv

LEMMA AddColumnTermination ==
  ASSUME TerminationInv, IInv', AddColumn PROVE LoopInv' /\ WorkInv'
<1> USE DEF TerminationInv
<1>1. /\ pc = "column" /\ pc' = "master" /\ priced # {} /\ continueLP
      /\ rmp' = rmp \cup priced /\ dd' = dd /\ priced' = priced
      /\ iterations' = iterations /\ continueLP' = continueLP
      /\ iterations \in Int /\ technique' = technique
      /\ dd \in SUBSET Col /\ rmp \in SUBSET Col
  BY DEF AddColumn, AddsColumn, IInv, TypeOK
<1>2. LoopInv'
  BY <1>1 DEF LoopInv
<1>3. PICK s \in Col : priced = {s}
  BY <1>1 DEF LoopInv
<1>4. Limit' = Limit /\ Limit \in Int
  <2>1. Limit \in Nat
    BY WorkLeft, {} \in SUBSET Col
  <2> QED BY <2>1 DEF Limit
<1>5. WorkOf(Col, dd, rmp) \in Nat /\ WorkOf(Col, dd, rmp \cup {s}) \in Nat
  <2>1. rmp \cup {s} \in SUBSET Col
    BY <1>1
  <2>2. WorkOf(Col, dd, rmp) \in Nat
    BY <1>1, WorkLeft
  <2> QED BY <1>1, <2>1, <2>2, WorkLeft
<1>6. Work = WorkOf(Col, dd, rmp) /\ Work' = WorkOf(Col, dd, rmp \cup {s})
  BY <1>1, <1>3 DEF Work
<1>7. PricedWork
  BY <1>1 DEF WorkInv
<1>8. iterations + WorkOf(Col, dd, rmp \cup {s}) <= Limit
  <2>1. CASE iterations + Work <= Limit - 1
    <3>1. WorkOf(Col, dd, rmp \cup {s}) <= WorkOf(Col, dd, rmp) + 1
      BY <1>1, WorkOfAdded, StabilisationAssumption
    <3> QED BY <1>1, <1>4, <1>5, <1>6, <2>1, <3>1
  <2>2. CASE iterations + Work <= Limit /\ priced \subseteq dd
    <3>1. WorkOf(Col, dd, rmp \cup {s}) <= WorkOf(Col, dd, rmp)
      BY <1>1, <1>3, <2>2, WorkOfAdded, StabilisationAssumption
    <3> QED BY <1>1, <1>4, <1>5, <1>6, <2>2, <3>1
  <2>3. CASE iterations + Work <= Limit + 1 /\ PricedInv
    <3>1. WorkOf(Col, dd, rmp \cup {s}) = WorkOf(Col, dd, rmp) - 1
      <4>1. s \in dd /\ s \notin rmp
        BY <1>3, <2>3 DEF PricedInv
      <4> QED BY <1>1, <4>1, WorkOfAdded, StabilisationAssumption
    <3> QED BY <1>1, <1>4, <1>5, <1>6, <2>3, <3>1
  <2> QED BY <1>7, <2>1, <2>2, <2>3 DEF PricedWork
<1> QED BY <1>1, <1>2, <1>4, <1>6, <1>8 DEF WorkInv

LEMMA FinishTermination ==
  ASSUME TerminationInv, IInv', Finish PROVE LoopInv' /\ WorkInv'
<1> USE DEF TerminationInv
<1>1. /\ pc = "master" /\ pc' = "done" /\ iterations' = iterations /\ priced' = priced
      /\ iterations \in Nat
  BY DEF Finish, IInv, TypeOK
<1>2. Work \in Nat /\ Limit \in Nat /\ Limit' = Limit
  BY WorkLeft DEF Work, IInv, TypeOK, Limit
<1>3. iterations <= Limit + 1
  BY <1>1, <1>2 DEF WorkInv
<1>4. LoopInv'
  BY <1>1 DEF LoopInv
<1> QED BY <1>1, <1>2, <1>3, <1>4 DEF WorkInv

LEMMA TerminationStep == TerminationInv /\ [Next]_vars => TerminationInv'
<1> SUFFICES ASSUME TerminationInv, [Next]_vars PROVE LoopInv' /\ WorkInv'
  BY NextInv DEF TerminationInv
<1>1. IInv'
  BY NextInv DEF TerminationInv
<1>2. CASE NoFixAtCenter
  <2>1. LoopInv'
    BY <1>2 DEF NoFixAtCenter, TerminationInv, LoopInv
  <2>2. WorkInv'
    BY <1>2 DEF NoFixAtCenter, TerminationInv, WorkInv, Work, PricedWork, PricedInv, Limit
  <2> QED BY <2>1, <2>2
<1>3. CASE UNCHANGED vars
  BY <1>3 DEF TerminationInv, LoopInv, WorkInv, Work, PricedWork, PricedInv, Stops, Limit
<1> QED BY <1>1, <1>2, <1>3, BaseTurnTermination, SmoothedTurnTermination,
           HybridTurnTermination, MasterTermination, FixAtCenterTermination,
           FixAndCleanTermination, AddColumnTermination, FinishTermination DEF Next, Done

\* The stopping tests of compute_lower_bound end its loop with every technique, after
\* no more turns than the square of the number of columns, and some: continueLP and the
\* stability centre, left over from the turn before, do not keep it going.
THEOREM LoopIsBounded == Spec => [](iterations <= (Cardinality(Col) + 1) * (Cardinality(Col) + 3))
<1>1. TerminationInv => iterations <= (Cardinality(Col) + 1) * (Cardinality(Col) + 3)
  <2> SUFFICES ASSUME TerminationInv PROVE iterations <= (Cardinality(Col) + 1) * (Cardinality(Col) + 3)
    OBVIOUS
  <2>1. iterations \in Nat /\ Work \in Nat /\ Limit \in Nat /\ Cardinality(Col) \in Nat
    BY WorkLeft DEF TerminationInv, IInv, TypeOK, Work
  <2>2. iterations <= Limit + 1
    BY <2>1 DEF TerminationInv, IInv, TypeOK, WorkInv, PricedWork
  <2>3. Limit + 1 = (Cardinality(Col) + 1) * (Cardinality(Col) + 3)
    BY <2>1 DEF Limit, WorkLimit
  <2> QED BY <2>2, <2>3
<1> QED BY InitTermination, TerminationStep, <1>1, PTL DEF Spec

\* A limit beyond that is never met.
THEOREM Converges == ASSUME MaxIter > (Cardinality(Col) + 1) * (Cardinality(Col) + 3) PROVE Spec => []ConvergesBeforeLimit
<1>1. iterations <= (Cardinality(Col) + 1) * (Cardinality(Col) + 3) /\ iterations \in Nat => ConvergesBeforeLimit
  <2>1. Cardinality(Col) \in Nat
    BY WorkLeft, {} \in SUBSET Col
  <2> QED BY <2>1, StabilisationAssumption DEF ConvergesBeforeLimit
<1>2. TypeOK => iterations \in Nat
  BY DEF TypeOK
<1> QED BY LoopIsBounded, TypeCorrect, <1>1, <1>2, PTL
==============================================================================
