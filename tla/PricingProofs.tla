----------------------------- MODULE PricingProofs -----------------------------
(***************************************************************************)
(* The labels of the decision diagram and the fixing they decide: no path  *)
(* that a schedule better than the incumbent needs is ever taken away, and *)
(* the column priced is a path that none of a machine is better than.      *)
(***************************************************************************)
EXTENDS DiagramProofs

Labels == [f : Int, job : Nat, seq : Seq(Nat)]
Pairs == Labels \X Labels

\* Of the two labels, the one that job j can go next to has at most the value v.
Serves(P, v, j) == P[1].f <= v /\ (P[1].job = j => P[2].f <= v)

LEMMA LabelFacts ==
  ASSUME NEW l \in Labels
  PROVE  l.f \in Int /\ l.job \in Nat /\ l.seq \in Seq(Nat)
BY DEF Labels

LEMMA PairFacts ==
  ASSUME NEW P \in Pairs
  PROVE  P = <<P[1], P[2]>> /\ P[1] \in Labels /\ P[2] \in Labels
BY DEF Pairs

LEMMA MakePair ==
  ASSUME NEW a \in Labels, NEW b \in Labels
  PROVE  <<a, b>> \in Pairs
BY DEF Pairs

LEMMA NoLabels == NoLabel \in Labels /\ Start \in Labels
<1>1. <<>> \in Seq(Nat)
  OBVIOUS
<1> QED BY <1>1 DEF NoLabel, Start, Labels, Huge

LEMMA PlusFacts ==
  ASSUME NEW x \in Int, NEW c \in Int
  PROVE  /\ Plus(x, c) \in Int
         /\ \A v \in Int : x <= v /\ v < Huge => Plus(x, c) <= v + c
BY DEF Plus, Huge

LEMMA ExtendFacts ==
  ASSUME NEW l \in Labels, NEW j \in Nat, NEW c \in Int
  PROVE  /\ Extend(l, j, c) \in Labels /\ Extend(l, j, c).f = Plus(l.f, c) /\ Extend(l, j, c).job = j
         /\ Prepend(l, j, c) \in Labels /\ Prepend(l, j, c).f = Plus(l.f, c) /\ Prepend(l, j, c).job = j
<1>1. l.seq \in Seq(Nat) /\ Plus(l.f, c) \in Int
  BY LabelFacts, PlusFacts
<1> DEFINE s == l.seq
           x == Plus(l.f, c)
           a == Append(s, j)
           b == <<j>> \o s
<1>2. a \in Seq(Nat) /\ b \in Seq(Nat)
  <2> HIDE DEF s
  <2>1. s \in Seq(Nat)
    BY <1>1 DEF s
  <2> QED BY <2>1
<1>3. Extend(l, j, c) = [f |-> x, job |-> j, seq |-> a] /\ Prepend(l, j, c) = [f |-> x, job |-> j, seq |-> b]
  BY DEF Extend, Prepend
<1>4. x = Plus(l.f, c)
  OBVIOUS
<1> HIDE DEF x, a, b
<1> QED BY <1>1, <1>2, <1>3, <1>4 DEF Labels

LEMMA UsableServes ==
  ASSUME NEW P \in Pairs, NEW j
  PROVE  Usable(P, j) \in Labels /\ \A v \in Int : Serves(P, v, j) => Usable(P, j).f <= v
BY PairFacts DEF Usable, Serves

\* What a label for job j that joins a node leaves and brings.
LEMMA JoinHighServes ==
  ASSUME NEW P \in Pairs, NEW high \in Labels, NEW j, high.job = j
  PROVE  /\ JoinHigh(P, high, j) \in Pairs
         /\ JoinHigh(P, high, j)[1] \in {P[1], high}
         /\ \A v \in Int, k \in Int : Serves(P, v, k) => Serves(JoinHigh(P, high, j), v, k)
         /\ \A v \in Int, k \in Int : high.f <= v /\ k # j => Serves(JoinHigh(P, high, j), v, k)
<1> DEFINE a == P[1]
           b == P[2]
<1>1. P = <<a, b>> /\ a \in Labels /\ b \in Labels /\ a.f \in Int /\ b.f \in Int /\ high.f \in Int
  BY PairFacts, LabelFacts
<1>2. CASE high.f < a.f
  <2>1. JoinHigh(P, high, j) = <<high, IF a.job # j THEN a ELSE b>>
    BY <1>1, <1>2 DEF JoinHigh
  <2> HIDE DEF a, b
  <2>2. JoinHigh(P, high, j) \in Pairs
    BY <1>1, <2>1, MakePair
  <2> QED BY <1>1, <1>2, <2>1, <2>2 DEF Serves, a, b
<1>3. CASE ~(high.f < a.f) /\ high.f < b.f /\ a.job # j
  <2>1. JoinHigh(P, high, j) = <<a, high>>
    BY <1>1, <1>3 DEF JoinHigh
  <2> HIDE DEF a, b
  <2>2. JoinHigh(P, high, j) \in Pairs
    BY <1>1, <2>1, MakePair
  <2> QED BY <1>1, <1>3, <2>1, <2>2 DEF Serves, a, b
<1>4. CASE ~(high.f < a.f) /\ ~(high.f < b.f /\ a.job # j)
  <2>1. JoinHigh(P, high, j) = P
    BY <1>1, <1>4 DEF JoinHigh
  <2> HIDE DEF a, b
  <2> QED BY <1>1, <1>4, <2>1 DEF Serves, a, b
<1> QED BY <1>2, <1>3, <1>4

\* Labels of a parent that join a node by its 0-arc: no value is lost to a job next if
\* the node had none but of the parent's job, or of no job at all.
LEMMA JoinLowServes ==
  ASSUME NEW P \in Pairs, NEW N \in Pairs, NEW j \in Nat
  PROVE  /\ JoinLow(P, N, Usable(N, j).job) \in Pairs
         /\ \A v \in Int, k \in Int :
              /\ v < Huge /\ k # 0
              /\ k = -1 \/ (P[1].job \in {0, j} /\ (P[1].job = 0 => P[1].f = Huge))
              => /\ Serves(P, v, k) => Serves(JoinLow(P, N, Usable(N, j).job), v, k)
                 /\ Serves(N, v, k) => Serves(JoinLow(P, N, Usable(N, j).job), v, k)
<1> DEFINE a == P[1]
           b == P[2]
           c == N[1]
           d == N[2]
           prev == Usable(N, j).job
           J == JoinLow(P, N, prev)
           OK(v, k) == /\ v < Huge /\ k # 0
                       /\ k = -1 \/ (a.job \in {0, j} /\ (a.job = 0 => a.f = Huge))
<1>1. /\ P = <<a, b>> /\ a \in Labels /\ b \in Labels /\ a.f \in Int /\ b.f \in Int
      /\ a.job \in Nat /\ b.job \in Nat
      /\ N = <<c, d>> /\ c \in Labels /\ d \in Labels /\ c.f \in Int /\ d.f \in Int
      /\ c.job \in Nat /\ d.job \in Nat
  BY PairFacts, LabelFacts
<1>2. prev = IF c.job # j THEN c.job ELSE d.job
  BY DEF Usable
<1> HIDE DEF prev
<1> SUFFICES /\ J \in Pairs
             /\ \A v \in Int, k \in Int : OK(v, k) => /\ Serves(P, v, k) => Serves(J, v, k)
                                                      /\ Serves(N, v, k) => Serves(J, v, k)
  BY DEF prev
<1>3. CASE c.f < a.f
  <2> DEFINE second == IF prev # a.job THEN a ELSE b
             third == IF d.f < second.f THEN d ELSE second
  <2>1. J = <<c, third>>
    BY <1>3 DEF JoinLow
  <2>2. third \in Labels
    BY <1>1
  <2>3. third.f <= d.f /\ third.f <= second.f /\ third.f \in Int /\ second.f \in Int
    BY <1>1
  <2>4. J[1] = c /\ J[2] = third /\ J \in Pairs
    <3> HIDE DEF third, a, b, c, d
    <3> QED BY <1>1, <2>1, <2>2, MakePair
  <2>5. second.f = IF prev # a.job THEN a.f ELSE b.f
    OBVIOUS
  <2> HIDE DEF third, second, a, b, c, d, J
  <2>6. ASSUME NEW v \in Int, NEW k \in Int, OK(v, k), Serves(P, v, k) PROVE Serves(J, v, k)
    BY <1>1, <1>2, <1>3, <2>3, <2>4, <2>5, <2>6 DEF Serves, a, b, Huge
  <2>7. ASSUME NEW v \in Int, NEW k \in Int, OK(v, k), Serves(N, v, k) PROVE Serves(J, v, k)
    BY <1>1, <2>3, <2>4, <2>7 DEF Serves, c, d
  <2> QED BY <2>4, <2>6, <2>7
<1>4. CASE ~(c.f < a.f) /\ c.f < b.f /\ a.job # prev
  <2>1. J = <<a, c>>
    BY <1>4 DEF JoinLow
  <2> HIDE DEF a, b, c, d, J
  <2>2. J \in Pairs
    BY <1>1, <2>1, MakePair
  <2> QED BY <1>1, <1>4, <2>1, <2>2 DEF Serves, a, b, c, d
<1>5. CASE ~(c.f < a.f) /\ ~(c.f < b.f /\ a.job # prev) /\ d.f < b.f
  <2>1. J = <<a, d>>
    BY <1>5 DEF JoinLow
  <2> HIDE DEF a, b, c, d, J
  <2>2. J \in Pairs
    BY <1>1, <2>1, MakePair
  <2> QED BY <1>1, <1>2, <1>5, <2>1, <2>2 DEF Serves, a, b, c, d
<1>6. CASE ~(c.f < a.f) /\ ~(c.f < b.f /\ a.job # prev) /\ ~(d.f < b.f)
  <2>1. J = P
    BY <1>6 DEF JoinLow
  <2> HIDE DEF a, b, c, d, J
  <2> QED BY <1>1, <1>2, <1>6, <2>1 DEF Serves, a, b, c, d
<1> QED BY <1>3, <1>4, <1>5, <1>6

\* Any job: no label is for job -1.
LEMMA ServesAny ==
  ASSUME NEW P \in Pairs, NEW v \in Int
  PROVE  Serves(P, v, -1) <=> P[1].f <= v
<1>1. P[1].job \in Nat
  BY PairFacts, LabelFacts
<1> QED BY <1>1 DEF Serves

--------------------------------------------------------------------------------
(* The step of a forward pass. *)

IsLabelling(D, f) == f \in [Vertices(D) -> Pairs]
IsDuals(I, pi) == pi \in [DOMAIN I.jobs -> Int]
Key(s, k) == IF Cyclic(s) THEN k ELSE -1

LEMMA LabellingFacts ==
  ASSUME NEW D, NEW f, IsLabelling(D, f), NEW x \in Vertices(D)
  PROVE  f[x] \in Pairs
BY DEF IsLabelling

LEMMA ReducedCostType ==
  ASSUME NEW I, IsInstance(I), NEW D, IsDiagram(I, D), NEW pi, IsDuals(I, pi), NEW n \in Nodes(D)
  PROVE  ReducedCost(I, pi, n) \in Int
<1> DEFINE j == JobAt(I, n)
<1>1. j \in DOMAIN I.jobs /\ n[2] \in Nat
  BY NodeFacts
<1>2. I.jobs[j].p \in Nat /\ I.jobs[j].d \in Nat /\ I.jobs[j].w \in Nat
  BY <1>1, InstanceFacts
<1>3. pi[j] \in Int
  BY <1>1 DEF IsDuals
<1>4. Late(n[2] + I.jobs[j].p, I.jobs[j].d) \in Int
  BY <1>1, <1>2 DEF Late
<1>5. ReducedCost(I, pi, n) = I.jobs[j].w * Late(n[2] + I.jobs[j].p, I.jobs[j].d) - pi[j]
  BY DEF ReducedCost, WeightedTardinessStart
<1> HIDE DEF j
<1> QED BY <1>2, <1>3, <1>4, <1>5

LEMMA BetterFacts ==
  ASSUME NEW D, NEW f, IsLabelling(D, f), NEW x \in Vertices(D), NEW l \in Labels
  PROVE  /\ IsLabelling(D, Better(f, x, l))
         /\ \A y \in Vertices(D) : y # x => Better(f, x, l)[y] = f[y]
         /\ Better(f, x, l)[x][1] \in {l, f[x][1]}
         /\ Better(f, x, l)[x][1].f <= l.f /\ Better(f, x, l)[x][1].f <= f[x][1].f
<1>1. f[x] \in Pairs /\ f[x][1] \in Labels /\ f[x][2] \in Labels /\ f[x][1].f \in Int /\ l.f \in Int
  BY LabellingFacts, PairFacts, LabelFacts
<1>2. CASE l.f < f[x][1].f
  <2> DEFINE g == Better(f, x, l)
             P == <<l, f[x][2]>>
  <2>1. g = [f EXCEPT ![x] = P]
    BY <1>2 DEF Better
  <2>2. P \in Pairs /\ P[1] = l
    BY <1>1, MakePair
  <2> HIDE DEF g, P
  <2>3. IsLabelling(D, g) /\ g[x] = P /\ \A y \in Vertices(D) : y # x => g[y] = f[y]
    BY <2>1, <2>2 DEF IsLabelling
  <2> QED BY <1>1, <1>2, <2>2, <2>3 DEF g
<1>3. CASE ~(l.f < f[x][1].f)
  <2>1. Better(f, x, l) = f
    BY <1>3 DEF Better
  <2> QED BY <1>1, <1>3, <2>1
<1> QED BY <1>2, <1>3

\* What the low child has when its 0-arc from n is followed: it is the terminal, or begins
\* a path itself, or only 1-arcs of n's job led to it.
Ready(I, D, f, n) ==
  LET P == f[D.lo[n]]
  IN  \/ D.lo[n] = One
      \/ n[2] = 0 /\ P = <<Start, NoLabel>> /\ f[n] = P
      \/ P[1].job \in {0, JobAt(I, n)} /\ (P[1].job = 0 => P[1].f = Huge)

\* k is a job that may follow at x.
MayFollow(s, x, k) == k \in Int /\ k # 0 /\ (x = One => k = -1) /\ (~Cyclic(s) => k = -1)

\* What a step does to the labels: it only touches the children of n, ...
Touches(D, f, n, E) ==
  /\ IsLabelling(D, E)
  /\ \A x \in Vertices(D) : x # D.lo[n] /\ x # D.hi[n] => E[x] = f[x]

\* ... takes no value away, passes those of n on to its low child, and with the reduced
\* cost to its high child, ...
Passes(I, D, pi, s, f, n, E) ==
  /\ \A x \in Vertices(D), v \in Int, k \in Int :
       v < Huge /\ MayFollow(s, x, k) /\ Serves(f[x], v, k) => Serves(E[x], v, k)
  /\ \A v \in Int, k \in Int :
       v < Huge /\ MayFollow(s, D.lo[n], k) /\ Serves(f[n], v, k) => Serves(E[D.lo[n]], v, k)
  /\ \A v \in Int, k \in Int :
       /\ v < Huge /\ v + ReducedCost(I, pi, n) < Huge /\ MayFollow(s, D.hi[n], k) /\ k # JobAt(I, n)
       /\ Serves(f[n], v, Key(s, JobAt(I, n)))
       => Serves(E[D.hi[n]], v + ReducedCost(I, pi, n), k)

\* ... and gives the high child a first label of n's job or leaves the one it had.
Marks(I, D, f, n, E) ==
  /\ D.hi[n] # One => E[D.hi[n]][1].job = JobAt(I, n) \/ E[D.hi[n]][1] = f[D.hi[n]][1]
  /\ D.lo[n] # One /\ f[n] = <<Start, NoLabel>> /\ f[D.lo[n]] = <<Start, NoLabel>> => E[D.lo[n]] = f[D.lo[n]]

\* The children of a node differ unless both are the terminal.
LEMMA ChildrenDiffer ==
  ASSUME NEW I, IsInstance(I), NEW D, IsDiagram(I, D), NEW n \in Nodes(D), D.lo[n] = D.hi[n]
  PROVE  D.lo[n] = One
<1>1. n[2] \in Int /\ Length(I, n) \in Nat \ {0}
  BY NodeFacts
<1>2. /\ D.lo[n] # One => D.lo[n][2] = n[2]
      /\ D.hi[n] # One => D.hi[n][2] = n[2] + Length(I, n)
  BY DEF IsDiagram
<1> DEFINE a == n[2]
           b == Length(I, n)
<1>3. a # a + b
  <2> HIDE DEF a, b
  <2> QED BY <1>1 DEF a, b
<1> QED BY <1>2, <1>3

LEMMA EvalSimpleFacts ==
  ASSUME NEW I, IsInstance(I), NEW D, IsDiagram(I, D), NEW pi, IsDuals(I, pi),
         NEW s, ~Cyclic(s), NEW f, IsLabelling(D, f), NEW n \in Nodes(D)
  PROVE  /\ Touches(D, f, n, EvalSimple(I, D, pi, f, n))
         /\ Passes(I, D, pi, s, f, n, EvalSimple(I, D, pi, f, n))
         /\ Marks(I, D, f, n, EvalSimple(I, D, pi, f, n))
<1> DEFINE j == JobAt(I, n)
           rc == ReducedCost(I, pi, n)
           high == Extend(f[n][1], j, rc)
           lo == D.lo[n]
           hi == D.hi[n]
           g == Better(f, hi, high)
           E == Better(g, lo, f[n][1])
<1>1. /\ n \in Vertices(D) /\ lo \in Vertices(D) /\ hi \in Vertices(D) /\ j \in Nat /\ rc \in Int
  <2>1. j \in DOMAIN I.jobs /\ DOMAIN I.jobs = 1 .. Len(I.jobs) /\ Len(I.jobs) \in Nat
    BY NodeFacts, InstanceFacts
  <2>2. j \in Nat
    BY <2>1
  <2> QED BY <2>2, NodeFacts, ReducedCostType DEF Vertices
<1>2. EvalSimple(I, D, pi, f, n) = E
  BY DEF EvalSimple
<1>3. f[n] \in Pairs /\ f[n][1] \in Labels /\ f[n][1].f \in Int
  BY <1>1, LabellingFacts, PairFacts, LabelFacts
<1>4. high \in Labels /\ high.f = Plus(f[n][1].f, rc) /\ high.job = j /\ high.f \in Int
  <2> HIDE DEF j, rc
  <2>1. high \in Labels /\ high.f = Plus(f[n][1].f, rc) /\ high.job = j
    BY <1>1, <1>3, ExtendFacts
  <2> QED BY <2>1, LabelFacts
<1>5. lo = hi => lo = One
  BY ChildrenDiffer
<1> HIDE DEF high, lo, hi, j, rc
<1>6. /\ IsLabelling(D, g)
      /\ \A y \in Vertices(D) : y # hi => g[y] = f[y]
      /\ g[hi][1] \in {high, f[hi][1]}
      /\ g[hi][1].f <= high.f /\ g[hi][1].f <= f[hi][1].f
  BY <1>1, <1>4, BetterFacts
<1> HIDE DEF g
<1>7. /\ IsLabelling(D, E)
      /\ \A y \in Vertices(D) : y # lo => E[y] = g[y]
      /\ E[lo][1] \in {f[n][1], g[lo][1]}
      /\ E[lo][1].f <= f[n][1].f /\ E[lo][1].f <= g[lo][1].f
  BY <1>1, <1>3, <1>6, BetterFacts
<1>8. \A x \in Vertices(D) : /\ f[x] \in Pairs /\ f[x][1].f \in Int
                             /\ g[x] \in Pairs /\ g[x][1].f \in Int
                             /\ (IsLabelling(D, E) => E[x] \in Pairs /\ E[x][1].f \in Int)
  <2> HIDE DEF E
  <2> QED BY <1>6, LabellingFacts, PairFacts, LabelFacts
<1>9. lo # hi /\ lo # One => /\ f[n] = <<Start, NoLabel>> /\ f[lo] = <<Start, NoLabel>> => E[lo] = f[lo]
  <2> SUFFICES ASSUME lo # hi, f[n] = <<Start, NoLabel>>, f[lo] = <<Start, NoLabel>> PROVE E[lo] = f[lo]
    OBVIOUS
  <2>1. g[lo] = f[lo] /\ f[n][1] = g[lo][1] /\ g[lo][1].f \in Int
    BY <1>1, <1>6, <1>8
  <2>2. E = g
    BY <2>1 DEF Better
  <2> QED BY <2>1, <2>2
<1> HIDE DEF E
<1>10. Touches(D, f, n, E)
  BY <1>6, <1>7 DEF Touches, lo, hi
<1>11. \A x \in Vertices(D) : E[x][1].f <= f[x][1].f
  BY <1>1, <1>6, <1>7, <1>8
<1>12. E[lo][1].f <= f[n][1].f /\ E[hi][1].f <= high.f
  BY <1>1, <1>4, <1>6, <1>7, <1>8
<1>13. \A x, k : MayFollow(s, x, k) => k = -1
  BY DEF MayFollow
<1>14. \A x \in Vertices(D), v \in Int : /\ Serves(f[x], v, -1) <=> f[x][1].f <= v
                                         /\ Serves(E[x], v, -1) <=> E[x][1].f <= v
  BY <1>7, <1>8, ServesAny
<1>15. Passes(I, D, pi, s, f, n, E)
  <2>1. ASSUME NEW x \in Vertices(D), NEW v \in Int, Serves(f[x], v, -1) PROVE Serves(E[x], v, -1)
    <3>1. E[x][1].f \in Int /\ f[x][1].f \in Int
      BY <1>7, <1>8
    <3> QED BY <1>11, <1>14, <2>1, <3>1
  <2>2. ASSUME NEW v \in Int, Serves(f[n], v, -1) PROVE Serves(E[lo], v, -1)
    <3>1. E[lo][1].f \in Int /\ f[n][1].f \in Int
      BY <1>1, <1>7, <1>8
    <3> QED BY <1>1, <1>12, <1>14, <2>2, <3>1
  <2>3. ASSUME NEW v \in Int, v < Huge, v + rc < Huge, Serves(f[n], v, -1) PROVE Serves(E[hi], v + rc, -1)
    <3>1. E[hi][1].f \in Int /\ f[n][1].f \in Int /\ v + rc \in Int
      BY <1>1, <1>7, <1>8
    <3>2. high.f <= v + rc
      <4> DEFINE a == f[n][1].f
      <4>1. a <= v /\ a \in Int /\ high.f = Plus(a, rc)
        BY <1>1, <1>4, <1>14, <2>3, <3>1
      <4> HIDE DEF a
      <4>2. Plus(a, rc) <= v + rc
        BY <1>1, <2>3, <4>1, PlusFacts
      <4> QED BY <4>1, <4>2
    <3>3. E[hi][1].f <= v + rc
      BY <1>4, <1>12, <3>1, <3>2
    <3> QED BY <1>1, <1>14, <3>1, <3>3
  <2>4. Key(s, j) = -1
    BY DEF Key
  <2> QED BY <1>13, <2>1, <2>2, <2>3, <2>4 DEF Passes, lo, hi, rc, j
<1>16. Marks(I, D, f, n, E)
  <2>1. hi # One => E[hi][1].job = j \/ E[hi][1] = f[hi][1]
    BY <1>1, <1>4, <1>5, <1>6, <1>7
  <2> QED BY <1>5, <1>9, <2>1 DEF Marks, lo, hi, j
<1> QED BY <1>2, <1>10, <1>15, <1>16

LEMMA JoinStart ==
  ASSUME NEW j \in Nat \ {0}
  PROVE  JoinLow(<<Start, NoLabel>>, <<Start, NoLabel>>, Usable(<<Start, NoLabel>>, j).job) = <<Start, NoLabel>>
<1>1. Start.f = 0 /\ Start.job = 0 /\ NoLabel.f = Huge
  BY DEF Start, NoLabel
<1> DEFINE P == <<Start, NoLabel>>
<1>2. P[1] = Start /\ P[2] = NoLabel
  OBVIOUS
<1> HIDE DEF P
<1>3. Usable(P, j).job = 0
  BY <1>1, <1>2 DEF Usable
<1>4. JoinLow(P, P, 0) = P
  BY <1>1, <1>2 DEF JoinLow, Huge
<1> QED BY <1>3, <1>4 DEF P

LEMMA EvalCycleFacts ==
  ASSUME NEW I, IsInstance(I), NEW D, IsDiagram(I, D), NEW pi, IsDuals(I, pi),
         NEW s, Cyclic(s), NEW f, IsLabelling(D, f), NEW n \in Nodes(D)
  PROVE  /\ Touches(D, f, n, EvalCycle(I, D, pi, f, n))
         /\ Ready(I, D, f, n) => Passes(I, D, pi, s, f, n, EvalCycle(I, D, pi, f, n))
         /\ Marks(I, D, f, n, EvalCycle(I, D, pi, f, n))
<1> DEFINE j == JobAt(I, n)
           rc == ReducedCost(I, pi, n)
           used == Usable(f[n], j)
           high == Extend(used, j, rc)
           lo == D.lo[n]
           hi == D.hi[n]
           A == JoinHigh(f[hi], high, j)
           g == [f EXCEPT ![hi] = A]
           B == JoinLow(g[lo], f[n], used.job)
           E == [g EXCEPT ![lo] = B]
<1>1. n \in Vertices(D) /\ lo \in Vertices(D) /\ hi \in Vertices(D) /\ j \in Nat \ {0} /\ rc \in Int
  <2>1. j \in DOMAIN I.jobs /\ DOMAIN I.jobs = 1 .. Len(I.jobs) /\ Len(I.jobs) \in Nat
    BY NodeFacts, InstanceFacts
  <2>2. j \in Nat \ {0}
    BY <2>1
  <2> QED BY <2>2, NodeFacts, ReducedCostType DEF Vertices
<1>2. EvalCycle(I, D, pi, f, n) = E
  BY DEF EvalCycle
<1>3. f[n] \in Pairs /\ f[hi] \in Pairs /\ f[lo] \in Pairs
  BY <1>1, LabellingFacts
<1>4. used \in Labels /\ \A v \in Int : Serves(f[n], v, j) => used.f <= v
  BY <1>3, UsableServes
<1>5. high \in Labels /\ high.f = Plus(used.f, rc) /\ high.job = j
  <2> HIDE DEF j, rc, used
  <2> QED BY <1>1, <1>4, ExtendFacts
<1>6. lo = hi => lo = One
  BY ChildrenDiffer
<1>7. Ready(I, D, f, n) =>
        \/ lo = One
        \/ f[lo] = <<Start, NoLabel>> /\ f[n] = f[lo]
        \/ f[lo][1].job \in {0, j} /\ (f[lo][1].job = 0 => f[lo][1].f = Huge)
  BY DEF Ready
<1>8. used.job = Usable(f[n], j).job
  OBVIOUS
<1> HIDE DEF high, lo, hi, j, rc, used
<1>9. /\ A \in Pairs /\ A[1] \in {f[hi][1], high}
      /\ \A v \in Int, k \in Int : Serves(f[hi], v, k) => Serves(A, v, k)
      /\ \A v \in Int, k \in Int : high.f <= v /\ k # j => Serves(A, v, k)
  BY <1>3, <1>5, JoinHighServes
<1> HIDE DEF A
<1>10. IsLabelling(D, g) /\ g[hi] = A /\ \A x \in Vertices(D) : x # hi => g[x] = f[x]
  BY <1>1, <1>9 DEF IsLabelling
<1>11. g[lo] \in Pairs
  BY <1>1, <1>10, LabellingFacts
<1> HIDE DEF g
<1>12. /\ B \in Pairs
       /\ \A v \in Int, k \in Int :
            /\ v < Huge /\ k # 0
            /\ k = -1 \/ (g[lo][1].job \in {0, j} /\ (g[lo][1].job = 0 => g[lo][1].f = Huge))
            => /\ Serves(g[lo], v, k) => Serves(B, v, k)
               /\ Serves(f[n], v, k) => Serves(B, v, k)
  <2>1. j \in Nat
    BY <1>1
  <2> QED BY <1>3, <1>8, <1>11, <2>1, JoinLowServes
<1>13. lo # hi /\ f[lo] = <<Start, NoLabel>> /\ f[n] = f[lo] => B = f[lo]
  <2>1. lo # hi => g[lo] = f[lo]
    BY <1>1, <1>10
  <2> QED BY <1>1, <1>8, <2>1, JoinStart
<1> HIDE DEF B
<1>14. IsLabelling(D, E) /\ E[lo] = B /\ \A x \in Vertices(D) : x # lo => E[x] = g[x]
  BY <1>1, <1>10, <1>12 DEF IsLabelling
<1> HIDE DEF E
<1>15. Touches(D, f, n, E)
  BY <1>10, <1>14 DEF Touches, lo, hi
<1>16. Ready(I, D, f, n) => \A v \in Int : \A k : v < Huge /\ MayFollow(s, lo, k) =>
         /\ Serves(g[lo], v, k) => Serves(E[lo], v, k)
         /\ Serves(f[n], v, k) => Serves(E[lo], v, k)
  <2> SUFFICES ASSUME Ready(I, D, f, n), NEW v \in Int, NEW k, v < Huge, MayFollow(s, lo, k)
               PROVE  /\ Serves(g[lo], v, k) => Serves(B, v, k)
                      /\ Serves(f[n], v, k) => Serves(B, v, k)
    BY <1>14
  <2>1. k \in Int /\ k # 0 /\ (lo = One => k = -1)
    BY DEF MayFollow
  <2>2. CASE lo = One
    BY <1>12, <2>1, <2>2
  <2>3. CASE lo # One
    <3>1. g[lo] = f[lo] /\ lo # hi
      BY <1>1, <1>6, <1>10, <2>3
    <3>2. CASE f[lo] = <<Start, NoLabel>> /\ f[n] = f[lo]
      <4>1. B = f[lo] /\ B = g[lo] /\ B = f[n]
        BY <1>13, <3>1, <3>2
      <4> QED BY <4>1
    <3>3. CASE f[lo][1].job \in {0, j} /\ (f[lo][1].job = 0 => f[lo][1].f = Huge)
      BY <1>12, <2>1, <3>1, <3>3
    <3> QED BY <1>7, <2>3, <3>2, <3>3
  <2> QED BY <2>2, <2>3
<1>17. \A v \in Int, k \in Int : Serves(f[hi], v, k) => Serves(g[hi], v, k)
  BY <1>9, <1>10
<1>18. ASSUME Ready(I, D, f, n) PROVE Passes(I, D, pi, s, f, n, E)
  <2>1. ASSUME NEW x \in Vertices(D), NEW v \in Int, NEW k \in Int, v < Huge, MayFollow(s, x, k), Serves(f[x], v, k)
        PROVE  Serves(E[x], v, k)
    <3>1. Serves(g[x], v, k)
      BY <1>10, <1>17, <2>1
    <3>2. CASE x = lo
      BY <1>16, <1>18, <2>1, <3>1, <3>2
    <3>3. CASE x # lo
      BY <1>14, <3>1, <3>3
    <3> QED BY <3>2, <3>3
  <2>2. ASSUME NEW v \in Int, NEW k \in Int, v < Huge, MayFollow(s, lo, k), Serves(f[n], v, k)
        PROVE  Serves(E[lo], v, k)
    BY <1>16, <1>18, <2>2
  <2>3. ASSUME NEW v \in Int, NEW k \in Int, v < Huge, v + rc < Huge, MayFollow(s, hi, k), k # j, Serves(f[n], v, j)
        PROVE  Serves(E[hi], v + rc, k)
    <3>1. used.f <= v /\ used.f \in Int
      BY <1>4, <2>3, LabelFacts
    <3> DEFINE a == used.f
               w == v + rc
    <3>2. high.f <= w
      <4>1. a \in Int /\ a <= v /\ high.f = Plus(a, rc)
        BY <1>5, <3>1
      <4> HIDE DEF a
      <4> QED BY <1>1, <2>3, <4>1, PlusFacts
    <3>3. w \in Int /\ w < Huge
      BY <1>1, <2>3
    <3> HIDE DEF w
    <3>4. Serves(g[hi], w, k)
      BY <1>9, <1>10, <2>3, <3>2, <3>3
    <3>5. Serves(E[hi], w, k)
      <4>1. CASE hi = lo
        BY <1>16, <1>18, <2>3, <3>3, <3>4, <4>1
      <4>2. CASE hi # lo
        BY <1>1, <1>14, <3>4, <4>2
      <4> QED BY <4>1, <4>2
    <3> QED BY <3>5 DEF w
  <2>4. Key(s, j) = j
    BY DEF Key
  <2> QED BY <2>1, <2>2, <2>3, <2>4 DEF Passes, lo, hi, rc, j
<1>19. Marks(I, D, f, n, E)
  <2>1. hi # One => E[hi][1].job = j \/ E[hi][1] = f[hi][1]
    <3>1. hi # One => hi # lo
      BY <1>6
    <3>2. hi # lo => E[hi] = A
      BY <1>1, <1>10, <1>14
    <3> QED BY <1>5, <1>9, <3>1, <3>2
  <2>2. lo # One /\ f[n] = <<Start, NoLabel>> /\ f[lo] = <<Start, NoLabel>> => E[lo] = f[lo]
    BY <1>6, <1>13, <1>14
  <2> QED BY <2>1, <2>2 DEF Marks, lo, hi, j
<1> QED BY <1>2, <1>15, <1>18, <1>19

LEMMA EvalFacts ==
  ASSUME NEW I, IsInstance(I), NEW D, IsDiagram(I, D), NEW pi, IsDuals(I, pi),
         NEW s, NEW f, IsLabelling(D, f), NEW n \in Nodes(D)
  PROVE  /\ Touches(D, f, n, Eval(I, D, pi, s, f, n))
         /\ Ready(I, D, f, n) => Passes(I, D, pi, s, f, n, Eval(I, D, pi, s, f, n))
         /\ Marks(I, D, f, n, Eval(I, D, pi, s, f, n))
<1>1. CASE Cyclic(s)
  <2>1. Eval(I, D, pi, s, f, n) = EvalCycle(I, D, pi, f, n)
    BY <1>1 DEF Eval
  <2> QED BY <1>1, <2>1, EvalCycleFacts
<1>2. CASE ~Cyclic(s)
  <2>1. Eval(I, D, pi, s, f, n) = EvalSimple(I, D, pi, f, n)
    BY <1>2 DEF Eval
  <2> QED BY <1>2, <2>1, EvalSimpleFacts
<1> QED BY <1>1, <1>2

--------------------------------------------------------------------------------
(* The forward pass. *)

\* The nodes the pass has done when it is at time t of row l, the next.
Passed(D, l, t) == {n \in Nodes(D) : n[1] < l \/ (n[1] = l /\ n[2] < t)}

\* The labels of nodes at time 0 begin a path, and a node that is still to be done has its
\* low child ready.
IsReady(I, D, f, P) ==
  /\ \A n \in Nodes(D) : n[2] = 0 => f[n] = <<Start, NoLabel>>
  /\ \A n \in Nodes(D) \ P : Ready(I, D, f, n)

\* What a node has of a path, the path's next job being k, its children have.
IsPassedOn(I, D, pi, s, f, P) ==
  \A n \in P, v \in Int, k \in Int : v < Huge =>
    /\ MayFollow(s, D.lo[n], k) /\ Serves(f[n], v, k) => Serves(f[D.lo[n]], v, k)
    /\ /\ v + ReducedCost(I, pi, n) < Huge /\ MayFollow(s, D.hi[n], k) /\ k # JobAt(I, n)
       /\ Serves(f[n], v, Key(s, JobAt(I, n)))
       => Serves(f[D.hi[n]], v + ReducedCost(I, pi, n), k)

\* The order is one: nothing a node leads to was done before it or in its row.
IsBefore(D, P, n) ==
  /\ P \subseteq Nodes(D) /\ n \in Nodes(D) \ P
  /\ \A u \in P : u[1] <= n[1]
  /\ \A u \in Nodes(D) \ P : n[1] <= u[1]

LEMMA StepIsReady ==
  ASSUME NEW I, IsInstance(I), NEW D, IsDiagram(I, D), Skips(I, D), NEW pi, IsDuals(I, pi), NEW s,
         NEW f, IsLabelling(D, f), NEW P, NEW n, IsBefore(D, P, n), IsReady(I, D, f, P)
  PROVE  IsReady(I, D, Eval(I, D, pi, s, f, n), P \cup {n})
<1> DEFINE E == Eval(I, D, pi, s, f, n)
<1>1. n \in Nodes(D) /\ \A u \in Nodes(D) \ P : n[1] <= u[1]
  BY DEF IsBefore
<1>2. Touches(D, f, n, E) /\ Marks(I, D, f, n, E)
  BY <1>1, EvalFacts
<1> HIDE DEF E
<1>3. \A u \in Nodes(D) : /\ u \in Vertices(D) /\ u # One
                          /\ u[1] \in Int /\ u[2] \in Nat /\ Length(I, u) \in Nat \ {0}
                          /\ JobAt(I, u) \in Int /\ JobAt(I, u) # 0
                          /\ D.lo[u] \in Vertices(D) /\ D.hi[u] \in Vertices(D)
  <2> SUFFICES ASSUME NEW u \in Nodes(D)
               PROVE  /\ u \in Vertices(D) /\ u # One
                      /\ u[1] \in Int /\ u[2] \in Nat /\ Length(I, u) \in Nat \ {0}
                      /\ JobAt(I, u) \in Int /\ JobAt(I, u) # 0
                      /\ D.lo[u] \in Vertices(D) /\ D.hi[u] \in Vertices(D)
    OBVIOUS
  <2>1. JobAt(I, u) \in DOMAIN I.jobs /\ DOMAIN I.jobs = 1 .. Len(I.jobs) /\ Len(I.jobs) \in Nat
    BY NodeFacts, InstanceFacts
  <2>2. JobAt(I, u) \in Int /\ JobAt(I, u) # 0
    BY <2>1
  <2> QED BY <2>2, NodeFacts DEF Vertices
<1>4. \A u \in Nodes(D) : /\ D.lo[u] # One => u[1] < D.lo[u][1] /\ D.lo[u][2] = u[2]
                          /\ D.hi[u] # One => u[1] < D.hi[u][1] /\ D.hi[u][2] = u[2] + Length(I, u)
  BY DEF IsDiagram
<1>5. ASSUME NEW x \in Nodes(D), x[2] = 0 PROVE E[x] = <<Start, NoLabel>> /\ f[x] = E[x]
  <2>1. f[x] = <<Start, NoLabel>>
    BY <1>5 DEF IsReady
  <2>2. x # D.hi[n]
    <3> SUFFICES ASSUME x = D.hi[n] PROVE FALSE
      OBVIOUS
    <3>1. x[2] = n[2] + Length(I, n)
      BY <1>1, <1>3, <1>4, <1>5
    <3> DEFINE a == n[2]
               b == Length(I, n)
    <3>2. a \in Nat /\ b \in Nat \ {0} /\ a + b = 0
      BY <1>1, <1>3, <1>5, <3>1
    <3> HIDE DEF a, b
    <3> QED BY <3>2
  <2>3. CASE x # D.lo[n]
    BY <1>2, <1>3, <2>1, <2>2, <2>3 DEF Touches
  <2>4. CASE x = D.lo[n]
    <3>1. D.lo[n] # One /\ n[2] = 0
      BY <1>1, <1>3, <1>4, <1>5, <2>4
    <3>2. f[n] = <<Start, NoLabel>>
      BY <1>1, <3>1 DEF IsReady
    <3> QED BY <1>2, <2>1, <2>4, <3>1, <3>2 DEF Marks
  <2> QED BY <2>1, <2>3, <2>4
<1>6. ASSUME NEW u \in Nodes(D) \ (P \cup {n}) PROVE Ready(I, D, E, u)
  <2> DEFINE x == D.lo[u]
  <2>0. u \in Nodes(D) /\ x \in Vertices(D) /\ n[1] <= u[1] /\ u # n
    BY <1>1, <1>3, <1>6
  <2> HIDE DEF x
  <2>1. CASE x = One
    BY <2>1 DEF Ready, x
  <2>2. CASE x # One /\ u[2] = 0
    <3>1. x \in Nodes(D) /\ x[2] = 0
      BY <1>4, <2>0, <2>2 DEF Vertices, x
    <3>2. E[x] = <<Start, NoLabel>> /\ E[u] = <<Start, NoLabel>>
      BY <1>5, <2>0, <2>2, <3>1
    <3> QED BY <2>2, <3>2 DEF Ready, x
  <2>3. CASE x # One /\ u[2] # 0
    <3>1. f[x][1].job \in {0, JobAt(I, u)} /\ (f[x][1].job = 0 => f[x][1].f = Huge)
      <4>1. Ready(I, D, f, u)
        BY <1>6 DEF IsReady
      <4> QED BY <2>3, <4>1 DEF Ready, x
    <3>2. /\ x[2] = u[2] /\ u[1] < x[1] /\ x[1] \in Int /\ u[1] \in Int /\ n[1] \in Int
          /\ n[1] = u[1] \/ n[1] < u[1]
      <4>1. x \in Nodes(D)
        BY <2>0, <2>3 DEF Vertices
      <4>2. x[2] = u[2] /\ u[1] < x[1]
        BY <1>4, <2>0, <2>3 DEF x
      <4> QED BY <1>1, <1>3, <2>0, <4>1, <4>2
    <3>3. x # D.lo[n]
      <4> SUFFICES ASSUME x = D.lo[n] PROVE FALSE
        OBVIOUS
      <4>1. u[2] = n[2]
        BY <1>1, <1>4, <2>3, <3>2
      <4>2. n[1] # u[1]
        <5>1. u = <<u[1], u[2]>> /\ n = <<n[1], n[2]>>
          BY <1>1, <2>0, NodeFacts
        <5> QED BY <2>0, <4>1, <5>1
      <4>3. D.lo[n][1] <= u[1]
        BY <1>1, <2>0, <3>2, <4>1, <4>2 DEF Skips
      <4> QED BY <3>2, <4>3
    <3>4. CASE x = D.hi[n]
      <4>1. JobAt(I, n) = JobAt(I, u)
        <5>1. CASE n[1] = u[1]
          BY <5>1 DEF JobAt
        <5>2. CASE n[1] < u[1] /\ JobAt(I, n) # JobAt(I, u)
          <6>1. u[2] = n[2] + Length(I, n)
            BY <1>1, <1>4, <2>3, <3>2, <3>4
          <6>2. D.hi[n][1] <= u[1]
            BY <1>1, <2>0, <5>2, <6>1 DEF Skips
          <6> QED BY <3>2, <3>4, <6>2
        <5> QED BY <3>2, <5>1, <5>2
      <4>2. E[x][1].job = JobAt(I, n) \/ E[x][1] = f[x][1]
        BY <1>2, <2>3, <3>4 DEF Marks
      <4> QED BY <1>3, <2>0, <3>1, <4>1, <4>2 DEF Ready, x
    <3>5. CASE x # D.hi[n]
      <4>1. E[x] = f[x]
        BY <1>2, <2>0, <3>3, <3>5 DEF Touches
      <4> QED BY <3>1, <4>1 DEF Ready, x
    <3> QED BY <3>4, <3>5
  <2> QED BY <2>0, <2>1, <2>2, <2>3
<1> QED BY <1>5, <1>6 DEF IsReady, E

LEMMA StepPassesOn ==
  ASSUME NEW I, IsInstance(I), NEW D, IsDiagram(I, D), NEW pi, IsDuals(I, pi), NEW s,
         NEW f, IsLabelling(D, f), NEW P, NEW n, IsBefore(D, P, n), IsReady(I, D, f, P),
         IsPassedOn(I, D, pi, s, f, P)
  PROVE  IsPassedOn(I, D, pi, s, Eval(I, D, pi, s, f, n), P \cup {n})
<1> DEFINE E == Eval(I, D, pi, s, f, n)
<1>1. n \in Nodes(D) /\ n \notin P /\ P \subseteq Nodes(D) /\ \A u \in P : u[1] <= n[1]
  BY DEF IsBefore
<1>2. Touches(D, f, n, E) /\ Passes(I, D, pi, s, f, n, E)
  <2>1. Ready(I, D, f, n)
    BY <1>1 DEF IsReady
  <2> QED BY <1>1, <2>1, EvalFacts
<1> HIDE DEF E
<1>3. ASSUME NEW u \in P \cup {n} PROVE E[u] = f[u] /\ D.lo[u] \in Vertices(D) /\ D.hi[u] \in Vertices(D)
  <2>1. /\ u \in Nodes(D) /\ u \in Vertices(D) /\ u # One /\ D.lo[u] \in Vertices(D) /\ D.hi[u] \in Vertices(D)
        /\ u[1] \in Int /\ n[1] \in Int
    BY <1>1, NodeFacts DEF Vertices
  <2>2. u[1] <= n[1]
    BY <1>1, <2>1
  <2>3. /\ D.lo[n] # One => n[1] < D.lo[n][1]
        /\ D.hi[n] # One => n[1] < D.hi[n][1]
    BY <1>1 DEF IsDiagram
  <2>4. u # D.lo[n] /\ u # D.hi[n]
    BY <2>1, <2>2, <2>3
  <2> QED BY <1>2, <2>1, <2>4 DEF Touches
<1>4. ASSUME NEW u \in P \cup {n}, NEW v \in Int, NEW k \in Int, v < Huge,
             MayFollow(s, D.lo[u], k), Serves(E[u], v, k)
      PROVE  Serves(E[D.lo[u]], v, k)
  <2>1. CASE u = n
    BY <1>2, <1>3, <1>4, <2>1 DEF Passes
  <2>2. CASE u \in P
    <3>1. Serves(f[D.lo[u]], v, k)
      BY <1>3, <1>4, <2>2 DEF IsPassedOn
    <3> QED BY <1>2, <1>3, <1>4, <3>1 DEF Passes
  <2> QED BY <2>1, <2>2
<1>5. ASSUME NEW u \in P \cup {n}, NEW v \in Int, NEW k \in Int, v < Huge, v + ReducedCost(I, pi, u) < Huge,
             MayFollow(s, D.hi[u], k), k # JobAt(I, u), Serves(E[u], v, Key(s, JobAt(I, u)))
      PROVE  Serves(E[D.hi[u]], v + ReducedCost(I, pi, u), k)
  <2>1. CASE u = n
    BY <1>2, <1>3, <1>5, <2>1 DEF Passes
  <2>2. CASE u \in P
    <3>1. Serves(f[D.hi[u]], v + ReducedCost(I, pi, u), k)
      BY <1>3, <1>5, <2>2 DEF IsPassedOn
    <3>2. v + ReducedCost(I, pi, u) \in Int
      <4>1. ReducedCost(I, pi, u) \in Int
        BY <1>1, <2>2, ReducedCostType
      <4> QED BY <1>5, <4>1
    <3> QED BY <1>2, <1>3, <1>5, <3>1, <3>2 DEF Passes
  <2> QED BY <2>1, <2>2
<1> QED BY <1>4, <1>5 DEF IsPassedOn, E

\* The labels stored from an earlier pass.
IsStored(D, old) == old \in [Nodes(D) -> Pairs]

LEMMA StartFacts ==
  ASSUME NEW I, IsInstance(I), NEW D, IsDiagram(I, D), NEW old, IsStored(D, old)
  PROVE  IsLabelling(D, ForwardStart(D, old)) /\ IsReady(I, D, ForwardStart(D, old), {})
<1> DEFINE f == ForwardStart(D, old)
<1>0. <<Start, NoLabel>> \in Pairs /\ <<NoLabel, NoLabel>> \in Pairs
  BY NoLabels, MakePair
<1>1. \A x \in Vertices(D) : Fresh(x) \in Pairs
  BY <1>0 DEF Fresh
<1>2. IsLabelling(D, f)
  <2>1. \A x \in Vertices(D) : (IF x \in Rowmates(D) THEN old[x] ELSE Fresh(x)) \in Pairs
    BY <1>1 DEF IsStored, Rowmates
  <2> QED BY <2>1 DEF IsLabelling, ForwardStart, Vertices
<1>3. \A x \in Vertices(D) : x \notin Rowmates(D) => f[x] = Fresh(x)
  BY DEF ForwardStart, Vertices
<1> HIDE DEF f
<1>4. ASSUME NEW x \in Nodes(D), x[2] = 0 PROVE f[x] = <<Start, NoLabel>>
  <2>1. x = <<x[1], x[2]>> /\ x # One /\ D.root # One /\ D.root[2] = 0 /\ D.root \in Nodes(D)
    BY NodeFacts DEF IsDiagram, Vertices
  <2>2. D.root = <<D.root[1], D.root[2]>>
    BY <2>1, NodeFacts
  <2>3. x \notin Rowmates(D)
    BY <1>4, <2>1, <2>2 DEF Rowmates
  <2> QED BY <1>3, <1>4, <2>1, <2>3 DEF Fresh, Vertices
<1>5. ASSUME NEW n \in Nodes(D) PROVE Ready(I, D, f, n)
  <2> DEFINE x == D.lo[n]
  <2>1. /\ D.root # One /\ D.root[1] <= n[1] /\ n[1] \in Int /\ D.root[1] \in Int
        /\ x # One => n[1] < x[1] /\ x[2] = n[2] /\ x \in Nodes(D) /\ x[1] \in Int
    <3>1. D.root # One /\ D.root[1] <= n[1] /\ D.root \in Nodes(D) /\ x \in Vertices(D)
      BY NodeFacts DEF IsDiagram, Vertices
    <3>2. n[1] \in Int /\ D.root[1] \in Int
      BY <3>1, NodeFacts
    <3>3. x # One => x \in Nodes(D) /\ x[1] \in Int
      BY <3>1, NodeFacts DEF Vertices
    <3> QED BY <3>1, <3>2, <3>3 DEF IsDiagram
  <2> HIDE DEF x
  <2>2. CASE x = One
    BY <2>2 DEF Ready, x
  <2>3. CASE x # One /\ n[2] = 0
    <3>1. f[x] = <<Start, NoLabel>> /\ f[n] = <<Start, NoLabel>>
      BY <1>4, <2>1, <2>3
    <3> QED BY <2>3, <3>1 DEF Ready, x
  <2>4. CASE x # One /\ n[2] # 0
    <3>1. x \notin Rowmates(D)
      BY <2>1, <2>4 DEF Rowmates
    <3>2. f[x] = <<NoLabel, NoLabel>>
      BY <1>3, <2>1, <2>4, <3>1 DEF Fresh, Vertices
    <3>3. f[x][1] = NoLabel
      BY <3>2
    <3> QED BY <3>3 DEF Ready, x, NoLabel
  <2> QED BY <2>2, <2>3, <2>4
<1> QED BY <1>2, <1>4, <1>5 DEF IsReady, f

\* The pass through a row, and through all, one step after the other.
RowStep(I, D, pi, s, l, g, t) == IF <<l, t>> \in Nodes(D) THEN Eval(I, D, pi, s, g, <<l, t>>) ELSE g
IsRowPass(I, D, pi, s, f, l, A) ==
  A[0] = f /\ \A k \in 1 .. Horizon(I) + 1 : A[k] = RowStep(I, D, pi, s, l, A[k - 1], k - 1)
IsForwardPass(I, D, pi, s, old, A) ==
  A[0] = ForwardStart(D, old) /\ \A l \in 1 .. Len(I.layers) : A[l] = ForwardRow(I, D, pi, s, A[l - 1], l)

LEMMA RowIsPass ==
  ASSUME NEW I, IsInstance(I), NEW D, IsDiagram(I, D), NEW pi, IsDuals(I, pi), NEW s,
         NEW base, IsLabelling(D, base), NEW l
  PROVE  \E A : IsRowPass(I, D, pi, s, base, l, A) /\ ForwardRow(I, D, pi, s, base, l) = A[Horizon(I) + 1]
<1> DEFINE n == Horizon(I) + 1
           V == [Vertices(D) -> Pairs]
           at == Times(I)
           Step(h, t) == RowStep(I, D, pi, s, l, h, t)
           g == [k \in 1 .. n |-> [h \in V |-> Step(h, at[k])]]
           IsIter(f) == f = [T \in SUBSET (1 .. n) |-> IF T = {} THEN base
                               ELSE Step(f[T \ {Max(T)}], at[Max(T)])]
           iter == CHOOSE f : IsIter(f)
<1>1. n \in Nat /\ DOMAIN at = 1 .. n /\ \A k \in 1 .. n : at[k] = k - 1
  BY InstanceFacts DEF Times
<1> HIDE DEF at
<1>2. g \in [1 .. n -> [V -> V]] /\ base \in V
  <2>1. ASSUME NEW t, NEW h \in V PROVE Step(h, t) \in V
    <3>1. CASE <<l, t>> \in Nodes(D)
      <4>1. IsLabelling(D, h)
        BY DEF IsLabelling
      <4>2. Touches(D, h, <<l, t>>, Eval(I, D, pi, s, h, <<l, t>>))
        BY <3>1, <4>1, EvalFacts
      <4> QED BY <3>1, <4>2 DEF Touches, IsLabelling, RowStep
    <3>2. CASE <<l, t>> \notin Nodes(D)
      BY <3>2 DEF RowStep
    <3> QED BY <3>1, <3>2
  <2>2. base \in V
    BY DEF IsLabelling
  <2> HIDE DEF V, n, Step
  <2> QED BY <2>1, <2>2
<1>3. PICK f \in [SUBSET (1 .. n) -> V] : IsPass(f, n, base, g)
  <2> HIDE DEF g, V, n
  <2> QED BY <1>1, <1>2, PassIsDefined
<1>4. ASSUME NEW T \in SUBSET (1 .. n), T # {} PROVE Max(T) \in 1 .. n /\ T \ {Max(T)} \in SUBSET (1 .. n)
  <2>1. Max(T) \in T
    BY <1>1, <1>4, LastOfPart
  <2> QED BY <2>1
<1>5. ASSUME NEW T \in SUBSET (1 .. n)
      PROVE f[T] = IF T = {} THEN base ELSE Step(f[T \ {Max(T)}], at[Max(T)])
  <2>1. f[T] = IF T = {} THEN base ELSE g[Max(T)][f[T \ {Max(T)}]]
    BY <1>3 DEF IsPass
  <2>2. ASSUME T # {}
        PROVE  g[Max(T)][f[T \ {Max(T)}]] = Step(f[T \ {Max(T)}], at[Max(T)])
    <3>1. Max(T) \in 1 .. n /\ f[T \ {Max(T)}] \in V
      BY <1>1, <1>3, <1>4, <2>2
    <3> HIDE DEF V, n, Step
    <3> QED BY <3>1
  <2> HIDE DEF Step, g
  <2> QED BY <2>1, <2>2
<1>6. IsIter(f)
  <2>1. f = [T \in SUBSET (1 .. n) |-> f[T]]
    BY <1>3
  <2> HIDE DEF n, V, Step
  <2> QED BY <2>1, <1>5, Zenon
<1>7. IsIter(iter)
  BY <1>6
<1>8. ForwardRow(I, D, pi, s, base, l) = iter[1 .. n]
  BY <1>1 DEF ForwardRow, RowStep, FoldLeft, MapThenFoldSet, at
<1> DEFINE A == [k \in 0 .. n |-> iter[1 .. k]]
<1>9. A[0] = base
  <2>1. 1 .. 0 = {} /\ {} \in SUBSET (1 .. n) /\ 0 \in 0 .. n
    BY <1>1
  <2>2. iter[{}] = base
    BY <1>7, <2>1
  <2> QED BY <2>1, <2>2
<1>10. ASSUME NEW i \in 1 .. n PROVE A[i] = Step(A[i - 1], i - 1)
  <2>0. i - 1 \in 0 .. n - 1 /\ i - 1 \in 0 .. n /\ i \in 0 .. n /\ (i - 1) + 1 = i
    BY <1>1
  <2> DEFINE k == i - 1
  <2>1. /\ 1 .. k + 1 \in SUBSET (1 .. n) /\ 1 .. k + 1 # {}
        /\ Max(1 .. k + 1) = k + 1 /\ (1 .. k + 1) \ {k + 1} = 1 .. k
    <3>1. k \in 0 .. n - 1
      BY <2>0
    <3> HIDE DEF k, n
    <3> QED BY <1>1, <3>1, LastOfInterval
  <2>2. at[i] = i - 1
    BY <1>1
  <2>3. ASSUME NEW T \in SUBSET (1 .. n), T # {}
        PROVE  iter[T] = Step(iter[T \ {Max(T)}], at[Max(T)])
    <3> HIDE DEF iter, Step
    <3> QED BY <1>7, <2>3
  <2>4. iter[1 .. i] = Step(iter[1 .. i - 1], i - 1)
    <3>1. k + 1 = i
      BY <2>0
    <3>2. iter[1 .. k + 1] = Step(iter[(1 .. k + 1) \ {k + 1}], at[k + 1])
      <4> HIDE DEF iter, k, Step
      <4> QED BY <2>1, <2>3
    <3> HIDE DEF iter, Step
    <3> QED BY <2>1, <2>2, <3>1, <3>2
  <2> HIDE DEF iter, Step
  <2> QED BY <2>0, <2>4
<1>11. IsRowPass(I, D, pi, s, base, l, A) /\ A[n] = iter[1 .. n]
  <2>1. n \in 0 .. n
    BY <1>1
  <2> HIDE DEF iter
  <2>2. A[n] = iter[1 .. n]
    BY <2>1
  <2> HIDE DEF A
  <2> QED BY <1>9, <1>10, <2>2 DEF IsRowPass
<1> QED BY <1>8, <1>11

\* What holds between two steps.
IsLabelled(I, D, pi, s, f, P) == IsReady(I, D, f, P) /\ IsPassedOn(I, D, pi, s, f, P)

LEMMA PassedGrows ==
  ASSUME NEW I, IsInstance(I), NEW D, IsDiagram(I, D), NEW l \in Nat, NEW t \in Nat
  PROVE  /\ <<l, t>> \in Nodes(D) => /\ Passed(D, l, t + 1) = Passed(D, l, t) \cup {<<l, t>>}
                                     /\ IsBefore(D, Passed(D, l, t), <<l, t>>)
         /\ <<l, t>> \notin Nodes(D) => Passed(D, l, t + 1) = Passed(D, l, t)
<1>1. \A n \in Nodes(D) : n = <<n[1], n[2]>> /\ n[1] \in 1 .. Len(I.layers) /\ n[2] \in 0 .. Horizon(I)
  BY NodeFacts
<1>2. Len(I.layers) \in Nat /\ Horizon(I) \in Nat
  BY InstanceFacts
<1>3. ASSUME NEW n \in Nodes(D) PROVE n[2] < t + 1 <=> n[2] < t \/ n[2] = t
  BY <1>1, <1>2
<1>4. Passed(D, l, t + 1) = Passed(D, l, t) \cup {n \in Nodes(D) : n[1] = l /\ n[2] = t}
  BY <1>3 DEF Passed
<1>5. \A n \in Nodes(D) : n[1] = l /\ n[2] = t <=> n = <<l, t>>
  BY <1>1
<1>6. <<l, t>> \in Nodes(D) => Passed(D, l, t + 1) = Passed(D, l, t) \cup {<<l, t>>}
  BY <1>4, <1>5
<1>7. <<l, t>> \notin Nodes(D) => Passed(D, l, t + 1) = Passed(D, l, t)
  BY <1>4, <1>5
<1>8. ASSUME <<l, t>> \in Nodes(D) PROVE IsBefore(D, Passed(D, l, t), <<l, t>>)
  <2> DEFINE n == <<l, t>>
  <2>1. n[1] = l /\ n[2] = t
    OBVIOUS
  <2> HIDE DEF n
  <2>2. \A u \in Passed(D, l, t) : u \in Nodes(D) /\ u[1] <= l
    BY <1>1 DEF Passed
  <2>3. \A u \in Nodes(D) : u \notin Passed(D, l, t) => l <= u[1]
    BY <1>1 DEF Passed
  <2>4. n \notin Passed(D, l, t)
    BY <2>1 DEF Passed
  <2> QED BY <1>8, <2>1, <2>2, <2>3, <2>4 DEF IsBefore, n
<1> QED BY <1>6, <1>7, <1>8

LEMMA PassedRows ==
  ASSUME NEW I, IsInstance(I), NEW D, IsDiagram(I, D), NEW l \in Nat
  PROVE  /\ Passed(D, l, Horizon(I) + 1) = Passed(D, l + 1, 0)
         /\ Passed(D, 1, 0) = {} /\ Passed(D, Len(I.layers) + 1, 0) = Nodes(D)
<1>1. \A n \in Nodes(D) : n[1] \in 1 .. Len(I.layers) /\ n[2] \in 0 .. Horizon(I)
  BY NodeFacts
<1>2. Len(I.layers) \in Nat /\ Horizon(I) \in Nat
  BY InstanceFacts
<1>3. Passed(D, l, Horizon(I) + 1) = Passed(D, l + 1, 0)
  <2>1. \A n \in Nodes(D) : (n[1] < l \/ (n[1] = l /\ n[2] < Horizon(I) + 1)) <=> (n[1] < l + 1 \/ (n[1] = l + 1 /\ n[2] < 0))
    BY <1>1, <1>2
  <2> QED BY <2>1 DEF Passed
<1>4. Passed(D, 1, 0) = {} /\ Passed(D, Len(I.layers) + 1, 0) = Nodes(D)
  <2>1. \A n \in Nodes(D) : ~(n[1] < 1 \/ (n[1] = 1 /\ n[2] < 0))
    BY <1>1, <1>2
  <2>2. \A n \in Nodes(D) : n[1] < Len(I.layers) + 1
    BY <1>1, <1>2
  <2> QED BY <2>1, <2>2 DEF Passed
<1> QED BY <1>3, <1>4

LEMMA RowStepFacts ==
  ASSUME NEW I, IsInstance(I), NEW D, IsDiagram(I, D), NEW pi, IsDuals(I, pi), NEW s,
         NEW f, IsLabelling(D, f), NEW l \in Nat, NEW t \in Nat
  PROVE  /\ IsLabelling(D, RowStep(I, D, pi, s, l, f, t))
         /\ Skips(I, D) /\ IsLabelled(I, D, pi, s, f, Passed(D, l, t))
              => IsLabelled(I, D, pi, s, RowStep(I, D, pi, s, l, f, t), Passed(D, l, t + 1))
<1>1. CASE <<l, t>> \notin Nodes(D)
  <2>1. RowStep(I, D, pi, s, l, f, t) = f
    BY <1>1 DEF RowStep
  <2> QED BY <1>1, <2>1, PassedGrows
<1>2. CASE <<l, t>> \in Nodes(D)
  <2> DEFINE n == <<l, t>>
             P == Passed(D, l, t)
  <2>1. RowStep(I, D, pi, s, l, f, t) = Eval(I, D, pi, s, f, n)
    BY <1>2 DEF RowStep
  <2>2. Passed(D, l, t + 1) = P \cup {n} /\ IsBefore(D, P, n)
    BY <1>2, PassedGrows
  <2> HIDE DEF n, P
  <2>3. Touches(D, f, n, Eval(I, D, pi, s, f, n))
    BY <1>2, EvalFacts DEF n
  <2>4. ASSUME Skips(I, D), IsReady(I, D, f, P), IsPassedOn(I, D, pi, s, f, P)
        PROVE  IsLabelled(I, D, pi, s, Eval(I, D, pi, s, f, n), P \cup {n})
    BY <2>2, <2>4, StepIsReady, StepPassesOn DEF IsLabelled
  <2> QED BY <2>1, <2>2, <2>3, <2>4 DEF IsLabelled, Touches, P
<1> QED BY <1>1, <1>2

LEMMA RowFacts ==
  ASSUME NEW I, IsInstance(I), NEW D, IsDiagram(I, D), NEW pi, IsDuals(I, pi), NEW s,
         NEW f, IsLabelling(D, f), NEW l \in Nat
  PROVE  /\ IsLabelling(D, ForwardRow(I, D, pi, s, f, l))
         /\ Skips(I, D) /\ IsLabelled(I, D, pi, s, f, Passed(D, l, 0))
              => IsLabelled(I, D, pi, s, ForwardRow(I, D, pi, s, f, l), Passed(D, l + 1, 0))
<1>1. PICK A : IsRowPass(I, D, pi, s, f, l, A) /\ ForwardRow(I, D, pi, s, f, l) = A[Horizon(I) + 1]
  BY RowIsPass
<1> DEFINE H == Horizon(I) + 1
           Good(k) == /\ IsLabelling(D, A[k])
                      /\ Skips(I, D) /\ IsLabelled(I, D, pi, s, f, Passed(D, l, 0))
                           => IsLabelled(I, D, pi, s, A[k], Passed(D, l, k))
           F == {k \in 0 .. H : Good(k)}
<1>2. H \in Nat
  BY InstanceFacts
<1>3. A[0] = f /\ \A k \in 1 .. H : A[k] = RowStep(I, D, pi, s, l, A[k - 1], k - 1)
  BY <1>1 DEF IsRowPass
<1> HIDE DEF H
<1>4. 0 \in F
  BY <1>2, <1>3
<1>5. ASSUME NEW k \in 1 .. H, k - 1 \in F PROVE k \in F
  <2>1. k \in 0 .. H /\ k - 1 \in Nat /\ (k - 1) + 1 = k
    BY <1>2
  <2> DEFINE t == k - 1
  <2>2. t \in Nat /\ t + 1 = k /\ A[k] = RowStep(I, D, pi, s, l, A[t], t) /\ Good(t)
    BY <1>3, <1>5, <2>1
  <2>3. Good(k)
    <3> HIDE DEF t
    <3> QED BY <2>2, RowStepFacts
  <2> QED BY <2>1, <2>3
<1>6. Good(H)
  <2>1. \A k \in 0 .. H : k \in F
    <3> HIDE DEF F
    <3> QED BY <1>2, <1>4, <1>5, IntervalInduction
  <2>2. H \in 0 .. H
    BY <1>2
  <2> QED BY <2>1, <2>2
<1>7. Passed(D, l, H) = Passed(D, l + 1, 0)
  BY PassedRows DEF H
<1> QED BY <1>1, <1>6, <1>7 DEF H

LEMMA ForwardIsPass ==
  ASSUME NEW I, IsInstance(I), NEW D, IsDiagram(I, D), NEW pi, IsDuals(I, pi), NEW s,
         NEW old, IsStored(D, old)
  PROVE  \E A : IsForwardPass(I, D, pi, s, old, A) /\ Forward(I, D, pi, s, old) = A[Len(I.layers)]
<1> DEFINE n == Len(I.layers)
           V == [Vertices(D) -> Pairs]
           at == [l \in DOMAIN I.layers |-> l]
           base == ForwardStart(D, old)
           Step(h, l) == ForwardRow(I, D, pi, s, h, l)
           g == [l \in 1 .. n |-> [h \in V |-> Step(h, l)]]
           IsIter(f) == f = [T \in SUBSET (1 .. n) |-> IF T = {} THEN base
                               ELSE Step(f[T \ {Max(T)}], at[Max(T)])]
           iter == CHOOSE f : IsIter(f)
<1>1. n \in Nat /\ DOMAIN I.layers = 1 .. n /\ DOMAIN at = 1 .. n /\ \A l \in 1 .. n : at[l] = l
  BY InstanceFacts
<1> HIDE DEF at
<1>2. g \in [1 .. n -> [V -> V]] /\ base \in V
  <2>1. ASSUME NEW l \in 1 .. n, NEW h \in V PROVE Step(h, l) \in V
    <3>1. IsLabelling(D, h) /\ l \in Nat
      BY <1>1 DEF IsLabelling
    <3>2. IsLabelling(D, Step(h, l))
      BY <3>1, RowFacts
    <3> HIDE DEF Step
    <3> QED BY <3>2 DEF IsLabelling
  <2>2. base \in V
    BY StartFacts DEF IsLabelling
  <2> HIDE DEF V, n, Step, base
  <2> QED BY <2>1, <2>2
<1> HIDE DEF base
<1>3. PICK f \in [SUBSET (1 .. n) -> V] : IsPass(f, n, base, g)
  <2> HIDE DEF g, V, n
  <2> QED BY <1>1, <1>2, PassIsDefined
<1>4. ASSUME NEW T \in SUBSET (1 .. n), T # {} PROVE Max(T) \in 1 .. n /\ T \ {Max(T)} \in SUBSET (1 .. n)
  <2>1. Max(T) \in T
    BY <1>1, <1>4, LastOfPart
  <2> QED BY <2>1
<1>5. ASSUME NEW T \in SUBSET (1 .. n)
      PROVE f[T] = IF T = {} THEN base ELSE Step(f[T \ {Max(T)}], at[Max(T)])
  <2>1. f[T] = IF T = {} THEN base ELSE g[Max(T)][f[T \ {Max(T)}]]
    BY <1>3 DEF IsPass
  <2>2. ASSUME T # {}
        PROVE  g[Max(T)][f[T \ {Max(T)}]] = Step(f[T \ {Max(T)}], at[Max(T)])
    <3>1. Max(T) \in 1 .. n /\ f[T \ {Max(T)}] \in V /\ at[Max(T)] = Max(T)
      BY <1>1, <1>3, <1>4, <2>2
    <3> HIDE DEF V, n, Step
    <3> QED BY <3>1
  <2> HIDE DEF Step, g
  <2> QED BY <2>1, <2>2
<1>6. IsIter(f)
  <2>1. f = [T \in SUBSET (1 .. n) |-> f[T]]
    BY <1>3
  <2> HIDE DEF n, V, Step
  <2> QED BY <2>1, <1>5, Zenon
<1>7. IsIter(iter)
  BY <1>6
<1>8. Forward(I, D, pi, s, old) = iter[1 .. n]
  <2>1. DOMAIN at = 1 .. n
    BY <1>1
  <2> QED BY <2>1 DEF Forward, FoldLeftDomain, FoldLeft, MapThenFoldSet, at, base
<1> DEFINE A == [k \in 0 .. n |-> iter[1 .. k]]
<1>9. A[0] = base
  <2>1. 1 .. 0 = {} /\ {} \in SUBSET (1 .. n) /\ 0 \in 0 .. n
    BY <1>1
  <2>2. iter[{}] = base
    BY <1>7, <2>1
  <2> QED BY <2>1, <2>2
<1>10. ASSUME NEW i \in 1 .. n PROVE A[i] = Step(A[i - 1], i)
  <2>0. i - 1 \in 0 .. n - 1 /\ i - 1 \in 0 .. n /\ i \in 0 .. n /\ (i - 1) + 1 = i
    BY <1>1
  <2> DEFINE k == i - 1
  <2>1. /\ 1 .. k + 1 \in SUBSET (1 .. n) /\ 1 .. k + 1 # {}
        /\ Max(1 .. k + 1) = k + 1 /\ (1 .. k + 1) \ {k + 1} = 1 .. k
    <3>1. k \in 0 .. n - 1
      BY <2>0
    <3> HIDE DEF k, n
    <3> QED BY <1>1, <3>1, LastOfInterval
  <2>2. at[i] = i
    BY <1>1
  <2>3. ASSUME NEW T \in SUBSET (1 .. n), T # {}
        PROVE  iter[T] = Step(iter[T \ {Max(T)}], at[Max(T)])
    <3> HIDE DEF iter, Step
    <3> QED BY <1>7, <2>3
  <2>4. iter[1 .. i] = Step(iter[1 .. i - 1], i)
    <3>1. k + 1 = i
      BY <2>0
    <3>2. iter[1 .. k + 1] = Step(iter[(1 .. k + 1) \ {k + 1}], at[k + 1])
      <4> HIDE DEF iter, k, Step
      <4> QED BY <2>1, <2>3
    <3> HIDE DEF iter, Step
    <3> QED BY <2>1, <2>2, <3>1, <3>2
  <2> HIDE DEF iter, Step
  <2> QED BY <2>0, <2>4
<1>11. IsForwardPass(I, D, pi, s, old, A) /\ A[n] = iter[1 .. n]
  <2>1. n \in 0 .. n
    BY <1>1
  <2> HIDE DEF iter
  <2>2. A[n] = iter[1 .. n]
    BY <2>1
  <2> HIDE DEF A
  <2> QED BY <1>9, <1>10, <2>2 DEF IsForwardPass, base
<1> QED BY <1>8, <1>11

\* After a forward pass every node has passed on what it has, whatever labels were stored.
LEMMA ForwardFacts ==
  ASSUME NEW I, IsInstance(I), NEW D, IsDiagram(I, D), Skips(I, D), NEW pi, IsDuals(I, pi), NEW s,
         NEW old, IsStored(D, old)
  PROVE  /\ IsLabelling(D, Forward(I, D, pi, s, old))
         /\ IsLabelled(I, D, pi, s, Forward(I, D, pi, s, old), Nodes(D))
<1>1. PICK A : IsForwardPass(I, D, pi, s, old, A) /\ Forward(I, D, pi, s, old) = A[Len(I.layers)]
  BY ForwardIsPass
<1> DEFINE L == Len(I.layers)
           Good(l) == IsLabelling(D, A[l]) /\ IsLabelled(I, D, pi, s, A[l], Passed(D, l + 1, 0))
           F == {l \in 0 .. L : Good(l)}
<1>2. L \in Nat
  BY InstanceFacts
<1>3. A[0] = ForwardStart(D, old) /\ \A l \in 1 .. L : A[l] = ForwardRow(I, D, pi, s, A[l - 1], l)
  BY <1>1 DEF IsForwardPass
<1>4. /\ Passed(D, 0 + 1, 0) = {} /\ Passed(D, L + 1, 0) = Nodes(D)
  <2>1. Passed(D, 1, 0) = {} /\ Passed(D, L + 1, 0) = Nodes(D)
    BY <1>2, PassedRows
  <2> QED BY <2>1
<1> HIDE DEF L
<1>5. 0 \in F
  <2>1. IsPassedOn(I, D, pi, s, A[0], {})
    BY DEF IsPassedOn
  <2> QED BY <1>2, <1>3, <1>4, <2>1, StartFacts DEF IsLabelled
<1>6. ASSUME NEW k \in 1 .. L, k - 1 \in F PROVE k \in F
  <2>1. k \in 0 .. L /\ k \in Nat /\ (k - 1) + 1 = k
    BY <1>2
  <2> DEFINE t == k - 1
  <2>2. t + 1 = k /\ A[k] = ForwardRow(I, D, pi, s, A[t], k) /\ IsLabelling(D, A[t])
        /\ IsLabelled(I, D, pi, s, A[t], Passed(D, k, 0))
    BY <1>3, <1>6, <2>1
  <2>3. Good(k)
    <3> HIDE DEF t
    <3> QED BY <2>1, <2>2, RowFacts
  <2> QED BY <2>1, <2>3
<1>7. Good(L)
  <2>1. \A k \in 0 .. L : k \in F
    <3> HIDE DEF F
    <3> QED BY <1>2, <1>5, <1>6, IntervalInduction
  <2>2. L \in 0 .. L
    BY <1>2
  <2> QED BY <2>1, <2>2
<1> QED BY <1>1, <1>4, <1>7 DEF L

--------------------------------------------------------------------------------
(* The backward recursions. *)

\* A node has what its children have, that of the high child with the reduced cost.
IsPassedUp(I, D, pi, s, f) ==
  /\ \A k \in Int : k # 0 => Serves(f[One], 0, k)
  /\ \A n \in Nodes(D), v \in Int, k \in Int : (~Cyclic(s) => k = -1) =>
       /\ Serves(f[D.lo[n]], v, k) => Serves(f[n], v, k)
       /\ v < Huge /\ k # JobAt(I, n) /\ Serves(f[D.hi[n]], v, Key(s, JobAt(I, n)))
            => Serves(f[n], v + ReducedCost(I, pi, n), k)

BaseLabel == <<Start, NoLabel>>
SimpleLabel(I, pi, n, low, high) ==
  LET l == low[1]
      h == Prepend(high[1], JobAt(I, n), ReducedCost(I, pi, n))
  IN  <<IF l.f > h.f THEN h ELSE l, NoLabel>>
CycleLabel(I, pi, n, low, high) ==
  JoinHigh(low, Prepend(Usable(high, JobAt(I, n)), JobAt(I, n), ReducedCost(I, pi, n)), JobAt(I, n))
BackwardLabel(I, pi, s, n, low, high) ==
  IF Cyclic(s) THEN CycleLabel(I, pi, n, low, high) ELSE SimpleLabel(I, pi, n, low, high)

LEMMA BaseServes == BaseLabel \in Pairs /\ \A k \in Int : k # 0 => Serves(BaseLabel, 0, k)
<1>1. BaseLabel[1] = Start /\ Start.f = 0 /\ Start.job = 0
  BY DEF BaseLabel, Start
<1>2. BaseLabel \in Pairs
  BY NoLabels, MakePair DEF BaseLabel
<1> QED BY <1>1, <1>2 DEF Serves

\* The label P of a node has what those of its children have.
TakesUp(I, pi, s, n, low, high, P) ==
  \A v \in Int, k \in Int : (~Cyclic(s) => k = -1) =>
    /\ Serves(low, v, k) => Serves(P, v, k)
    /\ v < Huge /\ k # JobAt(I, n) /\ Serves(high, v, Key(s, JobAt(I, n)))
         => Serves(P, v + ReducedCost(I, pi, n), k)

LEMMA BackwardLabelFacts ==
  ASSUME NEW I, IsInstance(I), NEW D, IsDiagram(I, D), NEW pi, IsDuals(I, pi), NEW s,
         NEW n \in Nodes(D), NEW low \in Pairs, NEW high \in Pairs
  PROVE  /\ BackwardLabel(I, pi, s, n, low, high) \in Pairs
         /\ TakesUp(I, pi, s, n, low, high, BackwardLabel(I, pi, s, n, low, high))
<1> DEFINE j == JobAt(I, n)
           rc == ReducedCost(I, pi, n)
<1>1. j \in Nat \ {0} /\ rc \in Int
  <2>1. j \in DOMAIN I.jobs /\ DOMAIN I.jobs = 1 .. Len(I.jobs) /\ Len(I.jobs) \in Nat
    BY NodeFacts, InstanceFacts
  <2>2. j \in Nat \ {0}
    BY <2>1
  <2> QED BY <2>2, ReducedCostType
<1>2. CASE Cyclic(s)
  <2> DEFINE used == Usable(high, j)
             h == Prepend(used, j, rc)
             B == JoinHigh(low, h, j)
  <2>1. BackwardLabel(I, pi, s, n, low, high) = B
    BY <1>2 DEF BackwardLabel, CycleLabel
  <2> HIDE DEF j, rc
  <2>2. used \in Labels /\ \A v \in Int : Serves(high, v, j) => used.f <= v
    BY UsableServes
  <2> HIDE DEF used
  <2>3. h \in Labels /\ h.f = Plus(used.f, rc) /\ h.job = j
    BY <1>1, <2>2, ExtendFacts
  <2> HIDE DEF h
  <2>4. /\ B \in Pairs
        /\ \A v \in Int, k \in Int : Serves(low, v, k) => Serves(B, v, k)
        /\ \A v \in Int, k \in Int : h.f <= v /\ k # j => Serves(B, v, k)
    BY <2>3, JoinHighServes
  <2> HIDE DEF B
  <2>5. ASSUME NEW v \in Int, NEW k \in Int, v < Huge, k # j, Serves(high, v, j)
        PROVE  Serves(B, v + rc, k)
    <3> DEFINE a == used.f
               w == v + rc
    <3>1. a \in Int /\ a <= v /\ h.f = Plus(a, rc)
      BY <2>2, <2>3, <2>5, LabelFacts
    <3>2. h.f <= w
      <4> HIDE DEF a
      <4> QED BY <1>1, <2>5, <3>1, PlusFacts
    <3>3. w \in Int
      BY <1>1
    <3> HIDE DEF w
    <3>4. Serves(B, w, k)
      BY <2>4, <2>5, <3>2, <3>3
    <3> QED BY <3>4 DEF w
  <2>6. Key(s, j) = j
    BY <1>2 DEF Key
  <2> QED BY <2>1, <2>4, <2>5, <2>6 DEF j, rc, TakesUp
<1>3. CASE ~Cyclic(s)
  <2> DEFINE l == low[1]
             used == high[1]
             h == Prepend(used, j, rc)
             c == IF l.f > h.f THEN h ELSE l
             B == <<c, NoLabel>>
  <2>1. BackwardLabel(I, pi, s, n, low, high) = B
    BY <1>3 DEF BackwardLabel, SimpleLabel
  <2>2. l \in Labels /\ l.f \in Int /\ used \in Labels /\ used.f \in Int
    BY PairFacts, LabelFacts
  <2>3. \A v \in Int : (Serves(low, v, -1) <=> l.f <= v) /\ (Serves(high, v, -1) <=> used.f <= v)
    BY ServesAny
  <2> HIDE DEF j, rc, l, used
  <2>4. h \in Labels /\ h.f = Plus(used.f, rc)
    BY <1>1, <2>2, ExtendFacts
  <2> HIDE DEF h
  <2>5. h.f \in Int
    BY <2>4, LabelFacts
  <2>6. c \in Labels /\ c.f <= l.f /\ c.f <= h.f /\ c.f \in Int
    BY <2>2, <2>4, <2>5
  <2> HIDE DEF c
  <2>7. B \in Pairs /\ B[1] = c
    BY <2>6, NoLabels, MakePair
  <2> HIDE DEF B
  <2>8. \A v \in Int : Serves(B, v, -1) <=> c.f <= v
    BY <2>7, ServesAny
  <2>9. ASSUME NEW v \in Int, v < Huge, Serves(high, v, -1)
        PROVE  Serves(B, v + rc, -1)
    <3> DEFINE a == used.f
               w == v + rc
    <3>1. a \in Int /\ a <= v /\ h.f = Plus(a, rc)
      BY <2>2, <2>3, <2>4, <2>9
    <3>2. h.f <= w
      <4> HIDE DEF a
      <4> QED BY <1>1, <2>9, <3>1, PlusFacts
    <3>3. w \in Int
      BY <1>1
    <3> HIDE DEF w
    <3>4. c.f <= w
      BY <2>5, <2>6, <3>2, <3>3
    <3>5. Serves(B, w, -1)
      BY <2>8, <3>3, <3>4
    <3> QED BY <3>5 DEF w
  <2>10. ASSUME NEW v \in Int, Serves(low, v, -1) PROVE Serves(B, v, -1)
    <3>1. l.f <= v
      BY <2>3, <2>10
    <3>2. c.f <= v
      BY <2>2, <2>6, <3>1
    <3> QED BY <2>8, <3>2
  <2>11. Key(s, j) = -1
    BY <1>3 DEF Key
  <2> QED BY <1>3, <2>1, <2>7, <2>9, <2>10, <2>11 DEF j, rc, TakesUp
<1> QED BY <1>2, <1>3

\* f is labelled from the terminal up.
IsBackward(I, D, pi, s, f) ==
  f[One] = BaseLabel /\ \A n \in Nodes(D) : f[n] = BackwardLabel(I, pi, s, n, f[D.lo[n]], f[D.hi[n]])

LEMMA BackwardFacts ==
  ASSUME NEW I, IsInstance(I), NEW D, IsDiagram(I, D), NEW pi, IsDuals(I, pi), NEW s
  PROVE  /\ IsLabelling(D, Backward(I, D, pi, s)) /\ IsBackward(I, D, pi, s, Backward(I, D, pi, s))
         /\ IsPassedUp(I, D, pi, s, Backward(I, D, pi, s))
<1> DEFINE V == Pairs
           z == BaseLabel
           N == Nodes(D) \cup {One}
           g == [n \in Nodes(D) |-> [low \in V |-> [high \in V |-> BackwardLabel(I, pi, s, n, low, high)]]]
           Is(f) == f = [n \in N |-> IF n = One THEN BaseLabel
                                     ELSE BackwardLabel(I, pi, s, n, f[D.lo[n]], f[D.hi[n]])]
<1>1. IsJoin(g, D, V) /\ z \in V
  <2>1. \A n \in Nodes(D), low \in Pairs, high \in Pairs : BackwardLabel(I, pi, s, n, low, high) \in Pairs
    BY BackwardLabelFacts
  <2> QED BY <2>1, BaseServes DEF IsJoin
<1>2. PICK f \in [Vertices(D) -> V] : IsRecursion(f, D, z, g)
  <2> HIDE DEF g, V, z
  <2> QED BY <1>1, DiagramRecursion
<1>3. \A n \in Nodes(D) : n \in Vertices(D) /\ n # One /\ D.lo[n] \in Vertices(D) /\ D.hi[n] \in Vertices(D)
  BY NodeFacts, SMTT(30) DEF Vertices
<1>4. Is(f)
  <2>1. ASSUME NEW n \in Nodes(D) PROVE g[n][f[D.lo[n]]][f[D.hi[n]]] = BackwardLabel(I, pi, s, n, f[D.lo[n]], f[D.hi[n]])
    <3>1. f[D.lo[n]] \in V /\ f[D.hi[n]] \in V
      BY <1>2, <1>3, SMTT(30)
    <3> HIDE DEF V
    <3> QED BY <3>1
  <2>2. f = [n \in N |-> IF n = One THEN BaseLabel ELSE g[n][f[D.lo[n]]][f[D.hi[n]]]]
    BY <1>2 DEF IsRecursion
  <2> HIDE DEF g
  <2>3. \A n \in N : (IF n = One THEN BaseLabel ELSE g[n][f[D.lo[n]]][f[D.hi[n]]])
           = IF n = One THEN BaseLabel ELSE BackwardLabel(I, pi, s, n, f[D.lo[n]], f[D.hi[n]])
    BY <2>1, SMTT(30)
  <2> QED BY <2>2, <2>3
<1> DEFINE B == CHOOSE h : Is(h)
<1>5. Is(B)
  BY <1>4
<1>6. Backward(I, D, pi, s) = B
  <2>1. CASE Cyclic(s)
    BY <2>1 DEF Backward, BackwardCycle, BackwardLabel, CycleLabel, BaseLabel
  <2>2. CASE ~Cyclic(s)
    BY <2>2, ZenonT(40) DEF Backward, BackwardSimple, BackwardLabel, SimpleLabel, BaseLabel
  <2> QED BY <2>1, <2>2
<1> HIDE DEF B
<1>7. DOMAIN B = Vertices(D) /\ B[One] = BaseLabel /\ One \in Vertices(D)
      /\ \A n \in Nodes(D) : B[n] = BackwardLabel(I, pi, s, n, B[D.lo[n]], B[D.hi[n]])
  <2>1. B = [n \in N |-> IF n = One THEN BaseLabel ELSE BackwardLabel(I, pi, s, n, B[D.lo[n]], B[D.hi[n]])]
    BY <1>5
  <2>2. One \in N
    OBVIOUS
  <2> QED BY <1>3, <2>1, <2>2 DEF Vertices
<1>8. \A n \in Vertices(D) : B[n] \in Pairs
  <2> DEFINE F == {n \in Vertices(D) : B[n] \in Pairs}
  <2>1. One \in F
    BY <1>7, BaseServes
  <2>2. ASSUME NEW n \in Nodes(D), D.lo[n] \in F, D.hi[n] \in F PROVE n \in F
    <3>1. BackwardLabel(I, pi, s, n, B[D.lo[n]], B[D.hi[n]]) \in Pairs
      BY <2>2, BackwardLabelFacts
    <3> QED BY <1>3, <1>7, <3>1
  <2>3. \A n \in Vertices(D) : n \in F
    <3> HIDE DEF F
    <3> QED BY <2>1, <2>2, DiagramInduction
  <2> QED BY <2>3
<1>9. IsLabelling(D, B)
  <2>1. B = [n \in N |-> IF n = One THEN BaseLabel ELSE BackwardLabel(I, pi, s, n, B[D.lo[n]], B[D.hi[n]])]
    BY <1>5
  <2>2. \E W : B = [n \in Vertices(D) |-> W[n]]
    BY <2>1 DEF Vertices
  <2>3. B = [n \in Vertices(D) |-> B[n]]
    BY <2>1 DEF Vertices
  <2> QED BY <1>8, <2>3 DEF IsLabelling
<1>10. IsPassedUp(I, D, pi, s, B)
  <2>1. \A k \in Int : k # 0 => Serves(B[One], 0, k)
    BY <1>7, BaseServes
  <2>2. ASSUME NEW n \in Nodes(D)
        PROVE  TakesUp(I, pi, s, n, B[D.lo[n]], B[D.hi[n]], B[n])
    <3> DEFINE low == B[D.lo[n]]
               high == B[D.hi[n]]
    <3>1. low \in Pairs /\ high \in Pairs /\ B[n] = BackwardLabel(I, pi, s, n, low, high)
      BY <1>3, <1>7, <1>8
    <3> HIDE DEF low, high
    <3>2. TakesUp(I, pi, s, n, low, high, BackwardLabel(I, pi, s, n, low, high))
      BY <3>1, BackwardLabelFacts
    <3> QED BY <3>1, <3>2 DEF low, high
  <2> QED BY <2>1, <2>2 DEF IsPassedUp, TakesUp
<1>11. IsBackward(I, D, pi, s, B)
  BY <1>7 DEF IsBackward
<1> QED BY <1>6, <1>9, <1>10, <1>11

--------------------------------------------------------------------------------
(* What holds along a path. *)

\* Q is kept by the arcs p takes.
IsFollowed(I, D, p, Q) ==
  \A n \in Nodes(D), i \in 0 .. Len(p) : <<n, i>> \in Q =>
    /\ <<D.lo[n], i>> \in Q
    /\ i # Len(p) /\ p[i + 1] = JobAt(I, n) => <<D.hi[n], i + 1>> \in Q

\* Z holds of the end of p, and of a place on it where it holds of the next.
IsInherited(I, D, p, Q, Z) ==
  /\ <<One, Len(p)>> \in Q => <<One, Len(p)>> \in Z
  /\ \A n \in Nodes(D), i \in 0 .. Len(p) : <<n, i>> \in Q =>
       /\ <<D.lo[n], i>> \in Q /\ <<D.lo[n], i>> \in Z => <<n, i>> \in Z
       /\ i # Len(p) /\ p[i + 1] = JobAt(I, n) /\ <<D.hi[n], i + 1>> \in Q /\ <<D.hi[n], i + 1>> \in Z
            => <<n, i>> \in Z

LEMMA PathInduction ==
  ASSUME NEW I, IsInstance(I), NEW D, IsDiagram(I, D), NEW p \in Sequences(I),
         NEW Q, IsFollowed(I, D, p, Q), NEW Z, IsInherited(I, D, p, Q, Z)
  PROVE  \A n \in Vertices(D), i \in 0 .. Len(p) :
           <<n, i>> \in Q /\ Rest(p, i) \in PathsBelow(I, D)[n] => <<n, i>> \in Z
<1> DEFINE F == {n \in Vertices(D) : \A i \in 0 .. Len(p) :
                   <<n, i>> \in Q /\ Rest(p, i) \in PathsBelow(I, D)[n] => <<n, i>> \in Z}
<1>1. One \in F
  <2>1. One \in Vertices(D) /\ One \notin Nodes(D)
    BY NodeFacts DEF Vertices
  <2>2. ASSUME NEW i \in 0 .. Len(p), <<One, i>> \in Q, Rest(p, i) \in PathsBelow(I, D)[One] PROVE <<One, i>> \in Z
    <3>1. i = Len(p)
      BY <2>1, <2>2, PathStep
    <3> QED BY <2>2, <3>1 DEF IsInherited
  <2> QED BY <2>1, <2>2
<1>2. ASSUME NEW n \in Nodes(D), D.lo[n] \in F, D.hi[n] \in F PROVE n \in F
  <2>0. n \in Vertices(D) /\ n # One
    BY NodeFacts DEF Vertices
  <2>1. ASSUME NEW i \in 0 .. Len(p), <<n, i>> \in Q, Rest(p, i) \in PathsBelow(I, D)[n] PROVE <<n, i>> \in Z
    <3>1. CASE Rest(p, i) \in PathsBelow(I, D)[D.lo[n]]
      <4>1. <<D.lo[n], i>> \in Q
        BY <2>1 DEF IsFollowed
      <4>2. <<D.lo[n], i>> \in Z
        BY <1>2, <3>1, <4>1
      <4> QED BY <2>1, <4>1, <4>2 DEF IsInherited
    <3>2. CASE Rest(p, i) \notin PathsBelow(I, D)[D.lo[n]]
      <4>1. /\ i # Len(p) /\ i + 1 \in 0 .. Len(p)
            /\ p[i + 1] = JobAt(I, n) /\ Rest(p, i + 1) \in PathsBelow(I, D)[D.hi[n]]
        BY <2>0, <2>1, <3>2, PathStep
      <4>2. <<D.hi[n], i + 1>> \in Q
        BY <2>1, <4>1 DEF IsFollowed
      <4>3. <<D.hi[n], i + 1>> \in Z
        BY <1>2, <4>1, <4>2
      <4> QED BY <2>1, <4>1, <4>2, <4>3 DEF IsInherited
    <3> QED BY <3>1, <3>2
  <2> QED BY <2>0, <2>1
<1>3. \A n \in Vertices(D) : n \in F
  <2> HIDE DEF F
  <2> QED BY <1>1, <1>2, DiagramInduction
<1> QED BY <1>3

LEMMA OnTimeIsFollowed ==
  ASSUME NEW I, IsInstance(I), NEW D, IsDiagram(I, D), NEW p \in Sequences(I)
  PROVE  IsFollowed(I, D, p, OnTime(I, D, p)) /\ <<D.root, 0>> \in OnTime(I, D, p)
BY PathIsOnTime DEF IsFollowed

\* Not to run any job is a path.
LEMMA EmptyIsPath ==
  ASSUME NEW I, IsInstance(I), NEW D, IsDiagram(I, D)
  PROVE  <<>> \in PathsOf(I, D)
<1> DEFINE P == PathsBelow(I, D)
           F == {n \in Vertices(D) : <<>> \in P[n]}
<1>1. /\ P[One] = {<<>>} /\ \A n \in Nodes(D) : P[D.lo[n]] \subseteq P[n]
      /\ One \in Vertices(D) /\ \A n \in Nodes(D) : n \in Vertices(D)
  BY PathsFacts DEF Vertices
<1> HIDE DEF P
<1>2. \A n \in Vertices(D) : n \in F
  <2>1. One \in F /\ \A n \in Nodes(D) : D.lo[n] \in F /\ D.hi[n] \in F => n \in F
    BY <1>1
  <2> HIDE DEF F
  <2> QED BY <2>1, DiagramInduction
<1>3. D.root \in Vertices(D)
  BY DEF IsDiagram
<1> QED BY <1>2, <1>3 DEF PathsOf, P

\* A path has at most as many jobs as there are layers, all of which start within the horizon.
IsShort(I, p) == Len(p) <= Len(I.layers) /\ \A k \in 0 .. Len(p) : k # Len(p) => EndOf(I, p, k) \in 0 .. Horizon(I)

LEMMA PathIsShort ==
  ASSUME NEW I, IsInstance(I), NEW D, IsDiagram(I, D), NEW p \in PathsOf(I, D)
  PROVE  p \in Sequences(I) /\ IsShort(I, p)
<1>1. D.root \in Vertices(D) /\ p \in PathsBelow(I, D)[D.root]
  BY DEF IsDiagram, PathsOf
<1>2. p \in Sequences(I)
  BY <1>1, PathsFacts
<1>3. Len(p) \in Nat /\ Rest(p, 0) = p
  BY <1>2, SequenceFacts, RestFacts DEF Sequences
<1> DEFINE Q == OnTime(I, D, p)
           Z == {x \in Vertices(D) \X (0 .. Len(p)) :
                   /\ Len(p) - x[2] <= Depth(I, x[1])
                   /\ \A k \in x[2] .. Len(p) : k # Len(p) => EndOf(I, p, k) \in 0 .. Horizon(I)}
<1>4. \A n \in Vertices(D), i \in 0 .. Len(p) : <<n, i>> \in Z <=>
        /\ Len(p) - i <= Depth(I, n)
        /\ \A k \in i .. Len(p) : k # Len(p) => EndOf(I, p, k) \in 0 .. Horizon(I)
  OBVIOUS
<1> HIDE DEF Z
<1>5. /\ \A n \in Vertices(D) : Depth(I, n) \in 0 .. Len(I.layers)
      /\ \A n \in Nodes(D) : /\ Depth(I, D.lo[n]) < Depth(I, n)
                             /\ Depth(I, D.hi[n]) < Depth(I, n)
      /\ \A n \in Nodes(D) : n \in Vertices(D) /\ D.lo[n] \in Vertices(D) /\ D.hi[n] \in Vertices(D)
      /\ Len(I.layers) \in Nat
  <2>1. \A n \in Nodes(D) : n \in Vertices(D) /\ D.lo[n] \in Vertices(D) /\ D.hi[n] \in Vertices(D)
    BY NodeFacts DEF Vertices
  <2> QED BY <2>1, DepthFalls, InstanceFacts
<1>6. IsInherited(I, D, p, Q, Z)
  <2>1. <<One, Len(p)>> \in Z
    <3>1. One \in Vertices(D) /\ Len(p) \in 0 .. Len(p) /\ Len(p) - Len(p) <= Depth(I, One)
      BY <1>3, <1>5 DEF Vertices
    <3>2. \A k \in Len(p) .. Len(p) : k = Len(p)
      BY <1>3
    <3> QED BY <1>4, <3>1, <3>2
  <2>2. ASSUME NEW n \in Nodes(D), NEW i \in 0 .. Len(p), <<D.lo[n], i>> \in Z PROVE <<n, i>> \in Z
    <3>1. Len(p) - i <= Depth(I, n)
      <4> DEFINE d == Depth(I, n)
                 e == Depth(I, D.lo[n])
      <4>1. d \in Int /\ e \in Int /\ e < d /\ Len(p) - i <= e
        BY <1>4, <1>5, <2>2
      <4> HIDE DEF d, e
      <4>2. Len(p) - i <= d
        BY <1>3, <4>1
      <4> QED BY <4>2 DEF d
    <3> QED BY <1>4, <1>5, <2>2, <3>1
  <2>3. ASSUME NEW n \in Nodes(D), NEW i \in 0 .. Len(p), <<n, i>> \in Q, i # Len(p), <<D.hi[n], i + 1>> \in Z
        PROVE  <<n, i>> \in Z
    <3>0. i + 1 \in 0 .. Len(p)
      BY <1>3, <2>3
    <3>1. Len(p) - i <= Depth(I, n)
      <4> DEFINE d == Depth(I, n)
                 e == Depth(I, D.hi[n])
      <4>1. d \in Int /\ e \in Int /\ e < d /\ Len(p) - (i + 1) <= e
        BY <1>4, <1>5, <2>3, <3>0
      <4> HIDE DEF d, e
      <4>2. Len(p) - i <= d
        BY <1>3, <4>1
      <4> QED BY <4>2 DEF d
    <3>2. EndOf(I, p, i) \in 0 .. Horizon(I)
      <4>1. EndOf(I, p, i) = n[2]
        <5>1. \A u \in Nodes(D), k \in 0 .. Len(p) : <<u, k>> \in OnTime(I, D, p) => u[2] = EndOf(I, p, k)
          BY NodeFacts DEF OnTime
        <5> QED BY <2>3, <5>1
      <4> QED BY <4>1, NodeFacts
    <3>3. \A k \in i + 1 .. Len(p) : k # Len(p) => EndOf(I, p, k) \in 0 .. Horizon(I)
      BY <1>4, <1>5, <2>3, <3>0
    <3>4. \A k \in i .. Len(p) : k = i \/ k \in i + 1 .. Len(p)
      BY <1>3
    <3> QED BY <1>4, <1>5, <3>1, <3>2, <3>3, <3>4
  <2> QED BY <2>1, <2>2, <2>3 DEF IsInherited
<1>7. <<D.root, 0>> \in Z
  <2>1. IsFollowed(I, D, p, Q) /\ <<D.root, 0>> \in Q
    BY <1>2, OnTimeIsFollowed
  <2>2. 0 \in 0 .. Len(p)
    BY <1>3
  <2> HIDE DEF Q
  <2> QED BY <1>1, <1>2, <1>3, <1>6, <2>1, <2>2, PathInduction
<1>8. 0 \in 0 .. Len(p)
  BY <1>3
<1>9. Len(p) - 0 <= Depth(I, D.root) /\ \A k \in 0 .. Len(p) : k # Len(p) => EndOf(I, p, k) \in 0 .. Horizon(I)
  BY <1>1, <1>4, <1>7, <1>8
<1>10. Len(p) <= Len(I.layers)
  <2>1. Depth(I, D.root) \in 0 .. Len(I.layers)
    BY <1>1, <1>5
  <2> QED BY <1>3, <1>5, <1>9, <2>1
<1> QED BY <1>2, <1>9, <1>10 DEF IsShort

--------------------------------------------------------------------------------
(* What a path is worth. *)

CostAt(I, p, i) == WeightedTardiness(I.jobs[p[i]], EndOf(I, p, i))
IsCostUpTo(I, p, C) ==
  C \in [0 .. Len(p) -> Int] /\ C[0] = 0 /\ \A i \in 1 .. Len(p) : C[i] = C[i - 1] + CostAt(I, p, i)

\* The value of a path up to each of its jobs, and of all of it.
IsValue(I, pi, p, V) ==
  V \in [0 .. Len(p) -> Int] /\ V[0] = 0 /\ \A i \in 1 .. Len(p) : V[i] = V[i - 1] + (CostAt(I, p, i) - pi[p[i]])
Value(I, pi, p) == SequenceCost(I.jobs, p) - SumFunctionOnSet(pi, JobsOf(p))

LEMMA CostType ==
  ASSUME NEW I, IsInstance(I), NEW p \in Sequences(I), NEW i \in 1 .. Len(p)
  PROVE  CostAt(I, p, i) \in Nat /\ p[i] \in DOMAIN I.jobs
<1>1. p[i] \in DOMAIN I.jobs /\ Len(p) \in Nat
  BY SequenceFacts DEF Sequences
<1>2. I.jobs[p[i]].w \in Nat /\ I.jobs[p[i]].d \in Nat
  BY <1>1, InstanceFacts
<1>3. i \in 0 .. Len(p)
  BY <1>1
<1>4. EndOf(I, p, i) \in Nat
  BY <1>3, EndFacts
<1>5. Late(EndOf(I, p, i), I.jobs[p[i]].d) \in Nat
  BY <1>2, <1>4 DEF Late
<1> DEFINE a == I.jobs[p[i]].w
           b == Late(EndOf(I, p, i), I.jobs[p[i]].d)
<1>6. CostAt(I, p, i) = a * b
  BY DEF CostAt, WeightedTardiness
<1> HIDE DEF a, b
<1>7. a \in Nat /\ b \in Nat
  BY <1>2, <1>5 DEF a, b
<1>8. a * b \in Nat
  BY <1>7
<1> QED BY <1>1, <1>6, <1>8

LEMMA AccumulateIsDefined ==
  ASSUME NEW n \in Nat, NEW c, \A i \in 1 .. n : c[i] \in Int
  PROVE  \E f \in [0 .. n -> Int] : f[0] = 0 /\ \A i \in 1 .. n : f[i] = f[i - 1] + c[i]
<1> DEFINE V == Int
           z == 0
           g == [i \in 1 .. n |-> [x \in Int |-> x + c[i]]]
<1>1. z \in V /\ IsSteps(g, n, V)
  BY DEF IsSteps
<1>2. PICK f \in [0 .. n -> V] : IsIteration(f, n, z, g)
  <2> HIDE DEF V, z, g
  <2> QED BY <1>1, IterationIsDefined
<1>3. \A i \in 1 .. n : i - 1 \in 0 .. n
  OBVIOUS
<1>4. \A i \in 1 .. n : f[i - 1] \in Int
  BY <1>2, <1>3
<1>5. \A i \in 1 .. n : f[i] = g[i][f[i - 1]]
  BY <1>2 DEF IsIteration
<1>6. \A i \in 1 .. n : f[i] = f[i - 1] + c[i]
  BY <1>4, <1>5
<1>7. f[0] = 0
  BY <1>2 DEF IsIteration
<1> QED BY <1>2, <1>6, <1>7

LEMMA CostFacts ==
  ASSUME NEW I, IsInstance(I), NEW p \in Sequences(I)
  PROVE  \E C : IsCostUpTo(I, p, C) /\ SequenceCost(I.jobs, p) = C[Len(p)]
<1> DEFINE n == Len(p)
           c == [i \in 1 .. n |-> CostAt(I, p, i)]
<1>0. n \in Nat /\ \A i \in 1 .. n : c[i] \in Int
  <2>1. n \in Nat
    BY SequenceFacts DEF Sequences
  <2>2. \A i \in 1 .. n : CostAt(I, p, i) \in Int
    BY CostType
  <2> QED BY <2>1, <2>2
<1>1. PICK C \in [0 .. n -> Int] : C[0] = 0 /\ \A i \in 1 .. n : C[i] = C[i - 1] + c[i]
  <2> HIDE DEF n, c
  <2> QED BY <1>0, AccumulateIsDefined
<1>2. \A i \in 1 .. n : C[i] = C[i - 1] + CostAt(I, p, i)
  BY <1>1
<1>3. IsCostUpTo(I, p, C)
  BY <1>1, <1>2 DEF IsCostUpTo
<1>4. SequenceCost(I.jobs, p) = C[n]
  <2> DEFINE Is(e) == e = [i \in 0 .. n |-> IF i = 0 THEN [t |-> 0, c |-> 0]
                             ELSE LET t == e[i - 1].t + I.jobs[p[i]].p
                                  IN  [t |-> t, c |-> e[i - 1].c + WeightedTardiness(I.jobs[p[i]], t)]]
             at == CHOOSE e : Is(e)
             r == [i \in 0 .. n |-> [t |-> EndOf(I, p, i), c |-> C[i]]]
  <2>1. SequenceCost(I.jobs, p) = at[n].c
    BY DEF SequenceCost
  <2>2. ASSUME NEW i \in 0 .. n
        PROVE  [t |-> EndOf(I, p, i), c |-> C[i]] =
                 IF i = 0 THEN [t |-> 0, c |-> 0]
                 ELSE LET t == r[i - 1].t + I.jobs[p[i]].p
                      IN  [t |-> t, c |-> r[i - 1].c + WeightedTardiness(I.jobs[p[i]], t)]
    <3>1. CASE i = 0
      <4>1. EndOf(I, p, i) = 0 /\ C[i] = 0
        BY <1>1, <3>1, EndFacts
      <4> QED BY <3>1, <4>1
    <3>2. CASE i # 0
      <4>1. i \in 1 .. n /\ i - 1 \in 0 .. n
        BY <1>0, <3>2
      <4>2. r[i - 1].t = EndOf(I, p, i - 1) /\ r[i - 1].c = C[i - 1]
        BY <4>1
      <4>3. EndOf(I, p, i) = EndOf(I, p, i - 1) + I.jobs[p[i]].p
        BY <4>1, EndFacts
      <4>4. C[i] = C[i - 1] + WeightedTardiness(I.jobs[p[i]], EndOf(I, p, i))
        BY <1>2, <4>1 DEF CostAt
      <4> HIDE DEF r
      <4> QED BY <3>2, <4>2, <4>3, <4>4
    <3> QED BY <3>1, <3>2
  <2>3. Is(r)
    BY <2>2, ZenonT(40)
  <2>4. Is(at)
    <3> HIDE DEF r
    <3> QED BY <2>3
  <2> HIDE DEF at
  <2>5. \A i \in 0 .. n : at[i] = IF i = 0 THEN [t |-> 0, c |-> 0]
                             ELSE LET t == at[i - 1].t + I.jobs[p[i]].p
                                  IN  [t |-> t, c |-> at[i - 1].c + WeightedTardiness(I.jobs[p[i]], t)]
    <3>1. at = [i \in 0 .. n |-> IF i = 0 THEN [t |-> 0, c |-> 0]
                             ELSE LET t == at[i - 1].t + I.jobs[p[i]].p
                                  IN  [t |-> t, c |-> at[i - 1].c + WeightedTardiness(I.jobs[p[i]], t)]]
      BY <2>4
    <3> QED BY <3>1
  <2>6. \A i \in 0 .. n : r[i] = [t |-> EndOf(I, p, i), c |-> C[i]]
    OBVIOUS
  <2> HIDE DEF r
  <2> DEFINE F == {i \in 0 .. n : at[i] = r[i]}
  <2>7. 0 \in F
    <3>1. 0 \in 0 .. n
      BY <1>0
    <3> QED BY <2>2, <2>5, <2>6, <3>1
  <2>8. ASSUME NEW i \in 1 .. n, i - 1 \in F PROVE i \in F
    <3>1. i \in 0 .. n /\ i # 0
      BY <1>0
    <3>2. at[i - 1] = r[i - 1]
      BY <2>8
    <3>3. at[i] = LET t == r[i - 1].t + I.jobs[p[i]].p
                  IN  [t |-> t, c |-> r[i - 1].c + WeightedTardiness(I.jobs[p[i]], t)]
      BY <2>5, <3>1, <3>2
    <3>4. r[i] = LET t == r[i - 1].t + I.jobs[p[i]].p
                 IN  [t |-> t, c |-> r[i - 1].c + WeightedTardiness(I.jobs[p[i]], t)]
      BY <2>2, <2>6, <3>1
    <3> QED BY <3>1, <3>3, <3>4
  <2>9. n \in F
    <3> HIDE DEF F, n
    <3>1. \A i \in 0 .. n : i \in F
      BY <1>0, <2>7, <2>8, IntervalInduction
    <3>2. n \in 0 .. n
      BY <1>0
    <3> QED BY <3>1, <3>2
  <2>10. at[n].c = C[n]
    <3>1. at[n] = r[n] /\ n \in 0 .. n
      BY <2>9
    <3>2. r[n] = [t |-> EndOf(I, p, n), c |-> C[n]]
      BY <2>6, <3>1
    <3> QED BY <3>1, <3>2
  <2> QED BY <2>1, <2>10
<1> QED BY <1>3, <1>4

LEMMA ValueFacts ==
  ASSUME NEW I, IsInstance(I), NEW pi, IsDuals(I, pi), NEW p \in Sequences(I), IsElementary(p)
  PROVE  /\ \E V : IsValue(I, pi, p, V) /\ V[Len(p)] = Value(I, pi, p)
         /\ SequenceCost(I.jobs, p) \in Int /\ SumFunctionOnSet(pi, JobsOf(p)) \in Int
         /\ Value(I, pi, p) \in Int
<1> DEFINE n == Len(p)
           c == [i \in 1 .. n |-> pi[p[i]]]
<1>0. n \in Nat /\ \A i \in 1 .. n : pi[p[i]] \in Int
  <2>1. n \in Nat
    BY SequenceFacts DEF Sequences
  <2>2. \A i \in 1 .. n : pi[p[i]] \in Int
    BY CostType DEF IsDuals
  <2> QED BY <2>1, <2>2
<1>1. PICK C : IsCostUpTo(I, p, C) /\ SequenceCost(I.jobs, p) = C[n]
  BY CostFacts
<1>2. PICK h \in [0 .. n -> Int] : h[0] = 0 /\ \A i \in 1 .. n : h[i] = h[i - 1] + c[i]
  <2>1. \A i \in 1 .. n : c[i] \in Int
    BY <1>0
  <2> HIDE DEF n, c
  <2> QED BY <1>0, <2>1, AccumulateIsDefined
<1>3. \A i \in 1 .. n : h[i] = h[i - 1] + pi[p[i]]
  BY <1>2
<1> DEFINE T == DOMAIN I.jobs
<1>4. SumFunctionOnSet(pi, JobsOf(p)) = h[n]
  <2>1. p \in Seq(T) /\ \A x \in T : pi[x] \in Int
    BY DEF Sequences, IsDuals
  <2>2. Accumulates(h, pi, p)
    BY <1>2, <1>3 DEF Accumulates
  <2> HIDE DEF T
  <2> QED BY <2>1, <2>2, AccumulatedSum
<1> DEFINE V == [i \in 0 .. n |-> C[i] - h[i]]
<1>5. /\ C[0] = 0 /\ \A i \in 0 .. n : C[i] \in Int /\ h[i] \in Int
      /\ \A i \in 1 .. n : C[i] = C[i - 1] + CostAt(I, p, i)
  BY <1>1, <1>2 DEF IsCostUpTo
<1>6. 0 \in 0 .. n /\ n \in 0 .. n /\ \A i \in 1 .. n : i \in 0 .. n /\ i - 1 \in 0 .. n
  BY <1>0
<1>7. IsValue(I, pi, p, V)
  <2>1. V \in [0 .. n -> Int] /\ V[0] = 0
    BY <1>2, <1>5, <1>6
  <2>2. ASSUME NEW i \in 1 .. n PROVE V[i] = V[i - 1] + (CostAt(I, p, i) - pi[p[i]])
    <3>1. V[i] = C[i] - h[i] /\ V[i - 1] = C[i - 1] - h[i - 1]
      BY <1>6
    <3>2. CostAt(I, p, i) \in Int /\ pi[p[i]] \in Int /\ C[i - 1] \in Int /\ h[i - 1] \in Int
      BY <1>0, <1>5, <1>6, CostType
    <3>3. \A a, b, d, e \in Int : (a + d) - (b + e) = (a - b) + (d - e)
      OBVIOUS
    <3> HIDE DEF V
    <3>4. C[i] = C[i - 1] + CostAt(I, p, i)
      BY <1>5
    <3>5. h[i] = h[i - 1] + pi[p[i]]
      BY <1>3
    <3>6. V[i] = (C[i - 1] + CostAt(I, p, i)) - (h[i - 1] + pi[p[i]])
      BY <3>1, <3>4, <3>5
    <3>7. V[i] = (C[i - 1] - h[i - 1]) + (CostAt(I, p, i) - pi[p[i]])
      BY <3>2, <3>3, <3>6
    <3> QED BY <3>1, <3>7
  <2> HIDE DEF V
  <2> QED BY <2>1, <2>2 DEF IsValue
<1>8. V[n] = Value(I, pi, p) /\ Value(I, pi, p) \in Int
  <2>1. V[n] = C[n] - h[n]
    BY <1>6
  <2> QED BY <1>1, <1>4, <1>5, <1>6, <2>1 DEF Value
<1> HIDE DEF V
<1> QED BY <1>1, <1>4, <1>5, <1>6, <1>7, <1>8

\* The bound on the values that duals of the model keep to.
IsTame(I, pi) ==
  \E B \in 0 .. Huge :
    /\ Len(I.layers) * B < Huge
    /\ \A j \in DOMAIN I.jobs, t \in 0 .. Horizon(I) : WeightedTardinessStart(I.jobs[j], t) - pi[j] <= B

\* No part of the path comes near Huge, nor does what is left without one job.
IsSmall(p, V) ==
  \A i \in 0 .. Len(p) :
    /\ V[i] < Huge /\ V[Len(p)] - V[i] < Huge
    /\ i # Len(p) => V[i] + (V[Len(p)] - V[i + 1]) < Huge

LEMMA HugeType == Huge \in Nat /\ 0 < Huge
BY SMT DEF Huge

LEMMA Multiples ==
  ASSUME NEW B \in Nat, NEW n \in Nat, NEW i \in 0 .. n
  PROVE  /\ i * B \in Nat /\ i * B <= n * B /\ n * B \in Nat /\ 0 * B = 0
         /\ i # 0 => i - 1 \in Nat /\ (i - 1) * B + B = i * B
         /\ n - i \in Nat /\ i * B + (n - i) * B = n * B
<1>1. i \in Nat /\ n - i \in Nat /\ n = i + (n - i)
  OBVIOUS
<1> DEFINE d == n - i
<1>2. d \in Nat /\ i * B \in Nat /\ d * B \in Nat /\ (i + d) * B = i * B + d * B
  <2>1. d \in Nat
    BY <1>1
  <2> HIDE DEF d
  <2> QED BY <1>1, <2>1
<1>3. n * B = i * B + d * B
  BY <1>1, <1>2
<1>4. i # 0 => i - 1 \in Nat /\ (i - 1) * B + B = i * B
  <2>1. \A k \in Nat : (k + 1) * B = k * B + B
    OBVIOUS
  <2>2. i # 0 => i - 1 \in Nat /\ (i - 1) + 1 = i
    BY <1>1
  <2>3. i # 0 => ((i - 1) + 1) * B = (i - 1) * B + B
    BY <2>1, <2>2
  <2> QED BY <2>2, <2>3
<1> QED BY <1>1, <1>2, <1>3, <1>4

\* On time, what the i + 1-st job adds is its weighted tardiness.
LEMMA CostOnTime ==
  ASSUME NEW I, IsInstance(I), NEW p \in Sequences(I), NEW i \in 1 .. Len(p)
  PROVE  CostAt(I, p, i) = WeightedTardinessStart(I.jobs[p[i]], EndOf(I, p, i - 1))
<1>1. EndOf(I, p, i) = EndOf(I, p, i - 1) + I.jobs[p[i]].p
  BY EndFacts
<1> QED BY <1>1 DEF CostAt, WeightedTardiness, WeightedTardinessStart

LEMMA ValuesAreSmall ==
  ASSUME NEW I, IsInstance(I), NEW pi, IsTame(I, pi), IsDuals(I, pi),
         NEW p \in Sequences(I), IsShort(I, p), NEW V, IsValue(I, pi, p, V)
  PROVE  IsSmall(p, V)
<1> DEFINE n == Len(p)
           L == Len(I.layers)
<1>1. PICK B \in 0 .. Huge : /\ L * B < Huge
                             /\ \A j \in DOMAIN I.jobs, t \in 0 .. Horizon(I) :
                                  WeightedTardinessStart(I.jobs[j], t) - pi[j] <= B
  BY DEF IsTame
<1>2. n \in Nat /\ L \in Nat /\ n \in 0 .. L /\ B \in Nat /\ Huge \in Nat
  <2>1. n \in Nat /\ L \in Nat
    BY SequenceFacts, InstanceFacts DEF Sequences
  <2>2. Huge \in Nat
    BY HugeType
  <2>3. n <= L
    BY DEF IsShort
  <2> HIDE DEF n, L
  <2> QED BY <1>1, <2>1, <2>2, <2>3
<1>3. /\ V[0] = 0 /\ \A i \in 0 .. n : V[i] \in Int
      /\ \A i \in 1 .. n : V[i] = V[i - 1] + (CostAt(I, p, i) - pi[p[i]])
  BY DEF IsValue
<1>4. \A i \in 1 .. n : V[i] <= V[i - 1] + B
  <2> SUFFICES ASSUME NEW i \in 1 .. n PROVE V[i] <= V[i - 1] + B
    OBVIOUS
  <2> DEFINE c == CostAt(I, p, i) - pi[p[i]]
  <2>1. i - 1 \in 0 .. n /\ i - 1 # n
    BY <1>2
  <2>2. EndOf(I, p, i - 1) \in 0 .. Horizon(I) /\ p[i] \in DOMAIN I.jobs
    BY <2>1, CostType DEF IsShort
  <2>3. c <= B
    BY <1>1, <2>2, CostOnTime
  <2>4. c \in Int
    BY <2>2, CostType DEF IsDuals
  <2>5. V[i] = V[i - 1] + c /\ V[i - 1] \in Int
    BY <1>3, <2>1
  <2> HIDE DEF c, n
  <2> QED BY <1>2, <2>3, <2>4, <2>5
<1> DEFINE top == V[n]
<1>5. \A i \in 0 .. n : V[i] <= i * B
  <2> DEFINE F == {i \in 0 .. n : V[i] <= i * B}
  <2>1. 0 \in F
    BY <1>2, <1>3
  <2>2. ASSUME NEW i \in 1 .. n, i - 1 \in F PROVE i \in F
    <3>1. V[i - 1] <= (i - 1) * B /\ V[i] <= V[i - 1] + B /\ V[i] \in Int /\ V[i - 1] \in Int
      BY <1>2, <1>3, <1>4, <2>2
    <3>2. (i - 1) * B + B = i * B /\ i * B \in Nat /\ i - 1 \in Nat /\ i \in 0 .. n
      BY <1>2, Multiples
    <3>3. (i - 1) * B \in Nat
      BY <1>2, <3>2
    <3>4. V[i] <= i * B
      BY <1>2, <3>1, <3>2, <3>3
    <3> QED BY <3>2, <3>4
  <2> HIDE DEF F, n
  <2>3. \A i \in 0 .. n : i \in F
    BY <1>2, <2>1, <2>2, IntervalInduction
  <2> QED BY <2>3 DEF F
<1>6. \A d \in 0 .. n : top - V[n - d] <= d * B
  <2> DEFINE F == {d \in 0 .. n : top - V[n - d] <= d * B}
  <2>1. 0 \in F
    BY <1>2, <1>3
  <2>2. ASSUME NEW d \in 1 .. n, d - 1 \in F PROVE d \in F
    <3> DEFINE i == n - d + 1
    <3>1. i \in 1 .. n /\ n - (d - 1) = i /\ i - 1 = n - d /\ n - d \in 0 .. n /\ n \in 0 .. n /\ d \in 0 .. n
      BY <1>2
    <3>2. top - V[i] <= (d - 1) * B
      BY <2>2, <3>1
    <3>3. V[i] <= V[n - d] + B /\ V[i] \in Int /\ V[n - d] \in Int /\ top \in Int
      BY <1>3, <1>4, <3>1
    <3>4. (d - 1) * B + B = d * B /\ d * B \in Nat /\ d - 1 \in Nat
      BY <1>2, <3>1, Multiples
    <3>5. (d - 1) * B \in Nat
      BY <1>2, <3>4
    <3> HIDE DEF i, top
    <3>6. top - V[n - d] <= d * B
      BY <1>2, <3>2, <3>3, <3>4, <3>5
    <3> QED BY <3>1, <3>6
  <2> HIDE DEF F, n
  <2>3. \A i \in 0 .. n : i \in F
    BY <1>2, <2>1, <2>2, IntervalInduction
  <2> QED BY <2>3 DEF F
<1>7. \A i \in 0 .. n : top - V[i] <= (n - i) * B
  <2> SUFFICES ASSUME NEW i \in 0 .. n PROVE top - V[i] <= (n - i) * B
    OBVIOUS
  <2>1. n - i \in 0 .. n /\ n - (n - i) = i
    BY <1>2
  <2> QED BY <1>6, <2>1
<1>8. n * B < Huge /\ n * B \in Nat
  <2>1. n * B <= L * B /\ n * B \in Nat /\ L * B \in Nat
    BY <1>2, Multiples
  <2> QED BY <1>1, <1>2, <2>1
<1> SUFFICES ASSUME NEW i \in 0 .. n
             PROVE  /\ V[i] < Huge /\ top - V[i] < Huge
                    /\ i # n => V[i] + (top - V[i + 1]) < Huge
  BY DEF IsSmall
<1>9. V[i] \in Int /\ top \in Int /\ V[i] <= i * B /\ top - V[i] <= (n - i) * B
  BY <1>2, <1>3, <1>5, <1>7
<1>10. i * B \in Nat /\ i * B <= n * B /\ (n - i) * B \in Nat /\ i * B + (n - i) * B = n * B
  BY <1>2, Multiples
<1>11. V[i] < Huge /\ top - V[i] < Huge
  <2> HIDE DEF top, n
  <2> QED BY <1>2, <1>8, <1>9, <1>10
<1>12. i # n => V[i] + (top - V[i + 1]) < Huge
  <2> SUFFICES ASSUME i # n PROVE V[i] + (top - V[i + 1]) < Huge
    OBVIOUS
  <2>1. i + 1 \in 0 .. n /\ i + 1 # 0 /\ (i + 1) - 1 = i /\ n - (i + 1) \in 0 .. n
    BY <1>2
  <2>2. V[i + 1] \in Int /\ top - V[i + 1] <= (n - (i + 1)) * B
    BY <1>3, <1>7, <2>1
  <2>3. i * B + B = (i + 1) * B /\ (i + 1) * B \in Nat
    BY <1>2, <2>1, Multiples
  <2>4. (i + 1) * B + (n - (i + 1)) * B = n * B /\ (n - (i + 1)) * B \in Nat
    BY <1>2, <2>1, Multiples
  <2> HIDE DEF top, n
  <2> QED BY <1>2, <1>8, <1>9, <1>10, <2>2, <2>3, <2>4
<1> QED BY <1>11, <1>12

--------------------------------------------------------------------------------
(* What the labels say of a path. *)

\* A value of the path and the job next to it, which the labels tell apart.
FwdKey(s, p, n, i) == IF Cyclic(s) /\ n # One /\ i # Len(p) THEN p[i + 1] ELSE -1
BwdKey(s, p, i) == IF Cyclic(s) /\ i # 0 THEN p[i] ELSE -1

\* An arc on the path adds its reduced cost.
LEMMA ArcValue ==
  ASSUME NEW I, IsInstance(I), NEW D, IsDiagram(I, D), NEW pi, IsDuals(I, pi),
         NEW p \in Sequences(I), NEW V, IsValue(I, pi, p, V),
         NEW n \in Nodes(D), NEW i \in 0 .. Len(p), <<n, i>> \in OnTime(I, D, p),
         i # Len(p), p[i + 1] = JobAt(I, n)
  PROVE  /\ V[i + 1] = V[i] + ReducedCost(I, pi, n) /\ V[i] \in Int /\ V[i + 1] \in Int
         /\ ReducedCost(I, pi, n) \in Int /\ i + 1 \in 1 .. Len(p) /\ i + 1 \in 0 .. Len(p)
         /\ JobAt(I, n) \in Nat \ {0}
<1>1. i + 1 \in 1 .. Len(p) /\ (i + 1) - 1 = i /\ i + 1 \in 0 .. Len(p)
  <2>1. Len(p) \in Nat
    BY SequenceFacts DEF Sequences
  <2> QED BY <2>1
<1>2. n[2] = EndOf(I, p, i)
  <2>1. n # One
    BY NodeFacts
  <2> QED BY <2>1 DEF OnTime
<1>3. CostAt(I, p, i + 1) = WeightedTardinessStart(I.jobs[JobAt(I, n)], n[2])
  BY <1>1, <1>2, CostOnTime
<1>4. CostAt(I, p, i + 1) - pi[p[i + 1]] = ReducedCost(I, pi, n)
  BY <1>3 DEF ReducedCost
<1>5. V[i + 1] = V[i] + (CostAt(I, p, i + 1) - pi[p[i + 1]]) /\ V[i] \in Int /\ V[i + 1] \in Int
  BY <1>1 DEF IsValue
<1>6. JobAt(I, n) \in Nat \ {0}
  <2>1. JobAt(I, n) \in DOMAIN I.jobs /\ DOMAIN I.jobs = 1 .. Len(I.jobs) /\ Len(I.jobs) \in Nat
    BY NodeFacts, InstanceFacts
  <2> QED BY <2>1
<1> QED BY <1>1, <1>4, <1>5, <1>6, ReducedCostType

LEMMA ServesLess ==
  ASSUME NEW P \in Pairs, NEW v \in Int, NEW k, Serves(P, v, k)
  PROVE  Serves(P, v, -1)
BY ServesAny DEF Serves

\* The keys of neighbouring places on an elementary path.
LEMMA KeyFacts ==
  ASSUME NEW I, IsInstance(I), NEW p \in Sequences(I), IsElementary(p), NEW s
  PROVE  /\ \A i \in 0 .. Len(p) : BwdKey(s, p, i) \in Int /\ BwdKey(s, p, i) # 0 /\ (~Cyclic(s) => BwdKey(s, p, i) = -1)
         /\ \A x, i : i \in 0 .. Len(p) => MayFollow(s, x, FwdKey(s, p, x, i))
         /\ \A i \in 0 .. Len(p) : i # Len(p) =>
              /\ BwdKey(s, p, i) # p[i + 1] /\ BwdKey(s, p, i + 1) = Key(s, p[i + 1])
              /\ \A x : FwdKey(s, p, x, i + 1) # p[i + 1]
              /\ \A x : x # One => FwdKey(s, p, x, i) = Key(s, p[i + 1])
<1>1. Len(p) \in Nat /\ \A i \in 1 .. Len(p) : p[i] \in Nat \ {0}
  <2>1. Len(p) \in Nat /\ \A i \in 1 .. Len(p) : p[i] \in DOMAIN I.jobs
    BY SequenceFacts DEF Sequences
  <2>2. DOMAIN I.jobs = 1 .. Len(I.jobs) /\ Len(I.jobs) \in Nat
    BY InstanceFacts
  <2> QED BY <2>1, <2>2
<1>2. \A i, k \in 1 .. Len(p) : p[i] = p[k] => i = k
  BY ElementaryFacts DEF Sequences
<1> DEFINE n == Len(p)
<1>3. \A i \in 0 .. n : /\ i # 0 => i \in 1 .. n
                        /\ i # n => i + 1 \in 1 .. n /\ i + 1 \in 0 .. n /\ i + 1 # i /\ i + 1 # 0
                        /\ i # n /\ i + 1 # n => (i + 1) + 1 \in 1 .. n /\ (i + 1) + 1 # i + 1
  BY <1>1
<1>4. \A i \in 1 .. n : p[i] \in Int /\ p[i] # 0 /\ p[i] # -1
  BY <1>1
<1>5. -1 \in Int /\ -1 # 0
  OBVIOUS
<1>6. \A i \in 0 .. n : BwdKey(s, p, i) \in Int /\ BwdKey(s, p, i) # 0 /\ (~Cyclic(s) => BwdKey(s, p, i) = -1)
  BY <1>3, <1>4, <1>5 DEF BwdKey
<1>7. \A x, i : i \in 0 .. n => MayFollow(s, x, FwdKey(s, p, x, i))
  <2> SUFFICES ASSUME NEW x, NEW i \in 0 .. n PROVE MayFollow(s, x, FwdKey(s, p, x, i))
    OBVIOUS
  <2>1. CASE Cyclic(s) /\ x # One /\ i # Len(p)
    <3>1. FwdKey(s, p, x, i) = p[i + 1]
      BY <2>1 DEF FwdKey
    <3>2. p[i + 1] \in Int /\ p[i + 1] # 0
      BY <1>3, <1>4, <2>1
    <3> QED BY <2>1, <3>1, <3>2 DEF MayFollow
  <2>2. CASE ~(Cyclic(s) /\ x # One /\ i # Len(p))
    <3>1. FwdKey(s, p, x, i) = -1
      BY <2>2 DEF FwdKey
    <3> QED BY <1>5, <3>1 DEF MayFollow
  <2> QED BY <2>1, <2>2
<1>8. ASSUME NEW i \in 0 .. n, i # n
      PROVE  /\ BwdKey(s, p, i) # p[i + 1] /\ BwdKey(s, p, i + 1) = Key(s, p[i + 1])
             /\ \A x : FwdKey(s, p, x, i + 1) # p[i + 1]
             /\ \A x : x # One => FwdKey(s, p, x, i) = Key(s, p[i + 1])
  <2>1. BwdKey(s, p, i) # p[i + 1]
    BY <1>2, <1>3, <1>4, <1>8 DEF BwdKey
  <2>2. BwdKey(s, p, i + 1) = Key(s, p[i + 1])
    BY <1>3, <1>8 DEF BwdKey, Key
  <2>3. \A x : FwdKey(s, p, x, i + 1) # p[i + 1]
    BY <1>2, <1>3, <1>4, <1>8 DEF FwdKey
  <2>4. \A x : x # One => FwdKey(s, p, x, i) = Key(s, p[i + 1])
    BY <1>8 DEF FwdKey, Key
  <2> QED BY <2>1, <2>2, <2>3, <2>4
<1> QED BY <1>6, <1>7, <1>8

\* Where the forward labels have what the path has cost so far.
Served(I, D, s, p, V, f) == {x \in OnTime(I, D, p) : Serves(f[x[1]], V[x[2]], FwdKey(s, p, x[1], x[2]))}

LEMMA ForwardServes ==
  ASSUME NEW I, IsInstance(I), NEW D, IsDiagram(I, D), D.root # One, NEW pi, IsDuals(I, pi), NEW s,
         NEW f, IsLabelling(D, f), IsLabelled(I, D, pi, s, f, Nodes(D)),
         NEW p \in Sequences(I), IsElementary(p), NEW V, IsValue(I, pi, p, V), IsSmall(p, V)
  PROVE  IsFollowed(I, D, p, Served(I, D, s, p, V, f)) /\ <<D.root, 0>> \in Served(I, D, s, p, V, f)
<1> DEFINE Q == Served(I, D, s, p, V, f)
<1>0. \A n, i : <<n, i>> \in Q <=> <<n, i>> \in OnTime(I, D, p) /\ Serves(f[n], V[i], FwdKey(s, p, n, i))
  BY DEF Served
<1> HIDE DEF Q
<1>1. <<D.root, 0>> \in Q
  <2>1. <<D.root, 0>> \in OnTime(I, D, p) /\ D.root \in Nodes(D) /\ D.root[2] = 0
    BY PathIsOnTime DEF IsDiagram, Vertices
  <2>2. f[D.root] = <<Start, NoLabel>>
    BY <2>1 DEF IsLabelled, IsReady
  <2>3. FwdKey(s, p, D.root, 0) # 0 /\ 0 \in 0 .. Len(p)
    <3>1. Len(p) \in Nat
      BY SequenceFacts DEF Sequences
    <3>2. 0 \in 0 .. Len(p)
      BY <3>1
    <3>3. MayFollow(s, D.root, FwdKey(s, p, D.root, 0))
      BY <3>2, KeyFacts
    <3> QED BY <3>2, <3>3 DEF MayFollow
  <2>4. Start.f = 0 /\ Start.job = 0 /\ V[0] = 0
    BY DEF Start, IsValue
  <2>5. Serves(f[D.root], V[0], FwdKey(s, p, D.root, 0))
    <3>1. f[D.root][1] = Start
      BY <2>2
    <3>2. f[D.root][1].f <= V[0] /\ f[D.root][1].job = 0
      BY <2>4, <3>1
    <3> QED BY <2>3, <3>2 DEF Serves
  <2> QED BY <1>0, <2>1, <2>5
<1>2. ASSUME NEW n \in Nodes(D), NEW i \in 0 .. Len(p), <<n, i>> \in Q
      PROVE  /\ <<D.lo[n], i>> \in Q
             /\ i # Len(p) /\ p[i + 1] = JobAt(I, n) => <<D.hi[n], i + 1>> \in Q
  <2>1. <<n, i>> \in OnTime(I, D, p) /\ Serves(f[n], V[i], FwdKey(s, p, n, i))
    BY <1>0, <1>2
  <2>2. V[i] \in Int /\ V[i] < Huge
    BY DEF IsValue, IsSmall
  <2>3. f[n] \in Pairs /\ n # One /\ D.lo[n] \in Vertices(D) /\ D.hi[n] \in Vertices(D)
    BY NodeFacts, LabellingFacts DEF Vertices
  <2>4. /\ <<D.lo[n], i>> \in OnTime(I, D, p)
        /\ i # Len(p) /\ p[i + 1] = JobAt(I, n) => <<D.hi[n], i + 1>> \in OnTime(I, D, p)
    BY <2>1, PathIsOnTime
  <2>5. \A k \in Int :
          /\ MayFollow(s, D.lo[n], k) /\ Serves(f[n], V[i], k) => Serves(f[D.lo[n]], V[i], k)
          /\ /\ V[i] + ReducedCost(I, pi, n) < Huge /\ MayFollow(s, D.hi[n], k) /\ k # JobAt(I, n)
             /\ Serves(f[n], V[i], Key(s, JobAt(I, n)))
             => Serves(f[D.hi[n]], V[i] + ReducedCost(I, pi, n), k)
    BY <2>2 DEF IsLabelled, IsPassedOn
  <2>6. <<D.lo[n], i>> \in Q
    <3> DEFINE k == FwdKey(s, p, D.lo[n], i)
    <3>1. MayFollow(s, D.lo[n], k)
      BY KeyFacts
    <3>2. k \in Int
      BY <3>1 DEF MayFollow
    <3>3. Serves(f[n], V[i], k)
      <4>1. CASE D.lo[n] = One
        <5>1. k = -1
          BY <4>1 DEF FwdKey
        <5>2. Serves(f[n], V[i], -1)
          BY <2>1, <2>2, <2>3, ServesLess
        <5> QED BY <5>1, <5>2
      <4>2. CASE D.lo[n] # One
        <5>1. k = FwdKey(s, p, n, i)
          BY <2>3, <4>2 DEF FwdKey
        <5> QED BY <2>1, <5>1
      <4> QED BY <4>1, <4>2
    <3>4. Serves(f[D.lo[n]], V[i], k)
      BY <2>5, <3>1, <3>2, <3>3
    <3> QED BY <1>0, <2>4, <3>4
  <2>7. ASSUME i # Len(p), p[i + 1] = JobAt(I, n) PROVE <<D.hi[n], i + 1>> \in Q
    <3> DEFINE k == FwdKey(s, p, D.hi[n], i + 1)
    <3>1. V[i + 1] = V[i] + ReducedCost(I, pi, n) /\ i + 1 \in 0 .. Len(p)
      BY <2>1, <2>7, ArcValue
    <3>2. MayFollow(s, D.hi[n], k)
      BY <3>1, KeyFacts
    <3>3. k \in Int
      BY <3>2 DEF MayFollow
    <3>4. k # JobAt(I, n) /\ FwdKey(s, p, n, i) = Key(s, JobAt(I, n))
      BY <2>3, <2>7, KeyFacts
    <3>5. V[i + 1] < Huge
      BY <3>1 DEF IsSmall
    <3>6. Serves(f[D.hi[n]], V[i + 1], k)
      BY <2>1, <2>5, <3>1, <3>2, <3>3, <3>4, <3>5
    <3> QED BY <1>0, <2>4, <2>7, <3>6
  <2> QED BY <2>6, <2>7
<1>3. IsFollowed(I, D, p, Q)
  BY <1>2 DEF IsFollowed
<1> QED BY <1>1, <1>3 DEF Q

\* The first label of the terminal has at most what any elementary path has.
LEMMA ForwardBest ==
  ASSUME NEW I, IsInstance(I), NEW D, IsDiagram(I, D), D.root # One, NEW pi, IsDuals(I, pi), NEW s,
         NEW f, IsLabelling(D, f), IsLabelled(I, D, pi, s, f, Nodes(D)),
         NEW p \in PathsOf(I, D), p \in Sequences(I), IsElementary(p),
         NEW V, IsValue(I, pi, p, V), IsSmall(p, V)
  PROVE  f[One][1].f <= V[Len(p)]
<1> DEFINE Q == Served(I, D, s, p, V, f)
           Z == {x \in Vertices(D) \X (0 .. Len(p)) : <<One, Len(p)>> \in Q}
<1>1. IsFollowed(I, D, p, Q) /\ <<D.root, 0>> \in Q
  BY ForwardServes
<1>2. Len(p) \in Nat /\ Rest(p, 0) = p
  BY SequenceFacts, RestFacts DEF Sequences
<1>3. 0 \in 0 .. Len(p) /\ Len(p) \in 0 .. Len(p)
  BY <1>2
<1> HIDE DEF Q
<1>4. IsInherited(I, D, p, Q, Z)
  <2>1. One \in Vertices(D) /\ \A n \in Nodes(D) : n \in Vertices(D)
    BY DEF Vertices
  <2> QED BY <1>3, <2>1 DEF IsInherited
<1>5. <<D.root, 0>> \in Z
  <2> HIDE DEF Z
  <2>1. \A n \in Vertices(D), i \in 0 .. Len(p) :
          <<n, i>> \in Q /\ Rest(p, i) \in PathsBelow(I, D)[n] => <<n, i>> \in Z
    BY <1>1, <1>4, PathInduction
  <2>2. D.root \in Vertices(D) /\ Rest(p, 0) \in PathsBelow(I, D)[D.root]
    BY <1>2 DEF IsDiagram, PathsOf
  <2> QED BY <1>1, <1>3, <2>1, <2>2
<1>6. <<One, Len(p)>> \in Q
  BY <1>5
<1>7. Serves(f[One], V[Len(p)], FwdKey(s, p, One, Len(p)))
  BY <1>6 DEF Q, Served
<1> QED BY <1>7 DEF Serves

\* The backward labels have what is left of the path.
LEMMA BackwardServes ==
  ASSUME NEW I, IsInstance(I), NEW D, IsDiagram(I, D), NEW pi, IsDuals(I, pi), NEW s,
         NEW f, IsLabelling(D, f), IsPassedUp(I, D, pi, s, f),
         NEW p \in Sequences(I), IsElementary(p), NEW V, IsValue(I, pi, p, V), IsSmall(p, V)
  PROVE  \A n \in Vertices(D), i \in 0 .. Len(p) :
           <<n, i>> \in OnTime(I, D, p) /\ Rest(p, i) \in PathsBelow(I, D)[n]
             => Serves(f[n], V[Len(p)] - V[i], BwdKey(s, p, i))
<1> DEFINE Q == OnTime(I, D, p)
           top == V[Len(p)]
           Z == {x \in Vertices(D) \X (0 .. Len(p)) : Serves(f[x[1]], top - V[x[2]], BwdKey(s, p, x[2]))}
<1>0. \A n \in Vertices(D), i \in 0 .. Len(p) : <<n, i>> \in Z <=> Serves(f[n], top - V[i], BwdKey(s, p, i))
  OBVIOUS
<1>1. IsFollowed(I, D, p, Q)
  BY OnTimeIsFollowed
<1>2. Len(p) \in 0 .. Len(p) /\ One \in Vertices(D) /\ \A n \in Nodes(D) : n \in Vertices(D)
  <2>1. Len(p) \in Nat
    BY SequenceFacts DEF Sequences
  <2> QED BY <2>1 DEF Vertices
<1>3. top \in Int /\ \A i \in 0 .. Len(p) : V[i] \in Int /\ top - V[i] \in Int /\ top - V[i] < Huge
  <2>1. \A i \in 0 .. Len(p) : V[i] \in Int
    BY DEF IsValue
  <2>2. \A i \in 0 .. Len(p) : top - V[i] < Huge
    BY DEF IsSmall
  <2>3. top \in Int
    BY <1>2, <2>1
  <2> HIDE DEF top
  <2> QED BY <2>1, <2>2, <2>3
<1> HIDE DEF Z, top, Q
<1>4. <<One, Len(p)>> \in Z
  <2>1. top - V[Len(p)] = 0
    BY <1>3 DEF top
  <2>2. BwdKey(s, p, Len(p)) \in Int /\ BwdKey(s, p, Len(p)) # 0
    BY <1>2, KeyFacts
  <2>3. Serves(f[One], 0, BwdKey(s, p, Len(p)))
    BY <2>2 DEF IsPassedUp
  <2> QED BY <1>0, <1>2, <2>1, <2>3
<1>5. ASSUME NEW n \in Nodes(D), NEW i \in 0 .. Len(p), <<n, i>> \in Q
      PROVE  /\ <<D.lo[n], i>> \in Q /\ <<D.lo[n], i>> \in Z => <<n, i>> \in Z
             /\ i # Len(p) /\ p[i + 1] = JobAt(I, n) /\ <<D.hi[n], i + 1>> \in Q /\ <<D.hi[n], i + 1>> \in Z
                  => <<n, i>> \in Z
  <2> DEFINE k == BwdKey(s, p, i)
  <2>1. k \in Int /\ (~Cyclic(s) => k = -1) /\ n \in Vertices(D) /\ D.lo[n] \in Vertices(D) /\ D.hi[n] \in Vertices(D)
    BY <1>2, KeyFacts, NodeFacts
  <2>2. \A v \in Int :
          /\ Serves(f[D.lo[n]], v, k) => Serves(f[n], v, k)
          /\ v < Huge /\ k # JobAt(I, n) /\ Serves(f[D.hi[n]], v, Key(s, JobAt(I, n)))
               => Serves(f[n], v + ReducedCost(I, pi, n), k)
    BY <2>1 DEF IsPassedUp
  <2>3. <<D.lo[n], i>> \in Z => <<n, i>> \in Z
    BY <1>0, <1>3, <2>1, <2>2
  <2>4. ASSUME i # Len(p), p[i + 1] = JobAt(I, n), <<D.hi[n], i + 1>> \in Z PROVE <<n, i>> \in Z
    <3>1. V[i + 1] = V[i] + ReducedCost(I, pi, n) /\ i + 1 \in 0 .. Len(p) /\ ReducedCost(I, pi, n) \in Int
      BY <1>5, <2>4, ArcValue DEF Q
    <3>2. k # JobAt(I, n) /\ BwdKey(s, p, i + 1) = Key(s, JobAt(I, n))
      BY <2>4, KeyFacts
    <3>3. Serves(f[D.hi[n]], top - V[i + 1], Key(s, JobAt(I, n)))
      BY <1>0, <2>1, <2>4, <3>1, <3>2
    <3>4. Serves(f[n], (top - V[i + 1]) + ReducedCost(I, pi, n), k)
      BY <1>3, <2>2, <3>1, <3>2, <3>3
    <3>5. (top - V[i + 1]) + ReducedCost(I, pi, n) = top - V[i]
      BY <1>3, <3>1
    <3> QED BY <1>0, <2>1, <3>4, <3>5
  <2> QED BY <2>3, <2>4
<1>6. IsInherited(I, D, p, Q, Z)
  BY <1>4, <1>5 DEF IsInherited
<1>7. \A n \in Vertices(D), i \in 0 .. Len(p) :
        <<n, i>> \in Q /\ Rest(p, i) \in PathsBelow(I, D)[n] => <<n, i>> \in Z
  BY <1>1, <1>6, PathInduction
<1> QED BY <1>0, <1>7 DEF Q, top

--------------------------------------------------------------------------------
(* What fixing leaves. *)

\* The parts of evaluate_nodes.
Side(s, l, j) == IF Cyclic(s) /\ l[1].job = j THEN l[2].f ELSE l[1].f
Through(I, D, pi, s, fw, bw, n) ==
  Plus(Plus(Side(s, fw[n], JobAt(I, n)), Side(s, bw[D.hi[n]], JobAt(I, n))), ReducedCost(I, pi, n))
Best(D, s, fw, bw) == IF s = "backward_cycle" THEN bw[D.root][1].f ELSE fw[One][1].f

LEMMA FixableFacts ==
  ASSUME NEW I, NEW D, NEW pi, NEW ub, NEW s, NEW fw
  PROVE  /\ Fixable(I, D, pi, ub, s, fw) \subseteq Nodes(D)
         /\ \A n \in Fixable(I, D, pi, ub, s, fw) :
              Exceeds(ConstLB(I, pi) + (I.m - 1) * Best(D, s, fw, Backward(I, D, pi, s))
                        + Through(I, D, pi, s, fw, Backward(I, D, pi, s), n), ub, s)
BY DEF Fixable, Side, Through, Best

\* A label has what its node has for the next job.
LEMMA SideServes ==
  ASSUME NEW P \in Pairs, NEW v \in Int, NEW j, NEW s, Serves(P, v, Key(s, j))
  PROVE  Side(s, P, j) \in Int /\ Side(s, P, j) <= v
<1>1. P[1].f \in Int /\ P[2].f \in Int
  BY PairFacts, LabelFacts
<1>2. CASE Cyclic(s)
  <2>1. Serves(P, v, j)
    BY <1>2 DEF Key
  <2> QED BY <1>1, <1>2, <2>1 DEF Side, Serves
<1>3. CASE ~Cyclic(s)
  <2>1. Side(s, P, j) = P[1].f
    BY <1>3 DEF Side
  <2>2. P[1].f <= v
    BY DEF Serves
  <2> QED BY <1>1, <2>1, <2>2
<1> QED BY <1>2, <1>3

\* The labels that a fixing at these duals goes by.
IsPriced(I, D, pi, s, fw) ==
  /\ IsLabelling(D, fw) /\ IsLabelled(I, D, pi, s, fw, Nodes(D))
  /\ D.root # One /\ IsDuals(I, pi) /\ IsTame(I, pi)

LEMMA PathValue ==
  ASSUME NEW I, IsInstance(I), NEW D, IsDiagram(I, D), NEW pi, IsDuals(I, pi), IsTame(I, pi),
         NEW p \in PathsOf(I, D), IsElementary(p)
  PROVE  /\ p \in Sequences(I) /\ Value(I, pi, p) \in Int
         /\ \E V : IsValue(I, pi, p, V) /\ V[Len(p)] = Value(I, pi, p) /\ IsSmall(p, V)
<1>1. p \in Sequences(I) /\ IsShort(I, p)
  BY PathIsShort
<1>2. PICK V : IsValue(I, pi, p, V) /\ V[Len(p)] = Value(I, pi, p)
  BY <1>1, ValueFacts
<1>3. IsSmall(p, V)
  BY <1>1, <1>2, ValuesAreSmall
<1> QED BY <1>1, <1>2, <1>3, ValueFacts

\* No elementary path is better than the first label at either end...
LEMMA LabelsAreLeast ==
  ASSUME NEW I, IsInstance(I), NEW D, IsDiagram(I, D), NEW pi, NEW s, NEW fw, IsPriced(I, D, pi, s, fw),
         NEW p \in PathsOf(I, D), IsElementary(p)
  PROVE  /\ fw[One][1].f \in Int /\ fw[One][1].f <= Value(I, pi, p)
         /\ Backward(I, D, pi, s)[D.root][1].f \in Int /\ Backward(I, D, pi, s)[D.root][1].f <= Value(I, pi, p)
<1> DEFINE bw == Backward(I, D, pi, s)
<1>0. IsDuals(I, pi) /\ IsTame(I, pi) /\ D.root # One /\ IsLabelling(D, fw) /\ IsLabelled(I, D, pi, s, fw, Nodes(D))
  BY DEF IsPriced
<1>1. IsLabelling(D, bw) /\ IsPassedUp(I, D, pi, s, bw)
  BY <1>0, BackwardFacts
<1> HIDE DEF bw
<1>2. PICK V : IsValue(I, pi, p, V) /\ V[Len(p)] = Value(I, pi, p) /\ IsSmall(p, V)
  BY <1>0, PathValue
<1>3. p \in Sequences(I)
  BY <1>0, PathValue
<1>4. fw[One][1].f <= Value(I, pi, p)
  BY <1>0, <1>2, <1>3, ForwardBest
<1>5. bw[D.root][1].f <= Value(I, pi, p)
  <2>1. D.root \in Vertices(D) /\ <<D.root, 0>> \in OnTime(I, D, p)
    BY PathIsOnTime, <1>3 DEF IsDiagram
  <2>2. 0 \in 0 .. Len(p) /\ Rest(p, 0) = p /\ V[0] = 0 /\ V[Len(p)] \in Int
    <3>1. Len(p) \in Nat /\ Rest(p, 0) = p
      BY <1>3, SequenceFacts, RestFacts DEF Sequences
    <3>2. 0 \in 0 .. Len(p) /\ Len(p) \in 0 .. Len(p)
      BY <3>1
    <3> QED BY <1>2, <3>1, <3>2 DEF IsValue
  <2>3. Rest(p, 0) \in PathsBelow(I, D)[D.root]
    BY <2>2 DEF PathsOf
  <2>4. \A n \in Vertices(D), i \in 0 .. Len(p) :
           <<n, i>> \in OnTime(I, D, p) /\ Rest(p, i) \in PathsBelow(I, D)[n]
             => Serves(bw[n], V[Len(p)] - V[i], BwdKey(s, p, i))
    BY <1>0, <1>1, <1>2, <1>3, BackwardServes
  <2>5. Serves(bw[D.root], V[Len(p)] - V[0], BwdKey(s, p, 0))
    BY <2>1, <2>2, <2>3, <2>4
  <2>6. bw[D.root][1].f <= V[Len(p)] - V[0]
    BY <2>5 DEF Serves
  <2> QED BY <1>2, <2>2, <2>6
<1>6. fw[One][1].f \in Int /\ bw[D.root][1].f \in Int
  <2>1. One \in Vertices(D) /\ D.root \in Vertices(D)
    BY DEF Vertices, IsDiagram
  <2>2. fw[One] \in Pairs /\ bw[D.root] \in Pairs
    BY <1>0, <1>1, <2>1, LabellingFacts
  <2> QED BY <2>2, PairFacts, LabelFacts
<1> QED BY <1>4, <1>5, <1>6 DEF bw

\* ... so than the best label.
LEMMA BestIsLeast ==
  ASSUME NEW I, IsInstance(I), NEW D, IsDiagram(I, D), NEW pi, NEW s, NEW fw, IsPriced(I, D, pi, s, fw),
         NEW p \in PathsOf(I, D), IsElementary(p)
  PROVE  /\ Best(D, s, fw, Backward(I, D, pi, s)) \in Int
         /\ Best(D, s, fw, Backward(I, D, pi, s)) <= Value(I, pi, p)
BY LabelsAreLeast DEF Best

\* The best path through an arc that a path takes is no worse than it.
LEMMA ThroughIsLess ==
  ASSUME NEW I, IsInstance(I), NEW D, IsDiagram(I, D), NEW pi, NEW s, NEW fw, IsPriced(I, D, pi, s, fw),
         NEW p \in Sequences(I), IsElementary(p), NEW V, IsValue(I, pi, p, V), IsSmall(p, V),
         NEW n \in Nodes(D), NEW i \in 0 .. Len(p), <<n, i>> \in Served(I, D, s, p, V, fw),
         i # Len(p), p[i + 1] = JobAt(I, n), Rest(p, i + 1) \in PathsBelow(I, D)[D.hi[n]]
  PROVE  /\ Through(I, D, pi, s, fw, Backward(I, D, pi, s), n) \in Int
         /\ Through(I, D, pi, s, fw, Backward(I, D, pi, s), n) <= V[Len(p)]
<1> DEFINE bw == Backward(I, D, pi, s)
           j == JobAt(I, n)
           x == Side(s, fw[n], j)
           y == Side(s, bw[D.hi[n]], j)
           rc == ReducedCost(I, pi, n)
           top == V[Len(p)]
           a == V[i]
           b == V[i + 1]
<1>0. IsDuals(I, pi) /\ IsTame(I, pi) /\ D.root # One /\ IsLabelling(D, fw) /\ IsLabelled(I, D, pi, s, fw, Nodes(D))
  BY DEF IsPriced
<1>1. IsLabelling(D, bw) /\ IsPassedUp(I, D, pi, s, bw)
  BY <1>0, BackwardFacts
<1>2. <<n, i>> \in OnTime(I, D, p) /\ Serves(fw[n], a, FwdKey(s, p, n, i))
  BY DEF Served
<1>3. b = a + rc /\ a \in Int /\ b \in Int /\ rc \in Int /\ i + 1 \in 0 .. Len(p)
  BY <1>0, <1>2, ArcValue
<1>4. n # One /\ n \in Vertices(D) /\ D.hi[n] \in Vertices(D)
  BY NodeFacts DEF Vertices
<1>5. top \in Int /\ a < Huge /\ a + (top - b) < Huge
  <2>1. Len(p) \in 0 .. Len(p)
    <3>1. Len(p) \in Nat
      BY SequenceFacts DEF Sequences
    <3> QED BY <3>1
  <2>2. top \in Int
    BY <2>1 DEF IsValue
  <2>3. a < Huge /\ a + (top - b) < Huge
    BY DEF IsSmall
  <2> QED BY <2>2, <2>3
<1>6. x \in Int /\ x <= a
  <2>1. FwdKey(s, p, n, i) = Key(s, j)
    BY <1>4, KeyFacts
  <2>2. fw[n] \in Pairs /\ Serves(fw[n], a, Key(s, j))
    BY <1>0, <1>2, <1>4, <2>1, LabellingFacts
  <2> HIDE DEF a, j
  <2> QED BY <1>3, <2>2, SideServes
<1>7. y \in Int /\ y <= top - b
  <2>1. <<D.hi[n], i + 1>> \in OnTime(I, D, p)
    BY <1>2, PathIsOnTime
  <2>2. BwdKey(s, p, i + 1) = Key(s, j)
    BY KeyFacts
  <2>3. Serves(bw[D.hi[n]], top - b, Key(s, j))
    <3> HIDE DEF bw
    <3>1. \A u \in Vertices(D), k \in 0 .. Len(p) :
            <<u, k>> \in OnTime(I, D, p) /\ Rest(p, k) \in PathsBelow(I, D)[u]
              => Serves(bw[u], V[Len(p)] - V[k], BwdKey(s, p, k))
      BY <1>0, <1>1, BackwardServes
    <3> QED BY <1>3, <1>4, <2>1, <2>2, <3>1
  <2>4. bw[D.hi[n]] \in Pairs
    BY <1>1, <1>4, LabellingFacts
  <2>5. top - b \in Int
    BY <1>3, <1>5
  <2> DEFINE v == top - b
  <2> HIDE DEF top, b, j, bw, v
  <2>6. Serves(bw[D.hi[n]], v, Key(s, j)) /\ v \in Int
    BY <2>3, <2>5 DEF v
  <2>7. y \in Int /\ y <= v
    BY <2>4, <2>6, SideServes
  <2> QED BY <2>7 DEF v
<1> HIDE DEF x, y, rc, top, a, b
<1>8. Plus(x, y) \in Int /\ Plus(x, y) <= a + y
  BY <1>3, <1>5, <1>6, <1>7, PlusFacts
<1>9. Plus(x, y) <= a + (top - b) /\ a + (top - b) \in Int
  BY <1>3, <1>5, <1>6, <1>7, <1>8
<1>10. Plus(Plus(x, y), rc) \in Int /\ Plus(Plus(x, y), rc) <= (a + (top - b)) + rc
  <2> DEFINE z == Plus(x, y)
             v == a + (top - b)
  <2>1. z \in Int /\ v \in Int /\ z <= v /\ v < Huge
    BY <1>5, <1>8, <1>9
  <2> HIDE DEF z, v
  <2>2. Plus(z, rc) \in Int /\ Plus(z, rc) <= v + rc
    BY <1>3, <2>1, PlusFacts
  <2> QED BY <2>2 DEF z, v
<1>11. (a + (top - b)) + rc = top
  BY <1>3, <1>5
<1>12. Through(I, D, pi, s, fw, bw, n) = Plus(Plus(x, y), rc)
  BY DEF Through, x, y, rc
<1> QED BY <1>10, <1>11, <1>12 DEF top

\* The machines of a complete schedule, those that work with the least load.
IsPlan(I, x) ==
  /\ x \in [1 .. I.m -> Sequences(I)]
  /\ \A k \in 1 .. I.m : IsElementary(x[k]) /\ (x[k] # <<>> => Heavy(I, x[k]))
  /\ UNION {JobsOf(x[k]) : k \in 1 .. I.m} = DOMAIN I.jobs
  /\ \A k, l \in 1 .. I.m : k # l => JobsOf(x[k]) \cap JobsOf(x[l]) = {}

\* What the machines of a schedule are worth together, by the least of them and one.
LEMMA PlanValue ==
  ASSUME NEW I, IsInstance(I), NEW pi, IsDuals(I, pi), NEW x, IsPlan(I, x),
         NEW r \in Int, \A k \in 1 .. I.m : r <= Value(I, pi, x[k]), NEW k0 \in 1 .. I.m
  PROVE  /\ Planned(I, x).cost \in Int /\ ConstLB(I, pi) \in Int
         /\ Planned(I, x).cost - ConstLB(I, pi) >= (I.m - 1) * r + Value(I, pi, x[k0])
<1> DEFINE K == 1 .. I.m
           J == DOMAIN I.jobs
           v == [k \in K |-> SequenceCost(I.jobs, x[k])]
           part == [k \in K |-> JobsOf(x[k])]
           w == [k \in K |-> SumFunctionOnSet(pi, part[k])]
<1>1. I.m \in Nat /\ IsFiniteSet(K) /\ Cardinality(K) = I.m
  <2>1. I.m \in Nat \ {0}
    BY DEF IsInstance
  <2> DEFINE m == I.m
  <2>2. m \in Nat /\ m # 0
    BY <2>1
  <2> HIDE DEF m
  <2>3. IsFiniteSet(1 .. m) /\ Cardinality(1 .. m) = IF 1 > m THEN 0 ELSE m - 1 + 1
    BY <2>2, FS_Interval
  <2>4. Cardinality(1 .. m) = m
    BY <2>2, <2>3
  <2> QED BY <2>2, <2>3, <2>4 DEF m
<1>2. IsFiniteSet(J) /\ \A j \in J : pi[j] \in Int
  <2>1. J = 1 .. Len(I.jobs) /\ Len(I.jobs) \in Nat /\ 1 \in Int
    BY InstanceFacts
  <2>2. IsFiniteSet(J)
    <3> HIDE DEF J
    <3> QED BY <2>1, FS_Interval
  <2> QED BY <2>2 DEF IsDuals
<1>3. ASSUME NEW k \in K
      PROVE  v[k] \in Int /\ w[k] \in Int /\ v[k] - w[k] = Value(I, pi, x[k])
  <2>1. x[k] \in Sequences(I) /\ IsElementary(x[k])
    BY DEF IsPlan
  <2>2. SequenceCost(I.jobs, x[k]) \in Int /\ SumFunctionOnSet(pi, JobsOf(x[k])) \in Int
    BY <2>1, ValueFacts
  <2> QED BY <2>2 DEF Value
<1>4. /\ \A k \in K : part[k] \subseteq J
      /\ \A k, l \in K : k # l => part[k] \cap part[l] = {}
      /\ \A k \in K : w[k] = SumFunctionOnSet(pi, part[k])
      /\ Together(part, K) = J
  <2>1. UNION {JobsOf(x[k]) : k \in K} = J /\ \A k, l \in K : k # l => JobsOf(x[k]) \cap JobsOf(x[l]) = {}
    BY DEF IsPlan
  <2>2. Together(part, K) = J
    BY <2>1 DEF Together
  <2> QED BY <2>1, <2>2
<1>5. Planned(I, x).cost = SumFunctionOnSet(v, K)
  BY DEF Planned, SumFunction
<1>6. ConstLB(I, pi) = SumFunctionOnSet(pi, J)
  BY DEF ConstLB
<1> DEFINE u(k) == Value(I, pi, x[k])
<1>7. \A k \in K : v[k] \in Int /\ w[k] \in Int /\ v[k] - w[k] = u(k) /\ r <= u(k)
  BY <1>3
<1> HIDE DEF v, w, part, J, u, K
<1>8. SumFunctionOnSet(w, K) = SumFunctionOnSet(pi, J)
  BY <1>1, <1>2, <1>4, SumOfParts
<1>9. SumFunctionOnSet(v, K) \in Int /\ SumFunctionOnSet(w, K) \in Int
  BY <1>1, <1>7, SumType
<1>10. k0 \in K /\ \A k \in K : v[k] - w[k] >= r
  <2>1. \A k \in K : v[k] - w[k] >= r
    BY <1>7
  <2> QED BY <2>1 DEF K
<1>11. SumFunctionOnSet(v, K) - SumFunctionOnSet(w, K) >= (Cardinality(K) - 1) * r + (v[k0] - w[k0])
  BY <1>1, <1>7, <1>10, SumOfDifferences
<1>12. SumFunctionOnSet(v, K) - SumFunctionOnSet(w, K) >= (I.m - 1) * r + u(k0)
  BY <1>1, <1>7, <1>10, <1>11
<1> QED BY <1>5, <1>6, <1>8, <1>9, <1>12 DEF u

\* A machine of a schedule better than the incumbent takes no arc that is fixed.
LEMMA FixingSpares ==
  ASSUME NEW I, IsInstance(I), NEW D, IsDiagram(I, D), NEW pi, NEW s, NEW fw, IsPriced(I, D, pi, s, fw),
         NEW x, IsPlan(I, x), \A k \in 1 .. I.m : x[k] \in PathsOf(I, D),
         NEW ub \in Int, Planned(I, x).cost < ub, NEW k0 \in 1 .. I.m
  PROVE  \E Q : Avoids(I, D, Fixable(I, D, pi, ub, s, fw), x[k0], Q)
<1> DEFINE p == x[k0]
           S == Fixable(I, D, pi, ub, s, fw)
           bw == Backward(I, D, pi, s)
           r == Best(D, s, fw, bw)
           through(n) == Through(I, D, pi, s, fw, bw, n)
<1>0. IsDuals(I, pi) /\ IsTame(I, pi) /\ D.root # One /\ IsLabelling(D, fw) /\ IsLabelled(I, D, pi, s, fw, Nodes(D))
  BY DEF IsPriced
<1>1. \A k \in 1 .. I.m : x[k] \in PathsOf(I, D) /\ IsElementary(x[k])
  BY DEF IsPlan
<1>2. r \in Int /\ \A k \in 1 .. I.m : r <= Value(I, pi, x[k])
  BY <1>1, BestIsLeast
<1>3. p \in PathsOf(I, D) /\ IsElementary(p)
  BY <1>1
<1> HIDE DEF p
<1>4. PICK V : IsValue(I, pi, p, V) /\ V[Len(p)] = Value(I, pi, p) /\ IsSmall(p, V)
  BY <1>0, <1>3, PathValue
<1>5. p \in Sequences(I) /\ Value(I, pi, p) \in Int
  BY <1>0, <1>3, PathValue
<1> DEFINE Q == Served(I, D, s, p, V, fw)
<1>6. IsFollowed(I, D, p, Q) /\ <<D.root, 0>> \in Q
  BY <1>0, <1>3, <1>4, <1>5, ForwardServes
<1> DEFINE cost == Planned(I, x).cost
           lb == ConstLB(I, pi)
           others == (I.m - 1) * r
           val == Value(I, pi, p)
<1>7. cost \in Int /\ lb \in Int /\ cost - lb >= others + val
  <2> HIDE DEF r
  <2>1. /\ Planned(I, x).cost \in Int /\ ConstLB(I, pi) \in Int
        /\ Planned(I, x).cost - ConstLB(I, pi) >= (I.m - 1) * r + Value(I, pi, x[k0])
    BY <1>0, <1>2, PlanValue
  <2> QED BY <2>1 DEF p
<1>8. others \in Int
  <2> DEFINE m == I.m
  <2>1. m \in Nat /\ m - 1 \in Int
    BY DEF IsInstance
  <2> HIDE DEF r, m
  <2>2. (m - 1) * r \in Int
    BY <1>2, <2>1
  <2> QED BY <2>2 DEF m
<1>9. ASSUME NEW n \in Nodes(D), NEW i \in 0 .. Len(p), <<n, i>> \in Q, i # Len(p), p[i + 1] = JobAt(I, n),
             Rest(p, i + 1) \in PathsBelow(I, D)[D.hi[n]]
      PROVE  n \notin S
  <2> DEFINE th == through(n)
  <2>1. th \in Int /\ th <= val
    BY <1>3, <1>4, <1>5, <1>9, ThroughIsLess
  <2>2. n \in S => Exceeds(lb + others + th, ub, s)
    BY FixableFacts
  <2> HIDE DEF th, val, others, lb, cost, S
  <2>3. lb + others + th < ub /\ lb + others + th \in Int
    <3>1. cost < ub
      BY DEF cost
    <3> QED BY <1>5, <1>7, <1>8, <2>1, <3>1 DEF val
  <2> DEFINE e == lb + others + th
  <2> HIDE DEF e
  <2>4. e < ub /\ e \in Int /\ (n \in S => Exceeds(e, ub, s))
    BY <2>2, <2>3 DEF e
  <2>5. ~Exceeds(e, ub, s)
    BY <2>4 DEF Exceeds
  <2> QED BY <2>4, <2>5
<1>10. Avoids(I, D, S, p, Q)
  <2> HIDE DEF S, Q
  <2> QED BY <1>6, <1>9 DEF Avoids, IsFollowed
<1> QED BY <1>10 DEF p

--------------------------------------------------------------------------------
(* The cost of the best schedule, which the incumbent is about, is a number. *)

LEMMA JobSetFacts ==
  ASSUME NEW I, IsInstance(I)
  PROVE  /\ IsFiniteSet(DOMAIN I.jobs) /\ \A j \in DOMAIN I.jobs : j \in Int
         /\ \A S \in SUBSET DOMAIN I.jobs : IsFiniteSet(S) /\ Cardinality(S) \in 0 .. Cardinality(DOMAIN I.jobs)
         /\ Cardinality(DOMAIN I.jobs) \in Nat
<1> DEFINE J == DOMAIN I.jobs
<1>1. J = 1 .. Len(I.jobs) /\ Len(I.jobs) \in Nat /\ 1 \in Int
  BY InstanceFacts
<1>2. IsFiniteSet(J) /\ \A j \in J : j \in Int
  <2> HIDE DEF J
  <2> QED BY <1>1, FS_Interval
<1> HIDE DEF J
<1>3. \A S \in SUBSET J : IsFiniteSet(S) /\ Cardinality(S) \in Nat /\ Cardinality(S) <= Cardinality(J)
  BY <1>2, FS_Subset, FS_CardinalityType
<1>4. Cardinality(J) \in Nat
  BY <1>2, FS_CardinalityType
<1>5. \A S \in SUBSET J : Cardinality(S) \in 0 .. Cardinality(J)
  BY <1>3, <1>4
<1> QED BY <1>2, <1>3, <1>4, <1>5 DEF J

LEMMA LoadType ==
  ASSUME NEW I, IsInstance(I), NEW S, S \subseteq DOMAIN I.jobs
  PROVE  Load(I.jobs, S) \in Int /\ \A j \in S : WeightedTardiness(I.jobs[j], Load(I.jobs, S)) \in Int
<1> DEFINE v == [j \in S |-> I.jobs[j].p]
           c == Load(I.jobs, S)
<1>1. \A j \in S : v[j] \in Int /\ I.jobs[j].w \in Nat /\ I.jobs[j].d \in Nat
  BY InstanceFacts
<1>2. c = SumFunctionOnSet(v, S) /\ IsFiniteSet(S)
  BY JobSetFacts DEF Load, SumFunction
<1>3. c \in Int
  <2> HIDE DEF v, c
  <2> QED BY <1>1, <1>2, SumType
<1> HIDE DEF c
<1>4. ASSUME NEW j \in S PROVE WeightedTardiness(I.jobs[j], c) \in Int
  <2> DEFINE w == I.jobs[j].w
             d == I.jobs[j].d
  <2>1. w \in Nat /\ d \in Nat
    BY <1>1
  <2> HIDE DEF w, d
  <2>2. Late(c, d) \in Int
    BY <1>3, <2>1 DEF Late
  <2>3. w * Late(c, d) \in Int
    BY <2>1, <2>2
  <2> QED BY <2>3 DEF WeightedTardiness, w, d
<1> QED BY <1>3, <1>4 DEF c

\* The costs of S by its last job.
LastCosts(jobs, h, S) == {h[S \ {j}] + WeightedTardiness(jobs[j], Load(jobs, S)) : j \in S}
Ordered(jobs, h, S) == IF S = {} THEN 0 ELSE Min(LastCosts(jobs, h, S))

LEMMA OrderedType ==
  ASSUME NEW I, IsInstance(I), NEW S, S \subseteq DOMAIN I.jobs, NEW h, \A j \in S : h[S \ {j}] \in Int
  PROVE  Ordered(I.jobs, h, S) \in Int
<1> DEFINE c == [j \in S |-> h[S \ {j}] + WeightedTardiness(I.jobs[j], Load(I.jobs, S))]
           W == {c[j] : j \in S}
<1>1. \A j \in S : c[j] \in Int
  <2>1. \A j \in S : h[S \ {j}] \in Int /\ WeightedTardiness(I.jobs[j], Load(I.jobs, S)) \in Int
    BY LoadType
  <2> QED BY <2>1
<1>2. IsFiniteSet(W)
  <2>1. IsFiniteSet(S) /\ DOMAIN c = S
    BY JobSetFacts
  <2> HIDE DEF c
  <2> QED BY <2>1, FiniteImage
<1>3. W = LastCosts(I.jobs, h, S)
  BY DEF LastCosts
<1>4. W \in SUBSET Int /\ (S # {} => W # {})
  BY <1>1
<1> HIDE DEF W
<1>5. S # {} => Min(W) \in Int
  BY <1>2, <1>4, MinIsLeast
<1> QED BY <1>3, <1>5 DEF Ordered

LEMMA OrderCostType ==
  ASSUME NEW I, IsInstance(I)
  PROVE  \A S \in SUBSET DOMAIN I.jobs : OrderCost(I.jobs)[S] \in Int
<1> DEFINE N == SUBSET DOMAIN I.jobs
           V == Int
           K == Cardinality(DOMAIN I.jobs)
           rank == [S \in N |-> Cardinality(S)]
           step == [S \in N |-> [h \in [N -> V] |-> Ordered(I.jobs, h, S)]]
           Is(f) == f = [S \in N |-> Ordered(I.jobs, f, S)]
<1>1. K \in Nat /\ rank \in [N -> 0 .. K] /\ V # {}
  BY JobSetFacts
<1>2. IsStep(step, N, V)
  <2> SUFFICES ASSUME NEW S \in N, NEW h \in [N -> V] PROVE Ordered(I.jobs, h, S) \in V
    BY DEF IsStep
  <2>1. \A j \in S : S \ {j} \in N
    OBVIOUS
  <2> QED BY <2>1, OrderedType
<1>3. IsLocal(step, N, V, rank)
  <2> SUFFICES ASSUME NEW S \in N, NEW h \in [N -> V], NEW k \in [N -> V],
                      \A x \in N : rank[x] < rank[S] => h[x] = k[x]
               PROVE  Ordered(I.jobs, h, S) = Ordered(I.jobs, k, S)
    BY DEF IsLocal
  <2>1. ASSUME NEW j \in S PROVE h[S \ {j}] = k[S \ {j}]
    <3>1. S \ {j} \in N /\ IsFiniteSet(S)
      BY JobSetFacts
    <3>2. Cardinality(S \ {j}) = Cardinality(S) - 1 /\ Cardinality(S) \in Nat
      BY <3>1, FS_RemoveElement, FS_CardinalityType
    <3>3. rank[S \ {j}] < rank[S]
      BY <3>1, <3>2
    <3> QED BY <3>1, <3>3
  <2>2. LastCosts(I.jobs, h, S) = LastCosts(I.jobs, k, S)
    BY <2>1 DEF LastCosts
  <2> QED BY <2>2 DEF Ordered
<1>4. \E f : Is(f)
  <2>1. PICK f \in [N -> V] : \A S \in N : f[S] = step[S][f]
    <3> HIDE DEF N, V, K, rank, step
    <3> QED BY <1>1, <1>2, <1>3, RecursionIsDefined
  <2>2. \A S \in N : f[S] = Ordered(I.jobs, f, S)
    BY <2>1
  <2>3. f = [S \in N |-> f[S]]
    OBVIOUS
  <2>4. f = [S \in N |-> Ordered(I.jobs, f, S)]
    BY <2>2, <2>3, Zenon
  <2> QED BY <2>4
<1> DEFINE f == OrderCost(I.jobs)
<1>5. Is(f)
  BY <1>4 DEF OrderCost, Ordered, LastCosts
<1> HIDE DEF f
<1>6. \A S \in N : f[S] = Ordered(I.jobs, f, S)
  <2>1. f = [S \in N |-> Ordered(I.jobs, f, S)]
    BY <1>5
  <2> HIDE DEF N
  <2> QED BY <2>1
<1> DEFINE F == {S \in N : f[S] \in Int}
<1>7. {} \in F
  BY <1>6 DEF Ordered
<1>8. ASSUME NEW S \in N, S # {}, \A j \in S : S \ {j} \in F PROVE S \in F
  <2>1. \A j \in S : f[S \ {j}] \in Int
    BY <1>8
  <2>2. Ordered(I.jobs, f, S) \in Int
    BY <2>1, OrderedType
  <2> QED BY <1>6, <2>2
<1>9. \A S \in N : S \in F
  <2> DEFINE J == DOMAIN I.jobs
  <2>1. IsFiniteSet(J) /\ N = SUBSET J
    BY JobSetFacts
  <2> HIDE DEF F, J
  <2> QED BY <1>7, <1>8, <2>1, RemovalInduction
<1> QED BY <1>9 DEF f

\* The costs of S by the jobs of a machine that runs the last of them.
SplitCosts(cost, b, S) == {cost[T] + b[S \ T] : T \in {T \in SUBSET S : Max(S) \in T}}
Splits(jobs, cost, k, b) ==
  [S \in SUBSET DOMAIN jobs |->
    IF S = {} THEN 0 ELSE IF k = 0 THEN Infinity ELSE Min(SplitCosts(cost, b, S))]

LEMMA SplitsType ==
  ASSUME NEW I, IsInstance(I), NEW cost, \A S \in SUBSET DOMAIN I.jobs : cost[S] \in Int,
         NEW k \in Nat, NEW b, k # 0 => b \in [SUBSET DOMAIN I.jobs -> Int]
  PROVE  Splits(I.jobs, cost, k, b) \in [SUBSET DOMAIN I.jobs -> Int]
<1> SUFFICES ASSUME NEW S \in SUBSET DOMAIN I.jobs, S # {}, k # 0 PROVE Min(SplitCosts(cost, b, S)) \in Int
  <2>1. Infinity \in Int
    BY SMT DEF Infinity
  <2> QED BY <2>1 DEF Splits
<1> DEFINE P == {T \in SUBSET S : Max(S) \in T}
           c == [T \in P |-> cost[T] + b[S \ T]]
           W == {c[T] : T \in P}
<1>1. IsFiniteSet(S) /\ S \in SUBSET Int
  BY JobSetFacts
<1>2. Max(S) \in S
  BY <1>1, MaxIsGreatest
<1>3. IsFiniteSet(P) /\ S \in P
  <2>1. IsFiniteSet(SUBSET S) /\ P \subseteq SUBSET S
    BY <1>1, FS_SUBSET
  <2>2. S \in P
    BY <1>2
  <2> HIDE DEF P
  <2> QED BY <2>1, <2>2, FS_Subset
<1>4. \A T \in P : c[T] \in Int
  OBVIOUS
<1>5. IsFiniteSet(W)
  <2>1. DOMAIN c = P
    OBVIOUS
  <2> HIDE DEF c, P
  <2> QED BY <1>3, <2>1, FiniteImage
<1>6. W \in SUBSET Int /\ W # {}
  <2> HIDE DEF P, c
  <2> QED BY <1>3, <1>4
<1>7. W = SplitCosts(cost, b, S)
  BY DEF SplitCosts
<1> HIDE DEF W
<1>8. Min(W) \in Int
  BY <1>5, <1>6, MinIsLeast
<1> QED BY <1>7, <1>8

LEMMA OptimalCostType ==
  ASSUME NEW I, IsInstance(I)
  PROVE  OptimalCost(I.jobs, I.m) \in Int
<1> DEFINE cost == OrderCost(I.jobs)
           V == [SUBSET DOMAIN I.jobs -> Int]
           m == I.m
           N == 0 .. m
           rank == [k \in N |-> k]
           step == [k \in N |-> [h \in [N -> V] |-> Splits(I.jobs, cost, k, h[k - 1])]]
           Is(f) == f = [k \in N |-> Splits(I.jobs, cost, k, f[k - 1])]
<1>0. m \in Nat /\ \A S \in SUBSET DOMAIN I.jobs : cost[S] \in Int
  BY OrderCostType DEF IsInstance
<1> HIDE DEF cost, m
<1>1. m \in Nat /\ rank \in [N -> 0 .. m] /\ V # {}
  <2>1. [S \in SUBSET DOMAIN I.jobs |-> 0] \in V
    OBVIOUS
  <2> QED BY <1>0, <2>1
<1>2. \A k \in N : k \in Nat /\ (k # 0 => k - 1 \in N /\ k - 1 < k)
  BY <1>0
<1>3. ASSUME NEW k \in N, NEW h, k # 0 => h[k - 1] \in V PROVE Splits(I.jobs, cost, k, h[k - 1]) \in V
  <2> DEFINE b == h[k - 1]
  <2>1. k # 0 => b \in [SUBSET DOMAIN I.jobs -> Int]
    BY <1>3
  <2> HIDE DEF b
  <2>2. Splits(I.jobs, cost, k, b) \in [SUBSET DOMAIN I.jobs -> Int]
    BY <1>0, <1>2, <2>1, SplitsType
  <2> QED BY <2>2 DEF b
<1>4. IsStep(step, N, V)
  <2> SUFFICES ASSUME NEW k \in N, NEW h \in [N -> V] PROVE Splits(I.jobs, cost, k, h[k - 1]) \in V
    BY DEF IsStep
  <2>1. k # 0 => h[k - 1] \in V
    <3> HIDE DEF V, N
    <3> QED BY <1>2
  <2> QED BY <1>3, <2>1
<1>5. IsLocal(step, N, V, rank)
  <2> SUFFICES ASSUME NEW k \in N, NEW h \in [N -> V], NEW e \in [N -> V],
                      \A x \in N : rank[x] < rank[k] => h[x] = e[x]
               PROVE  Splits(I.jobs, cost, k, h[k - 1]) = Splits(I.jobs, cost, k, e[k - 1])
    <3> HIDE DEF V, rank
    <3> QED BY DEF IsLocal
  <2>1. k # 0 => h[k - 1] = e[k - 1]
    BY <1>2
  <2> QED BY <2>1 DEF Splits
<1>6. \E f : Is(f)
  <2>1. PICK f \in [N -> V] : \A k \in N : f[k] = step[k][f]
    <3> HIDE DEF N, V, rank, step
    <3> QED BY <1>1, <1>4, <1>5, RecursionIsDefined
  <2> HIDE DEF V
  <2>2. \A k \in N : f[k] = Splits(I.jobs, cost, k, f[k - 1])
    BY <2>1
  <2>3. f = [k \in N |-> f[k]]
    OBVIOUS
  <2>4. f = [k \in N |-> Splits(I.jobs, cost, k, f[k - 1])]
    BY <2>2, <2>3, Zenon
  <2> QED BY <2>4
<1> DEFINE f == CHOOSE h : Is(h)
<1>7. Is(f)
  BY <1>6
<1>8. OptimalCost(I.jobs, I.m) = f[m][DOMAIN I.jobs]
  BY DEF OptimalCost, CheapestSplit, Splits, SplitCosts, cost, m
<1> HIDE DEF f
<1>9. \A k \in N : f[k] = Splits(I.jobs, cost, k, f[k - 1])
  <2>1. f = [k \in N |-> Splits(I.jobs, cost, k, f[k - 1])]
    BY <1>7
  <2> HIDE DEF N
  <2> QED BY <2>1
<1> DEFINE F == {k \in N : f[k] \in V}
<1>10. 0 \in F
  <2>1. 0 \in N
    BY <1>0
  <2> QED BY <1>3, <1>9, <2>1
<1>11. ASSUME NEW k \in 1 .. m, k - 1 \in F PROVE k \in F
  <2>1. k \in N
    BY <1>0
  <2>2. f[k - 1] \in V
    BY <1>11
  <2> HIDE DEF V, N
  <2> QED BY <1>3, <1>9, <2>1, <2>2
<1>12. m \in F
  <2>1. m \in N
    BY <1>0
  <2> HIDE DEF F
  <2>2. \A k \in 0 .. m : k \in F
    BY <1>0, <1>10, <1>11, IntervalInduction
  <2> QED BY <2>1, <2>2
<1> QED BY <1>8, <1>12

--------------------------------------------------------------------------------
(* The invariant: a schedule better than the incumbent stays. *)

IsSchedule(I, s) == \E x : IsPlan(I, x) /\ s = Planned(I, x)

PricingInv ==
  /\ DiagramInv
  /\ UB \in Int /\ IsStored(dd, labels)
  /\ lp = NoLP \/ sol = None
  /\ sol # None => dd.root # One /\ sol.pi \in [DOMAIN inst.jobs -> DualValues]
  /\ \A s \in targets : IsSchedule(inst, s)
  /\ ImprovingSchedulesStay

LEMMA PlannedPaths ==
  ASSUME NEW I, NEW x, IsPlan(I, x)
  PROVE  \A p \in Planned(I, x).paths : Heavy(I, p) /\ \E k \in 1 .. I.m : p = x[k]
<1>1. Planned(I, x).paths = {x[k] : k \in 1 .. I.m} \ {<<>>}
  BY DEF Planned
<1> QED BY <1>1 DEF IsPlan

LEMMA PlannedCost ==
  ASSUME NEW I, IsInstance(I), NEW x, IsPlan(I, x)
  PROVE  Planned(I, x).cost \in Int
<1> DEFINE v == [k \in 1 .. I.m |-> SequenceCost(I.jobs, x[k])]
           m == I.m
<1>1. \A k \in 1 .. m : v[k] \in Int
  <2> SUFFICES ASSUME NEW k \in 1 .. m PROVE SequenceCost(I.jobs, x[k]) \in Int
    OBVIOUS
  <2>1. x[k] \in Sequences(I)
    BY DEF IsPlan
  <2>2. PICK C : IsCostUpTo(I, x[k], C) /\ SequenceCost(I.jobs, x[k]) = C[Len(x[k])]
    BY <2>1, CostFacts
  <2>3. Len(x[k]) \in 0 .. Len(x[k])
    <3>1. Len(x[k]) \in Nat
      BY <2>1, SequenceFacts DEF Sequences
    <3> QED BY <3>1
  <2> QED BY <2>2, <2>3 DEF IsCostUpTo
<1>2. m \in Int /\ 1 \in Int
  <2>1. I.m \in Nat \ {0}
    BY DEF IsInstance
  <2> QED BY <2>1
<1>3. Planned(I, x).cost = SumFunctionOnSet(v, 1 .. m)
  BY DEF Planned, SumFunction
<1> HIDE DEF v, m
<1>4. IsFiniteSet(1 .. m)
  BY <1>2, FS_Interval
<1> QED BY <1>1, <1>3, <1>4, SumType

LEMMA PlansFacts ==
  ASSUME NEW I, IsInstance(I), NEW D, IsDiagram(I, D), NEW x \in Plans(I, D)
  PROVE  IsPlan(I, x) /\ Planned(I, x).paths \subseteq PathsOf(I, D)
<1> DEFINE heavy == {s \in PathsOf(I, D) : IsElementary(s) /\ s # <<>> /\ Load(I.jobs, JobsOf(s)) >= I.hmin}
           K == 1 .. I.m
<1>1. /\ x \in [K -> heavy \cup {<<>>}]
      /\ UNION {JobsOf(x[k]) : k \in K} = DOMAIN I.jobs
      /\ \A k, l \in K : k # l => JobsOf(x[k]) \cap JobsOf(x[l]) = {}
  BY DEF Plans
<1>2. ASSUME NEW s \in heavy PROVE Heavy(I, s)
  <2>1. s \in Sequences(I)
    BY PathIsShort
  <2>2. Load(I.jobs, JobsOf(s)) = EndOf(I, s, Len(s))
    BY <2>1, LoadIsEnd
  <2> QED BY <2>1, <2>2 DEF Heavy
<1>3. <<>> \in Sequences(I) /\ IsElementary(<<>>)
  <2>1. <<>> \in Sequences(I)
    BY DEF Sequences
  <2>2. JobsOf(<<>>) = {} /\ Len(<<>>) = 0
    BY DEF JobsOf
  <2>3. Cardinality({}) = 0
    BY FS_EmptySet
  <2> QED BY <2>1, <2>2, <2>3 DEF IsElementary
<1>4. \A k \in K : x[k] \in heavy \cup {<<>>}
  BY <1>1
<1>5. \A k \in K : x[k] \in Sequences(I) /\ IsElementary(x[k]) /\ (x[k] # <<>> => Heavy(I, x[k]))
  <2> HIDE DEF heavy
  <2> QED BY <1>2, <1>3, <1>4 DEF Heavy
<1>6. x \in [K -> Sequences(I)]
  <2> HIDE DEF heavy, K
  <2> QED BY <1>1, <1>5
<1>7. IsPlan(I, x)
  <2> HIDE DEF heavy
  <2> QED BY <1>1, <1>5, <1>6 DEF IsPlan
<1>8. Planned(I, x).paths = {x[k] : k \in K} \ {<<>>}
  BY DEF Planned
<1> QED BY <1>4, <1>7, <1>8

LEMMA PricingInit ==
  ASSUME Init
  PROVE  PricingInv
<1> DEFINE B == Built(inst)
<1>1. /\ inst \in Instances /\ IsInstance(inst) /\ dd = Copy(inst, B)
      /\ targets = {Planned(inst, x) : x \in Plans(inst, B)}
      /\ sol = None /\ lp = NoLP
      /\ labels = [n \in Nodes(dd) |-> <<NoLabel, NoLabel>>]
  BY DiagramAssumption DEF Init, Complete
<1>2. IsDiagram(inst, B) /\ Keeps(inst, B, dd)
  BY <1>1, BuiltFacts, CopyKeeps
<1>3. UB \in Int
  <2>1. OptimalCost(inst.jobs, inst.m) \in Int
    BY <1>1, OptimalCostType
  <2>2. PICK k \in 1 .. 2 : UB = OptimalCost(inst.jobs, inst.m) + k
    BY DEF Init
  <2> QED BY <2>1, <2>2
<1>4. IsStored(dd, labels)
  <2>1. <<NoLabel, NoLabel>> \in Pairs
    BY NoLabels, MakePair
  <2> QED BY <1>1, <2>1 DEF IsStored
<1> HIDE DEF B
<1>5. ASSUME NEW s \in targets PROVE IsSchedule(inst, s) /\ s.paths \subseteq PathsOf(inst, dd)
  <2>1. PICK x \in Plans(inst, B) : s = Planned(inst, x)
    BY <1>1, <1>5
  <2>2. IsPlan(inst, x) /\ s.paths \subseteq PathsOf(inst, B)
    BY <1>1, <1>2, <2>1, PlansFacts
  <2>3. \A p \in s.paths : Heavy(inst, p)
    BY <2>1, <2>2, PlannedPaths
  <2>4. s.paths \subseteq PathsOf(inst, dd)
    BY <1>2, <2>2, <2>3 DEF Keeps
  <2> QED BY <2>1, <2>2, <2>4 DEF IsSchedule
<1> QED BY <1>1, <1>3, <1>4, <1>5, DiagramInit DEF PricingInv, ImprovingSchedulesStay

\* Labels of nodes that stay are stored.
LEMMA StoredStay ==
  ASSUME NEW N, NEW f, \A n \in N : f[n] \in Pairs
  PROVE  Restrict(f, N) \in [N -> Pairs]
BY DEF Restrict

LEMMA DualsAreTame ==
  ASSUME NEW I \in Instances, NEW pi \in [DOMAIN I.jobs -> DualValues]
  PROVE  IsDuals(I, pi) /\ IsTame(I, pi)
<1>1. IsDuals(I, pi)
  BY DiagramAssumption DEF IsDuals
<1>2. PICK B \in 0 .. Huge :
        /\ Len(I.layers) * B < Huge
        /\ \A j \in DOMAIN I.jobs, t \in 0 .. Horizon(I), v \in DualValues :
             WeightedTardinessStart(I.jobs[j], t) - v <= B
  BY HugeAssumption
<1>3. \A j \in DOMAIN I.jobs, t \in 0 .. Horizon(I) : WeightedTardinessStart(I.jobs[j], t) - pi[j] <= B
  BY <1>2
<1> QED BY <1>1, <1>2, <1>3 DEF IsTame

LEMMA FixPricing ==
  ASSUME PricingInv, Fix
  PROVE  PricingInv'
<1>0. DiagramInv /\ DiagramInv'
  BY FixDiagram DEF PricingInv
<1>1. inst \in Instances /\ IsInstance(inst) /\ IsDiagram(inst, dd) /\ Skips(inst, dd)
  BY <1>0, DiagramAssumption DEF DiagramInv
<1> DEFINE fw == Forward(inst, dd, sol.pi, solver, labels)
           S == Fixable(inst, dd, sol.pi, UB, solver, fw)
<1>2. /\ sol # None /\ sol' = None /\ dd' = RemoveArcs(inst, dd, S) /\ labels' = Restrict(fw, Nodes(dd'))
      /\ inst' = inst /\ UB' = UB /\ lp' = lp /\ targets' = targets
  BY DEF Fix
<1>3. dd.root # One /\ IsDuals(inst, sol.pi) /\ IsTame(inst, sol.pi) /\ IsStored(dd, labels)
  BY <1>1, <1>2, DualsAreTame DEF PricingInv
<1>4. IsLabelling(dd, fw) /\ IsLabelled(inst, dd, sol.pi, solver, fw, Nodes(dd))
  BY <1>1, <1>3, ForwardFacts
<1>5. IsPriced(inst, dd, sol.pi, solver, fw) /\ S \subseteq Nodes(dd)
  BY <1>3, <1>4, FixableFacts DEF IsPriced
<1> HIDE DEF fw
<1>6. IsStored(dd', labels')
  <2>1. Nodes(dd') \subseteq Nodes(dd)
    <3> HIDE DEF S
    <3> QED BY <1>1, <1>2, <1>5, RemoveArcsKeeps
  <2>2. \A n \in Nodes(dd') : fw[n] \in Pairs
    BY <1>4, <2>1 DEF IsLabelling, Vertices
  <2> QED BY <1>2, <2>2, StoredStay DEF IsStored
<1>7. ASSUME NEW s \in targets, s.cost < UB, NEW p \in s.paths PROVE p \in PathsOf(inst, dd')
  <2>1. PICK x : IsPlan(inst, x) /\ s = Planned(inst, x)
    BY DEF PricingInv, IsSchedule
  <2>2. Heavy(inst, p) /\ \E k \in 1 .. inst.m : p = x[k]
    BY <2>1, <1>7, PlannedPaths
  <2>3. PICK k0 \in 1 .. inst.m : p = x[k0]
    BY <2>2
  <2>4. s.paths \subseteq PathsOf(inst, dd)
    BY <1>7 DEF PricingInv, ImprovingSchedulesStay
  <2>5. \A k \in 1 .. inst.m : x[k] \in PathsOf(inst, dd)
    <3>1. s.paths = {x[k] : k \in 1 .. inst.m} \ {<<>>}
      BY <2>1 DEF Planned
    <3>2. <<>> \in PathsOf(inst, dd)
      BY <1>1, EmptyIsPath
    <3> QED BY <2>4, <3>1, <3>2
  <2>6. UB \in Int /\ Planned(inst, x).cost < UB
    BY <1>7, <2>1 DEF PricingInv
  <2>7. \E Q : Avoids(inst, dd, S, x[k0], Q)
    BY <1>1, <1>5, <2>1, <2>5, <2>6, FixingSpares
  <2> HIDE DEF S
  <2>8. p \in PathsOf(inst, dd)
    BY <1>7, <2>4
  <2>9. \A q \in PathsOf(inst, dd) :
          Heavy(inst, q) /\ (\E Q : Avoids(inst, dd, S, q, Q)) => q \in PathsOf(inst, RemoveArcs(inst, dd, S))
    BY <1>1, <1>5, RemoveArcsKeeps
  <2> QED BY <1>2, <2>2, <2>3, <2>7, <2>8, <2>9
<1>8. ImprovingSchedulesStay'
  BY <1>2, <1>7 DEF ImprovingSchedulesStay
<1>9. UB' \in Int /\ \A s \in targets' : IsSchedule(inst', s)
  BY <1>2 DEF PricingInv
<1> QED BY <1>0, <1>2, <1>6, <1>8, <1>9 DEF PricingInv

LEMMA BranchPricing ==
  ASSUME PricingInv, Branch
  PROVE  PricingInv'
<1>0. DiagramInv /\ DiagramInv'
  BY BranchDiagram DEF PricingInv
<1>1. inst \in Instances /\ IsInstance(inst) /\ IsDiagram(inst, dd) /\ Skips(inst, dd)
  BY <1>0, DiagramAssumption DEF DiagramInv
<1> DEFINE C == Copy(inst, dd)
<1>2. PICK cut : /\ IsCut(cut) /\ dd' = ChildOf(inst, C, cut)
                 /\ targets' = {s \in targets : \A p \in s.paths : Within(inst, p, cut)}
  <2>1. PICK c \in Candidates(inst, dd, lp), left \in BOOLEAN :
          /\ dd' = Split(inst, C, c[1], c[2], left)
          /\ targets' = {s \in targets : \A p \in s.paths :
                           Within(inst, p, [job |-> c[1], time |-> c[2], left |-> left])}
    BY DEF Branch
  <2> DEFINE cut == [job |-> c[1], time |-> c[2], left |-> left]
  <2>2. c[2] \in Int
    BY <1>1, CandidateFacts
  <2>3. IsCut(cut)
    BY <2>2 DEF IsCut
  <2>4. dd' = ChildOf(inst, C, cut)
    BY <2>1 DEF ChildOf
  <2> QED BY <2>1, <2>3, <2>4
<1>3. inst' = inst /\ UB' = UB /\ sol' = sol /\ lp # NoLP /\ lp' = NoLP /\ labels' = Restrict(labels, Nodes(dd'))
  BY DEF Branch
<1>4. Keeps(inst, dd, C)
  BY <1>1, CopyKeeps
<1>5. IsDiagram(inst, C) /\ Nodes(C) \subseteq Nodes(dd)
      /\ \A p \in PathsOf(inst, dd) : Heavy(inst, p) => p \in PathsOf(inst, C)
  BY <1>4 DEF Keeps
<1> HIDE DEF C
<1>6. /\ Nodes(dd') \subseteq Nodes(C)
      /\ \A p \in PathsOf(inst, C) : Heavy(inst, p) /\ Within(inst, p, cut) => p \in PathsOf(inst, dd')
  BY <1>1, <1>2, <1>5, SplitFacts
<1>7. IsStored(dd', labels')
  <2>1. \A n \in Nodes(dd') : labels[n] \in Pairs
    BY <1>5, <1>6 DEF PricingInv, IsStored
  <2> QED BY <1>3, <2>1, StoredStay DEF IsStored
<1>8. ASSUME NEW s \in targets', s.cost < UB PROVE s.paths \subseteq PathsOf(inst, dd')
  <2>1. s \in targets /\ \A p \in s.paths : Within(inst, p, cut)
    BY <1>2, <1>8
  <2>2. \A p \in s.paths : Heavy(inst, p)
    BY <2>1, PlannedPaths DEF PricingInv, IsSchedule
  <2>3. s.paths \subseteq PathsOf(inst, dd)
    BY <1>8, <2>1 DEF PricingInv, ImprovingSchedulesStay
  <2> QED BY <1>5, <1>6, <2>1, <2>2, <2>3
<1>9. ImprovingSchedulesStay'
  BY <1>3, <1>8 DEF ImprovingSchedulesStay
<1>10. sol' = None /\ UB' \in Int /\ \A s \in targets' : IsSchedule(inst', s)
  BY <1>2, <1>3 DEF PricingInv
<1> QED BY <1>0, <1>3, <1>7, <1>9, <1>10 DEF PricingInv

\* What pricing, fixing and branching keep, on which the theorems below rest.
THEOREM PricingCorrect == Spec => []PricingInv
<1>1. Init => PricingInv
  BY PricingInit
<1>2. PricingInv /\ [Next]_vars => PricingInv'
  <2> SUFFICES ASSUME PricingInv, [Next]_vars PROVE PricingInv'
    OBVIOUS
  <2>1. CASE Price
    <3>1. PICK pi \in [DOMAIN inst.jobs -> DualValues] : sol'.pi = pi
      BY <2>1 DEF Price
    <3>2. /\ dd.root # One /\ lp = NoLP
          /\ inst' = inst /\ dd' = dd /\ labels' = labels /\ UB' = UB /\ lp' = lp /\ cuts' = cuts /\ targets' = targets
      BY <2>1 DEF Price
    <3>3. DiagramInv'
      BY <3>2 DEF PricingInv, DiagramInv, BranchingIsRespected
    <3> QED BY <3>1, <3>2, <3>3 DEF PricingInv, ImprovingSchedulesStay
  <2>2. CASE Fix
    BY <2>2, FixPricing
  <2>3. CASE Improve
    <3>1. PICK s \in targets : s.cost < UB /\ UB' = s.cost
      BY <2>3 DEF Improve
    <3>2. /\ inst' = inst /\ dd' = dd /\ labels' = labels /\ sol' = sol /\ lp' = lp /\ cuts' = cuts /\ targets' = targets
      BY <2>3 DEF Improve
    <3>3. DiagramInv'
      BY <3>2 DEF PricingInv, DiagramInv, BranchingIsRespected
    <3>4. \A e \in targets : e.cost \in Int
      BY PlannedCost, DiagramAssumption DEF PricingInv, DiagramInv, IsSchedule
    <3>5. UB' \in Int /\ \A e \in targets : e.cost < UB' => e.cost < UB
      BY <3>1, <3>4 DEF PricingInv
    <3>6. ImprovingSchedulesStay'
      BY <3>2, <3>5 DEF PricingInv, ImprovingSchedulesStay
    <3> QED BY <3>2, <3>3, <3>5, <3>6 DEF PricingInv
  <2>4. CASE Solve
    <3>1. /\ sol = None
          /\ inst' = inst /\ dd' = dd /\ labels' = labels /\ sol' = sol /\ UB' = UB /\ cuts' = cuts /\ targets' = targets
      BY <2>4 DEF Solve
    <3>2. DiagramInv'
      BY <3>1 DEF PricingInv, DiagramInv, BranchingIsRespected
    <3> QED BY <3>1, <3>2 DEF PricingInv, ImprovingSchedulesStay
  <2>5. CASE Branch
    BY <2>5, BranchPricing
  <2>6. CASE UNCHANGED vars
    <3>1. DiagramInv'
      BY <2>6 DEF vars, PricingInv, DiagramInv, BranchingIsRespected
    <3> QED BY <2>6, <3>1 DEF vars, PricingInv, ImprovingSchedulesStay
  <2> QED BY <2>1, <2>2, <2>3, <2>4, <2>5, <2>6 DEF Next
<1> QED BY <1>1, <1>2, PTL DEF Spec

\* Whatever the duals, no filter, no fixing and no branching takes a path away that a
\* schedule better than the incumbent needs: evaluate_nodes, remove_edges and the filters
\* never lose the optimum, with any of the four solvers.
THEOREM ImprovingSchedulesKept == Spec => []ImprovingSchedulesStay
<1>1. PricingInv => ImprovingSchedulesStay
  BY DEF PricingInv
<1> QED BY <1>1, PricingCorrect, PTL

--------------------------------------------------------------------------------
(* The walk of a column over the diagram. *)

Steps(D) == [arcs : SUBSET (Nodes(D) \X BOOLEAN), found : BOOLEAN]
Takes(I, p, n, i) == i <= Len(p) /\ p[i] = JobAt(I, n)
WalkFrom(I, p, n, i, low, high) ==
  IF Takes(I, p, n, i) THEN [high[i + 1] EXCEPT !.arcs = @ \cup {<<n, TRUE>>}]
                       ELSE [low[i] EXCEPT !.arcs = @ \cup {<<n, FALSE>>}]
WalkEnd(p, i) == [arcs |-> {}, found |-> Arrived(p, i)]

IsWalk(I, D, p, W) ==
  /\ \A n \in Vertices(D), i \in 1 .. Len(p) + 1 : W[n][i] \in Steps(D)
  /\ \A i \in 1 .. Len(p) + 1 : W[One][i] = WalkEnd(p, i)
  /\ \A n \in Nodes(D), i \in 1 .. Len(p) + 1 : W[n][i] = WalkFrom(I, p, n, i, W[D.lo[n]], W[D.hi[n]])

LEMMA WalkType ==
  ASSUME NEW I, NEW D, NEW p, Len(p) \in Nat, NEW i \in 1 .. Len(p) + 1
  PROVE  /\ WalkEnd(p, i) \in Steps(D)
         /\ \A n \in Nodes(D), low, high \in [1 .. Len(p) + 1 -> Steps(D)] :
              WalkFrom(I, p, n, i, low, high) \in Steps(D)
<1>1. WalkEnd(p, i) \in Steps(D)
  BY DEF WalkEnd, Steps, Arrived
<1>2. ASSUME NEW n \in Nodes(D), NEW low \in [1 .. Len(p) + 1 -> Steps(D)],
             NEW high \in [1 .. Len(p) + 1 -> Steps(D)]
      PROVE  WalkFrom(I, p, n, i, low, high) \in Steps(D)
  <2>1. \A r \in Steps(D), b \in BOOLEAN : [r EXCEPT !.arcs = @ \cup {<<n, b>>}] \in Steps(D)
    BY DEF Steps
  <2>2. low[i] \in Steps(D) /\ (i <= Len(p) => high[i + 1] \in Steps(D))
    <3>1. i <= Len(p) => i + 1 \in 1 .. Len(p) + 1
      OBVIOUS
    <3> QED BY <3>1
  <2> QED BY <2>1, <2>2 DEF WalkFrom, Takes
<1> QED BY <1>1, <1>2

LEMMA WalkFacts ==
  ASSUME NEW I, IsInstance(I), NEW D, IsDiagram(I, D), NEW p \in Sequences(I)
  PROVE  \E W : IsWalk(I, D, p, W) /\ Walk(I, D, p) = W[D.root][1]
<1> DEFINE J == 1 .. Len(p) + 1
           V == [J -> Steps(D)]
           z == [i \in J |-> WalkEnd(p, i)]
           N == Nodes(D) \cup {One}
           step(n, low, high) == [i \in J |-> WalkFrom(I, p, n, i, low, high)]
           g == [n \in Nodes(D) |-> [low \in V |-> [high \in V |-> step(n, low, high)]]]
           at(f, n) == [i \in J |-> IF n = One THEN WalkEnd(p, i) ELSE WalkFrom(I, p, n, i, f[D.lo[n]], f[D.hi[n]])]
           Is(f) == f = [n \in N |-> at(f, n)]
<1>0. Len(p) \in Nat
  BY SequenceFacts DEF Sequences
<1>1. IsJoin(g, D, V) /\ z \in V
  <2>1. \A n \in Nodes(D), low \in V, high \in V : step(n, low, high) \in V
    BY <1>0, WalkType
  <2>2. z \in V
    BY <1>0, WalkType
  <2> HIDE DEF V, step, z
  <2> QED BY <2>1, <2>2 DEF IsJoin
<1>2. PICK f \in [Vertices(D) -> V] : IsRecursion(f, D, z, g)
  <2> HIDE DEF g, V, z
  <2> QED BY <1>1, DiagramRecursion
<1>3. \A n \in Nodes(D) : n \in Vertices(D) /\ n # One /\ D.lo[n] \in Vertices(D) /\ D.hi[n] \in Vertices(D)
  BY NodeFacts DEF Vertices
<1>4. Is(f)
  <2>1. ASSUME NEW n \in Nodes(D) PROVE g[n][f[D.lo[n]]][f[D.hi[n]]] = step(n, f[D.lo[n]], f[D.hi[n]])
    <3>1. f[D.lo[n]] \in V /\ f[D.hi[n]] \in V
      <4> HIDE DEF V
      <4> QED BY <1>2, <1>3, SMTT(30)
    <3> HIDE DEF V, step
    <3> QED BY <3>1
  <2>2. f = [n \in N |-> IF n = One THEN z ELSE g[n][f[D.lo[n]]][f[D.hi[n]]]]
    BY <1>2, ZenonT(40) DEF IsRecursion
  <2> HIDE DEF g
  <2>3. ASSUME NEW n \in N PROVE (IF n = One THEN z ELSE g[n][f[D.lo[n]]][f[D.hi[n]]]) = at(f, n)
    <3>1. CASE n = One
      BY <3>1
    <3>2. CASE n # One
      BY <2>1, <3>2
    <3> QED BY <3>1, <3>2
  <2> HIDE DEF z, at
  <2> QED BY <2>2, <2>3
<1> DEFINE W == CHOOSE h : Is(h)
<1>5. Is(W)
  BY <1>4
<1>6. Walk(I, D, p) = W[D.root][1]
  BY DEF Walk, WalkEnd, WalkFrom, Takes
<1> HIDE DEF W
<1>7. /\ W[One] = z
      /\ \A n \in Nodes(D) : W[n] = step(n, W[D.lo[n]], W[D.hi[n]])
  <2>1. \A n \in N : W[n] = at(W, n)
    <3>1. W = [n \in N |-> at(W, n)]
      BY <1>5
    <3> HIDE DEF at
    <3> QED BY <3>1
  <2>2. One \in N /\ \A n \in Nodes(D) : n \in N /\ n # One
    BY <1>3
  <2>3. W[One] = at(W, One) /\ \A n \in Nodes(D) : W[n] = at(W, n)
    BY <2>1, <2>2
  <2>4. at(W, One) = z
    OBVIOUS
  <2>5. \A n \in Nodes(D) : at(W, n) = step(n, W[D.lo[n]], W[D.hi[n]])
    BY <2>2
  <2> QED BY <2>3, <2>4, <2>5
<1>8. \A n \in Vertices(D) : W[n] \in V
  <2> DEFINE F == {n \in Vertices(D) : W[n] \in V}
  <2> HIDE DEF step
  <2>1. One \in F
    BY <1>1, <1>7 DEF Vertices
  <2>2. ASSUME NEW n \in Nodes(D), D.lo[n] \in F, D.hi[n] \in F PROVE n \in F
    <3>1. step(n, W[D.lo[n]], W[D.hi[n]]) \in V
      BY <1>0, <2>2, WalkType DEF step
    <3> QED BY <1>3, <1>7, <3>1
  <2>3. \A n \in Vertices(D) : n \in F
    <3> HIDE DEF F
    <3> QED BY <2>1, <2>2, DiagramInduction
  <2> QED BY <2>3
<1>9. IsWalk(I, D, p, W)
  <2>1. \A n \in Vertices(D), i \in J : W[n][i] \in Steps(D)
    BY <1>8
  <2>2. \A i \in J : W[One][i] = WalkEnd(p, i)
    BY <1>7
  <2>3. \A n \in Nodes(D), i \in J : W[n][i] = WalkFrom(I, p, n, i, W[D.lo[n]], W[D.hi[n]])
    BY <1>7, ZenonT(40)
  <2> QED BY <2>1, <2>2, <2>3 DEF IsWalk
<1> QED BY <1>6, <1>9

\* What the parts of a walk are.
Finds(W, n, i) == W[n][i].found

\* The walk past a vertex.
WalksOn(I, D, p, W, n, i) ==
  /\ i # Len(p) /\ p[i + 1] = JobAt(I, n) =>
       /\ W[n][i + 1].arcs = W[D.hi[n]][i + 2].arcs \cup {<<n, TRUE>>}
       /\ Finds(W, n, i + 1) <=> Finds(W, D.hi[n], i + 2)
  /\ ~(i # Len(p) /\ p[i + 1] = JobAt(I, n)) =>
       /\ W[n][i + 1].arcs = W[D.lo[n]][i + 1].arcs \cup {<<n, FALSE>>}
       /\ Finds(W, n, i + 1) <=> Finds(W, D.lo[n], i + 1)
WalkEnds(p, W, i) == W[One][i + 1].arcs = {} /\ (Finds(W, One, i + 1) <=> i = Len(p))

LEMMA WalkSteps ==
  ASSUME NEW I, IsInstance(I), NEW D, IsDiagram(I, D), NEW p \in Sequences(I), NEW W, IsWalk(I, D, p, W)
  PROVE  \A i \in 0 .. Len(p) : WalkEnds(p, W, i) /\ \A n \in Nodes(D) : WalksOn(I, D, p, W, n, i)
<1> TAKE i \in 0 .. Len(p)
<1>0. /\ Len(p) \in Nat /\ i + 1 \in 1 .. Len(p) + 1 /\ (i + 1) + 1 = i + 2
      /\ i # Len(p) <=> i + 1 <= Len(p)
      /\ i # Len(p) => i + 2 \in 1 .. Len(p) + 1
      /\ i + 1 = Len(p) + 1 <=> i = Len(p)
  <2>1. Len(p) \in Nat
    BY SequenceFacts DEF Sequences
  <2> QED BY <2>1
<1>1. W[One][i + 1] = WalkEnd(p, i + 1)
  BY <1>0 DEF IsWalk
<1>2. W[One][i + 1].arcs = {} /\ (Finds(W, One, i + 1) <=> i = Len(p))
  <2>1. W[One][i + 1].arcs = {} /\ W[One][i + 1].found = Arrived(p, i + 1)
    BY <1>1 DEF WalkEnd
  <2>2. Arrived(p, i + 1) <=> i = Len(p)
    BY <1>0 DEF Arrived
  <2> QED BY <2>1, <2>2, Zenon DEF Finds
<1>3. ASSUME NEW n \in Nodes(D)
      PROVE  /\ i # Len(p) /\ p[i + 1] = JobAt(I, n) =>
                   /\ W[n][i + 1].arcs = W[D.hi[n]][i + 2].arcs \cup {<<n, TRUE>>}
                   /\ Finds(W, n, i + 1) <=> Finds(W, D.hi[n], i + 2)
             /\ ~(i # Len(p) /\ p[i + 1] = JobAt(I, n)) =>
                   /\ W[n][i + 1].arcs = W[D.lo[n]][i + 1].arcs \cup {<<n, FALSE>>}
                   /\ Finds(W, n, i + 1) <=> Finds(W, D.lo[n], i + 1)
  <2>1. W[n][i + 1] = WalkFrom(I, p, n, i + 1, W[D.lo[n]], W[D.hi[n]])
    BY <1>0 DEF IsWalk
  <2>2. D.lo[n] \in Vertices(D) /\ D.hi[n] \in Vertices(D)
    BY NodeFacts
  <2>3. W[D.lo[n]][i + 1] \in Steps(D) /\ (i # Len(p) => W[D.hi[n]][i + 2] \in Steps(D))
    BY <1>0, <2>2 DEF IsWalk
  <2>4. \A r \in Steps(D), b \in BOOLEAN : /\ [r EXCEPT !.arcs = @ \cup {<<n, b>>}].arcs = r.arcs \cup {<<n, b>>}
                                         /\ [r EXCEPT !.arcs = @ \cup {<<n, b>>}].found = r.found
    BY DEF Steps
  <2>5. Takes(I, p, n, i + 1) <=> i # Len(p) /\ p[i + 1] = JobAt(I, n)
    BY <1>0, SMTT(30) DEF Takes
  <2>6. W[n][i + 1] = IF Takes(I, p, n, i + 1) THEN [W[D.hi[n]][i + 2] EXCEPT !.arcs = @ \cup {<<n, TRUE>>}]
                      ELSE [W[D.lo[n]][i + 1] EXCEPT !.arcs = @ \cup {<<n, FALSE>>}]
    BY <1>0, <2>1 DEF WalkFrom
  <2>7. CASE Takes(I, p, n, i + 1)
    <3> DEFINE r == W[D.hi[n]][i + 2]
    <3>1. r \in Steps(D) /\ W[n][i + 1] = [r EXCEPT !.arcs = @ \cup {<<n, TRUE>>}]
      BY <2>3, <2>5, <2>6, <2>7
    <3> HIDE DEF r
    <3>2. W[n][i + 1].arcs = r.arcs \cup {<<n, TRUE>>} /\ W[n][i + 1].found = r.found
      BY <2>4, <3>1
    <3> QED BY <2>5, <2>7, <3>2, Zenon DEF r, Finds
  <2>8. CASE ~Takes(I, p, n, i + 1)
    <3> DEFINE r == W[D.lo[n]][i + 1]
    <3>1. r \in Steps(D) /\ W[n][i + 1] = [r EXCEPT !.arcs = @ \cup {<<n, FALSE>>}]
      BY <2>3, <2>6, <2>8
    <3> HIDE DEF r
    <3>2. W[n][i + 1].arcs = r.arcs \cup {<<n, FALSE>>} /\ W[n][i + 1].found = r.found
      BY <2>4, <3>1
    <3> QED BY <2>5, <2>8, <3>2, Zenon DEF r, Finds
  <2> QED BY <2>7, <2>8
<1> QED BY <1>2, <1>3 DEF WalkEnds, WalksOn

LEMMA FindsAtEnd ==
  ASSUME NEW I, IsInstance(I), NEW D, IsDiagram(I, D), NEW p \in Sequences(I), NEW W, IsWalk(I, D, p, W),
         NEW i \in 0 .. Len(p)
  PROVE  Finds(W, One, i + 1) <=> i = Len(p)
<1>1. WalkEnds(p, W, i)
  BY WalkSteps
<1> QED BY <1>1 DEF WalkEnds

LEMMA FindsAhead ==
  ASSUME NEW I, IsInstance(I), NEW D, IsDiagram(I, D), NEW p \in Sequences(I), NEW W, IsWalk(I, D, p, W),
         NEW i \in 0 .. Len(p), NEW n \in Nodes(D)
  PROVE  /\ i # Len(p) /\ p[i + 1] = JobAt(I, n) => (Finds(W, n, i + 1) <=> Finds(W, D.hi[n], i + 2))
         /\ ~(i # Len(p) /\ p[i + 1] = JobAt(I, n)) => (Finds(W, n, i + 1) <=> Finds(W, D.lo[n], i + 1))
<1>1. WalksOn(I, D, p, W, n, i)
  BY WalkSteps
<1> QED BY <1>1 DEF WalksOn

\* What is found is a path, ...
LEMMA FoundIsPath ==
  ASSUME NEW I, IsInstance(I), NEW D, IsDiagram(I, D), NEW p \in Sequences(I), NEW W, IsWalk(I, D, p, W)
  PROVE  \A n \in Vertices(D), i \in 0 .. Len(p) : Finds(W, n, i + 1) => Rest(p, i) \in PathsBelow(I, D)[n]
<1> DEFINE P == PathsBelow(I, D)
           F == {n \in Vertices(D) : \A i \in 0 .. Len(p) : Finds(W, n, i + 1) => Rest(p, i) \in P[n]}
<1>0. /\ P[One] = {<<>>} /\ One \in Vertices(D)
      /\ \A n \in Nodes(D) : n \in Vertices(D) /\ P[n] = P[D.lo[n]] \cup Headed(JobAt(I, n), P[D.hi[n]])
  BY PathsFacts DEF Vertices
<1>1. One \in F
  <2>1. Rest(p, Len(p)) = <<>>
    BY RestFacts DEF Sequences
  <2>2. \A i \in 0 .. Len(p) : Finds(W, One, i + 1) => i = Len(p)
    BY FindsAtEnd
  <2> HIDE DEF P
  <2> QED BY <1>0, <2>1, <2>2
<1>2. ASSUME NEW n \in Nodes(D), D.lo[n] \in F, D.hi[n] \in F PROVE n \in F
  <2> SUFFICES ASSUME NEW i \in 0 .. Len(p), Finds(W, n, i + 1) PROVE Rest(p, i) \in P[n]
    BY <1>0
  <2>1. CASE i # Len(p) /\ p[i + 1] = JobAt(I, n)
    <3>1. Finds(W, D.hi[n], i + 2)
      BY <2>1, FindsAhead
    <3>2. i + 1 \in 0 .. Len(p) /\ (i + 1) + 1 = i + 2
      BY <2>1, SequenceFacts DEF Sequences
    <3>3. Rest(p, i + 1) \in P[D.hi[n]]
      BY <1>2, <3>1, <3>2
    <3>4. Rest(p, i) = <<p[i + 1]>> \o Rest(p, i + 1)
      BY <2>1, RestUnfolds DEF Sequences
    <3> HIDE DEF P
    <3>5. Rest(p, i) \in Headed(JobAt(I, n), P[D.hi[n]])
      BY <2>1, <3>3, <3>4 DEF Headed
    <3> QED BY <1>0, <3>5
  <2>2. CASE ~(i # Len(p) /\ p[i + 1] = JobAt(I, n))
    <3>1. Finds(W, D.lo[n], i + 1)
      BY <2>2, FindsAhead
    <3>2. Rest(p, i) \in P[D.lo[n]]
      BY <1>2, <3>1
    <3> HIDE DEF P
    <3> QED BY <1>0, <3>2
  <2> QED BY <2>1, <2>2
<1>3. \A n \in Vertices(D) : n \in F
  <2> HIDE DEF F
  <2> QED BY <1>1, <1>2, DiagramInduction
<1> QED BY <1>3

\* The node at which what is left of a path goes on.
LEMMA NextNode ==
  ASSUME NEW I, IsInstance(I), NEW D, IsDiagram(I, D), NEW p \in Sequences(I)
  PROVE  \A n \in Vertices(D), i \in 0 .. Len(p) : i # Len(p) /\ Rest(p, i) \in PathsBelow(I, D)[n] =>
           n # One /\ \E u \in Nodes(D) : JobAt(I, u) = p[i + 1] /\ u[2] = n[2] /\ n[1] <= u[1]
<1> DEFINE Goes(n, i) == n # One /\ \E u \in Nodes(D) : JobAt(I, u) = p[i + 1] /\ u[2] = n[2] /\ n[1] <= u[1]
           F == {n \in Vertices(D) : \A i \in 0 .. Len(p) :
                   i # Len(p) /\ Rest(p, i) \in PathsBelow(I, D)[n] => Goes(n, i)}
<1>0. One \in Vertices(D) /\ One \notin Nodes(D) /\ \A n \in Nodes(D) : n \in Vertices(D) /\ n # One /\ n[1] \in Int
  BY NodeFacts DEF Vertices
<1>1. One \in F
  BY <1>0, PathStep
<1>2. ASSUME NEW n \in Nodes(D), D.lo[n] \in F, D.hi[n] \in F PROVE n \in F
  <2> SUFFICES ASSUME NEW i \in 0 .. Len(p), i # Len(p), Rest(p, i) \in PathsBelow(I, D)[n] PROVE Goes(n, i)
    BY <1>0
  <2>1. Rest(p, i) \in PathsBelow(I, D)[D.lo[n]] \/ p[i + 1] = JobAt(I, n)
    BY <1>0, PathStep
  <2>2. CASE p[i + 1] = JobAt(I, n)
    BY <1>0, <2>2
  <2>3. CASE Rest(p, i) \in PathsBelow(I, D)[D.lo[n]]
    <3>1. D.lo[n] # One /\ \E u \in Nodes(D) : JobAt(I, u) = p[i + 1] /\ u[2] = D.lo[n][2] /\ D.lo[n][1] <= u[1]
      BY <1>2, <2>3
    <3>2. PICK u \in Nodes(D) : JobAt(I, u) = p[i + 1] /\ u[2] = D.lo[n][2] /\ D.lo[n][1] <= u[1]
      BY <3>1
    <3>3. n[1] < D.lo[n][1] /\ D.lo[n][2] = n[2] /\ D.lo[n] \in Vertices(D)
      BY <3>1, NodeFacts DEF IsDiagram
    <3>4. n[1] \in Int /\ u[1] \in Int /\ D.lo[n][1] \in Int
      BY <1>0, <3>1, <3>3 DEF Vertices
    <3>5. n[1] <= u[1]
      BY <3>2, <3>3, <3>4
    <3> QED BY <1>0, <3>2, <3>3, <3>5
  <2> QED BY <2>1, <2>2, <2>3
<1>3. \A n \in Vertices(D) : n \in F
  <2> HIDE DEF F
  <2> QED BY <1>1, <1>2, DiagramInduction
<1> QED BY <1>3

\* A path does not wait at a node whose job it does next: the job fits no other interval then.
LEMMA NotWaited ==
  ASSUME NEW I, IsInstance(I), NEW D, IsDiagram(I, D), NEW p \in Sequences(I),
         NEW n \in Nodes(D), NEW i \in 0 .. Len(p), i # Len(p), p[i + 1] = JobAt(I, n)
  PROVE  Rest(p, i) \notin PathsBelow(I, D)[D.lo[n]]
<1>10. n \in Vertices(D) /\ n # One /\ D.lo[n] \in Vertices(D)
  BY NodeFacts DEF Vertices
<1> SUFFICES ASSUME Rest(p, i) \in PathsBelow(I, D)[D.lo[n]] PROVE FALSE
  OBVIOUS
<1>0. D.lo[n] # One
  BY <1>10, NextNode
<1>1. PICK u \in Nodes(D) : JobAt(I, u) = p[i + 1] /\ u[2] = D.lo[n][2] /\ D.lo[n][1] <= u[1]
  BY <1>10, NextNode
<1>2. n[1] < D.lo[n][1] /\ D.lo[n][2] = n[2]
  BY <1>0 DEF IsDiagram
<1>3. n[1] \in DOMAIN I.layers /\ u[1] \in DOMAIN I.layers /\ D.lo[n][1] \in DOMAIN I.layers
  BY <1>10, <1>0, NodeFacts DEF Vertices
<1>4. n[1] < u[1]
  <2>1. \A l \in DOMAIN I.layers : l \in Int
    BY InstanceFacts
  <2> QED BY <1>1, <1>2, <1>3, <2>1
<1>5. I.layers[n[1]].b <= I.layers[u[1]].a
  BY <1>1, <1>3, <1>4 DEF IsInstance, JobAt
<1>6. Fits(I.jobs, I.layers[n[1]], n[2]) /\ Fits(I.jobs, I.layers[u[1]], u[2])
  BY DEF IsDiagram
<1> DEFINE e == n[2] + I.jobs[JobAt(I, n)].p
           a == I.layers[u[1]].a
           b == I.layers[n[1]].b
<1>7. e <= b /\ a < e
  BY <1>1, <1>2, <1>6 DEF Fits, JobAt
<1>8. e \in Int /\ a \in Int /\ b \in Int
  <2>1. n[2] \in Int /\ Length(I, n) \in Nat
    BY NodeFacts
  <2>2. e = n[2] + Length(I, n)
    BY DEF Length
  <2>3. a \in Int /\ b \in Int
    BY <1>3, InstanceFacts
  <2> HIDE DEF e, a, b
  <2> QED BY <2>1, <2>2, <2>3
<1> HIDE DEF e, a, b
<1>9. b <= a
  BY <1>5 DEF a, b
<1> QED BY <1>7, <1>8, <1>9

\* A path whose next job is the node's starts it there.
LEMMA JobIsTaken ==
  ASSUME NEW I, IsInstance(I), NEW D, IsDiagram(I, D), NEW p \in Sequences(I),
         NEW n \in Nodes(D), NEW i \in 0 .. Len(p), i # Len(p), p[i + 1] = JobAt(I, n),
         Rest(p, i) \in PathsBelow(I, D)[n]
  PROVE  Rest(p, i + 1) \in PathsBelow(I, D)[D.hi[n]]
<1>1. n \in Vertices(D) /\ n # One /\ D.lo[n] \in Vertices(D)
  BY NodeFacts DEF Vertices
<1>2. Rest(p, i) \notin PathsBelow(I, D)[D.lo[n]]
  BY NotWaited
<1> QED BY <1>1, <1>2, PathStep

\* ... and a path is found.
LEMMA PathIsFound ==
  ASSUME NEW I, IsInstance(I), NEW D, IsDiagram(I, D), NEW p \in Sequences(I), NEW W, IsWalk(I, D, p, W)
  PROVE  \A n \in Vertices(D), i \in 0 .. Len(p) : Rest(p, i) \in PathsBelow(I, D)[n] => Finds(W, n, i + 1)
<1> DEFINE F == {n \in Vertices(D) : \A i \in 0 .. Len(p) : Rest(p, i) \in PathsBelow(I, D)[n] => Finds(W, n, i + 1)}
<1>0. One \in Vertices(D) /\ One \notin Nodes(D) /\ \A n \in Nodes(D) : n \in Vertices(D) /\ n # One
  BY NodeFacts DEF Vertices
<1>1. One \in F
  <2>1. \A i \in 0 .. Len(p) : Rest(p, i) \in PathsBelow(I, D)[One] => i = Len(p)
    BY <1>0, PathStep
  <2> QED BY <1>0, <2>1, FindsAtEnd
<1>2. ASSUME NEW n \in Nodes(D), D.lo[n] \in F, D.hi[n] \in F PROVE n \in F
  <2> SUFFICES ASSUME NEW i \in 0 .. Len(p), Rest(p, i) \in PathsBelow(I, D)[n] PROVE Finds(W, n, i + 1)
    BY <1>0
  <2>1. CASE i # Len(p) /\ p[i + 1] = JobAt(I, n)
    <3>1. Rest(p, i + 1) \in PathsBelow(I, D)[D.hi[n]]
      BY <2>1, JobIsTaken
    <3>2. i + 1 \in 0 .. Len(p) /\ (i + 1) + 1 = i + 2
      BY <2>1, SequenceFacts DEF Sequences
    <3>3. Finds(W, D.hi[n], (i + 1) + 1)
      BY <1>2, <3>1, <3>2
    <3> QED BY <2>1, <3>2, <3>3, FindsAhead
  <2>2. CASE ~(i # Len(p) /\ p[i + 1] = JobAt(I, n))
    <3>1. Rest(p, i) \in PathsBelow(I, D)[D.lo[n]]
      BY <1>0, <2>2, PathStep
    <3>2. Finds(W, D.lo[n], i + 1)
      BY <1>2, <3>1
    <3> QED BY <2>2, <3>2, FindsAhead
  <2> QED BY <2>1, <2>2
<1>3. \A n \in Vertices(D) : n \in F
  <2> HIDE DEF F
  <2> QED BY <1>1, <1>2, DiagramInduction
<1> QED BY <1>3

LEMMA WalkIsExact ==
  ASSUME NEW I, IsInstance(I), NEW D, IsDiagram(I, D), NEW p \in Sequences(I)
  PROVE  Walk(I, D, p).found <=> p \in PathsOf(I, D)
<1>1. PICK W : IsWalk(I, D, p, W) /\ Walk(I, D, p) = W[D.root][1]
  BY WalkFacts
<1>2. Len(p) \in Nat /\ Rest(p, 0) = p /\ D.root \in Vertices(D)
  BY SequenceFacts, RestFacts DEF Sequences, IsDiagram
<1>3. 0 \in 0 .. Len(p) /\ 0 + 1 = 1
  BY <1>2
<1>4. Finds(W, D.root, 1) => p \in PathsBelow(I, D)[D.root]
  BY <1>1, <1>2, <1>3, FoundIsPath
<1>5. p \in PathsBelow(I, D)[D.root] => Finds(W, D.root, 1)
  BY <1>1, <1>2, <1>3, PathIsFound
<1>6. Walk(I, D, p).found <=> Finds(W, D.root, 1)
  BY <1>1, Zenon DEF Finds
<1> QED BY <1>4, <1>5, <1>6, Zenon DEF PathsOf

\* check_schedule_set recognises a column as a path of the diagram exactly when it is one.
\* The walk tries no alternative: where its next job can start, it starts.
THEOREM CheckIsAlwaysExact == Spec => []CheckIsExact
<1>1. PricingInv => CheckIsExact
  <2> SUFFICES ASSUME PricingInv, NEW t \in targets, NEW s \in t.paths
               PROVE  Walk(inst, dd, s).found <=> s \in PathsOf(inst, dd)
    BY DEF CheckIsExact
  <2>1. IsInstance(inst) /\ IsDiagram(inst, dd)
    BY DiagramAssumption DEF PricingInv, DiagramInv
  <2>2. s \in Sequences(inst)
    BY PlannedPaths DEF PricingInv, IsSchedule, Heavy
  <2> QED BY <2>1, <2>2, WalkIsExact
<1> QED BY <1>1, PricingCorrect, PTL

--------------------------------------------------------------------------------
(* A node is given up when its diagram has fewer rows than there are jobs. *)

LEMMA HeadedJobs ==
  ASSUME NEW T, NEW j \in T, NEW s \in Seq(T), NEW k \in JobsOf(<<j>> \o s)
  PROVE  k = j \/ k \in JobsOf(s)
<1> DEFINE r == <<j>> \o s
<1>1. /\ Len(s) \in Nat /\ DOMAIN s = 1 .. Len(s)
      /\ DOMAIN r = 1 .. Len(s) + 1 /\ r[1] = j /\ \A i \in 1 .. Len(s) : r[i + 1] = s[i]
  <2>1. r \in Seq(T) /\ Len(r) = Len(s) + 1
    BY HeadedSequence
  <2> QED BY <2>1, HeadedSequence, SequenceFacts
<1>2. PICK i \in DOMAIN r : k = r[i]
  BY DEF JobsOf
<1> HIDE DEF r
<1>3. CASE i = 1
  BY <1>1, <1>2, <1>3
<1>4. CASE i # 1
  <2>1. i - 1 \in 1 .. Len(s) /\ (i - 1) + 1 = i
    BY <1>1, <1>4
  <2>2. k = s[i - 1] /\ i - 1 \in DOMAIN s
    <3>1. r[(i - 1) + 1] = s[i - 1]
      BY <1>1, <2>1
    <3> QED BY <1>1, <1>2, <2>1, <3>1
  <2> QED BY <2>2 DEF JobsOf
<1> QED BY <1>3, <1>4

\* The jobs of a path are jobs of nodes.
LEMMA JobsHaveNodes ==
  ASSUME NEW I, IsInstance(I), NEW D, IsDiagram(I, D), NEW p \in PathsOf(I, D), NEW j \in JobsOf(p)
  PROVE  \E u \in Nodes(D) : JobAt(I, u) = j
<1> DEFINE P == PathsBelow(I, D)
           J == {JobAt(I, u) : u \in Nodes(D)}
           F == {n \in Vertices(D) : \A s \in P[n] : JobsOf(s) \subseteq J}
<1>0. /\ P[One] = {<<>>} /\ One \in Vertices(D)
      /\ \A n \in Nodes(D) : n \in Vertices(D) /\ P[n] = P[D.lo[n]] \cup Headed(JobAt(I, n), P[D.hi[n]])
  BY PathsFacts DEF Vertices
<1>1. One \in F
  <2>1. JobsOf(<<>>) = {}
    BY DEF JobsOf
  <2> HIDE DEF P, J
  <2> QED BY <1>0, <2>1
<1>2. ASSUME NEW n \in Nodes(D), D.lo[n] \in F, D.hi[n] \in F PROVE n \in F
  <2> SUFFICES ASSUME NEW s \in P[n], NEW k \in JobsOf(s) PROVE k \in J
    BY <1>0
  <2>1. CASE s \in P[D.lo[n]]
    BY <1>2, <2>1
  <2>2. CASE s \in Headed(JobAt(I, n), P[D.hi[n]])
    <3>1. PICK r \in P[D.hi[n]] : s = <<JobAt(I, n)>> \o r
      BY <2>2 DEF Headed
    <3>2. r \in Sequences(I)
      <4>1. D.hi[n] \in Vertices(D)
        BY NodeFacts
      <4> QED BY <4>1, PathsFacts
    <3>3. JobAt(I, n) \in DOMAIN I.jobs
      BY NodeFacts
    <3>4. k = JobAt(I, n) \/ k \in JobsOf(r)
      BY <3>1, <3>2, <3>3, HeadedJobs DEF Sequences
    <3>5. JobsOf(r) \subseteq J
      BY <1>2
    <3> QED BY <3>4, <3>5
  <2> HIDE DEF P, J
  <2> QED BY <1>0, <2>1, <2>2
<1>3. \A n \in Vertices(D) : n \in F
  <2> HIDE DEF F
  <2> QED BY <1>1, <1>2, DiagramInduction
<1>4. JobsOf(p) \subseteq J
  BY <1>3 DEF PathsOf, IsDiagram
<1> QED BY <1>4

\* A diagram with a node for every job has as many rows as there are jobs.
LEMMA RowsForJobs ==
  ASSUME NEW I, IsInstance(I), NEW D, IsDiagram(I, D),
         \A j \in DOMAIN I.jobs : \E u \in Nodes(D) : JobAt(I, u) = j
  PROVE  StructureFeasible(I, D)
<1> DEFINE R == {n[1] : n \in Nodes(D)}
           J == DOMAIN I.jobs
           f == [l \in R |-> I.layers[l].job]
<1>1. R \subseteq DOMAIN I.layers
  BY DEF IsDiagram
<1>2. IsFiniteSet(R)
  <2>1. DOMAIN I.layers = 1 .. Len(I.layers) /\ 1 \in Int /\ Len(I.layers) \in Int
    BY InstanceFacts
  <2>2. IsFiniteSet(DOMAIN I.layers)
    BY <2>1, FS_Interval
  <2> HIDE DEF R
  <2> QED BY <1>1, <2>2, FS_Subset
<1>3. f \in Surjection(R, J)
  <2>1. f \in [R -> J]
    BY <1>1, InstanceFacts
  <2>2. ASSUME NEW j \in J PROVE \E l \in R : f[l] = j
    <3>1. PICK u \in Nodes(D) : JobAt(I, u) = j
      OBVIOUS
    <3>2. u[1] \in R /\ f[u[1]] = j
      BY <3>1 DEF JobAt
    <3> QED BY <3>2
  <2> HIDE DEF f, R, J
  <2> QED BY <2>1, <2>2 DEF Surjection
<1>4. Cardinality(J) <= Cardinality(R)
  <2> HIDE DEF f, R, J
  <2> QED BY <1>2, <1>3, FS_Surjection
<1>5. Cardinality(J) = Len(I.jobs)
  <2> DEFINE c == Len(I.jobs)
  <2>1. J = 1 .. c /\ c \in Nat
    BY InstanceFacts
  <2> HIDE DEF J, c
  <2>2. Cardinality(1 .. c) = c
    BY <2>1, FS_Interval
  <2> QED BY <2>1, <2>2 DEF c
<1>6. Cardinality(R) \in Nat /\ Len(I.jobs) \in Nat
  <2>1. Len(I.jobs) \in Nat
    BY InstanceFacts
  <2> HIDE DEF R
  <2> QED BY <1>2, <2>1, FS_CardinalityType
<1>7. Rows(D) = Cardinality(R)
  BY DEF Rows
<1> HIDE DEF R
<1> QED BY <1>4, <1>5, <1>6, <1>7 DEF StructureFeasible

\* structure_feasible gives a node up only when no better schedule is left in it: each
\* job of one that is left still has a node, and no two jobs share a row.
THEOREM GivenUpForNothing == Spec => []GivenUpOnlyIfNothingLeft
<1>1. PricingInv => GivenUpOnlyIfNothingLeft
  <2> SUFFICES ASSUME PricingInv, NEW s \in targets, s.cost < UB PROVE StructureFeasible(inst, dd)
    BY DEF GivenUpOnlyIfNothingLeft
  <2>1. IsInstance(inst) /\ IsDiagram(inst, dd)
    BY DiagramAssumption DEF PricingInv, DiagramInv
  <2>2. s.paths \subseteq PathsOf(inst, dd)
    BY DEF PricingInv, ImprovingSchedulesStay
  <2>3. PICK x : IsPlan(inst, x) /\ s = Planned(inst, x)
    BY DEF PricingInv, IsSchedule
  <2>4. ASSUME NEW j \in DOMAIN inst.jobs PROVE \E u \in Nodes(dd) : JobAt(inst, u) = j
    <3>1. PICK k \in 1 .. inst.m : j \in JobsOf(x[k])
      BY <2>3 DEF IsPlan
    <3>2. x[k] # <<>>
      BY <3>1 DEF JobsOf
    <3>3. x[k] \in s.paths
      BY <2>3, <3>2 DEF Planned
    <3> QED BY <2>1, <2>2, <3>1, <3>3, JobsHaveNodes
  <2> QED BY <2>1, <2>4, RowsForJobs
<1> QED BY <1>1, PricingCorrect, PTL

--------------------------------------------------------------------------------
(* What a label stands for. *)

\* The labels of P that stand for a path at all are in S, and the first does if one does.
RealIn(P, S) ==
  /\ P[1].f = Huge \/ P[1] \in S
  /\ P[2].f = Huge \/ P[2] \in S
  /\ P[1].f = Huge => P[2].f = Huge

\* They are for different jobs.
Apart(P) == P[1].f # Huge /\ P[2].f # Huge => P[1].job # P[2].job

Below(S) == S \subseteq Labels /\ \A l \in S : l.f < Huge

LEMMA RealFacts ==
  ASSUME NEW P \in Pairs, NEW S, Below(S), RealIn(P, S)
  PROVE  /\ P = <<P[1], P[2]>> /\ P[1] \in Labels /\ P[2] \in Labels
         /\ P[1].f \in Int /\ P[2].f \in Int /\ P[1].f <= Huge /\ P[2].f <= Huge
<1>1. P = <<P[1], P[2]>> /\ P[1] \in Labels /\ P[2] \in Labels /\ P[1].f \in Int /\ P[2].f \in Int
  BY PairFacts, LabelFacts
<1>2. P[1].f <= Huge /\ P[2].f <= Huge
  BY <1>1, HugeType DEF RealIn, Below
<1> QED BY <1>1, <1>2

LEMMA UsableReal ==
  ASSUME NEW P \in Pairs, NEW S, RealIn(P, S), Apart(P), NEW j
  PROVE  Usable(P, j).f = Huge \/ (Usable(P, j) \in S /\ Usable(P, j).job # j)
BY DEF Usable, RealIn, Apart

LEMMA JoinHighReal ==
  ASSUME NEW P \in Pairs, NEW S, Below(S), RealIn(P, S), NEW high \in Labels, NEW j, high.job = j,
         high.f = Huge \/ high \in S
  PROVE  /\ RealIn(JoinHigh(P, high, j), S) /\ (Apart(P) => Apart(JoinHigh(P, high, j)))
         /\ JoinHigh(P, high, j)[1] \in {P[1], P[2], high} /\ JoinHigh(P, high, j)[2] \in {P[1], P[2], high}
<1> DEFINE a == P[1]
           b == P[2]
<1>1. /\ P = <<a, b>> /\ a.f \in Int /\ b.f \in Int /\ high.f \in Int
      /\ a.f <= Huge /\ b.f <= Huge /\ Huge \in Int
  BY RealFacts, LabelFacts, HugeType
<1>2. /\ a.f = Huge \/ a \in S
      /\ b.f = Huge \/ b \in S
      /\ a.f = Huge => b.f = Huge
  BY DEF RealIn
<1>3. CASE high.f < a.f
  <2>1. JoinHigh(P, high, j) = <<high, IF a.job # j THEN a ELSE b>>
    BY <1>1, <1>3 DEF JoinHigh
  <2> HIDE DEF a, b
  <2> QED BY <1>1, <1>2, <1>3, <2>1 DEF RealIn, Apart, a, b
<1>4. CASE ~(high.f < a.f) /\ high.f < b.f /\ a.job # j
  <2>1. JoinHigh(P, high, j) = <<a, high>>
    BY <1>1, <1>4 DEF JoinHigh
  <2> HIDE DEF a, b
  <2> QED BY <1>1, <1>2, <1>4, <2>1 DEF RealIn, Apart, a, b
<1>5. CASE ~(high.f < a.f) /\ ~(high.f < b.f /\ a.job # j)
  <2>1. JoinHigh(P, high, j) = P
    BY <1>1, <1>5 DEF JoinHigh
  <2> QED BY <2>1
<1> QED BY <1>3, <1>4, <1>5

LEMMA JoinLowReal ==
  ASSUME NEW P \in Pairs, NEW N \in Pairs, NEW S, Below(S), RealIn(P, S), RealIn(N, S), NEW prev
  PROVE  /\ RealIn(JoinLow(P, N, prev), S)
         /\ JoinLow(P, N, prev)[1] \in {P[1], P[2], N[1], N[2]}
         /\ JoinLow(P, N, prev)[2] \in {P[1], P[2], N[1], N[2]}
<1> DEFINE a == P[1]
           b == P[2]
           c == N[1]
           d == N[2]
           J == JoinLow(P, N, prev)
<1>1. /\ P = <<a, b>> /\ a.f \in Int /\ b.f \in Int /\ a.f <= Huge /\ b.f <= Huge
      /\ N = <<c, d>> /\ c.f \in Int /\ d.f \in Int /\ c.f <= Huge /\ d.f <= Huge /\ Huge \in Int
  BY RealFacts, HugeType
<1>2. /\ a.f = Huge \/ a \in S
      /\ b.f = Huge \/ b \in S
      /\ a.f = Huge => b.f = Huge
      /\ c.f = Huge \/ c \in S
      /\ d.f = Huge \/ d \in S
      /\ c.f = Huge => d.f = Huge
  BY DEF RealIn
<1>3. CASE c.f < a.f
  <2> DEFINE second == IF prev # a.job THEN a ELSE b
             third == IF d.f < second.f THEN d ELSE second
  <2>1. J = <<c, third>>
    BY <1>3 DEF JoinLow
  <2>2. J[1] = c /\ J[2] = third /\ third \in {a, b, d}
    BY <2>1
  <2> HIDE DEF third, J, a, b, c, d
  <2> QED BY <1>1, <1>2, <1>3, <2>2 DEF RealIn, a, b, c, d, J
<1>4. CASE ~(c.f < a.f) /\ c.f < b.f /\ a.job # prev
  <2>1. J = <<a, c>>
    BY <1>4 DEF JoinLow
  <2>2. J[1] = a /\ J[2] = c
    BY <2>1
  <2> HIDE DEF a, b, c, d, J
  <2> QED BY <1>1, <1>2, <1>4, <2>2 DEF RealIn, a, b, c, d, J
<1>5. CASE ~(c.f < a.f) /\ ~(c.f < b.f /\ a.job # prev) /\ d.f < b.f
  <2>1. J = <<a, d>>
    BY <1>5 DEF JoinLow
  <2>2. J[1] = a /\ J[2] = d
    BY <2>1
  <2> HIDE DEF a, b, c, d, J
  <2> QED BY <1>1, <1>2, <1>5, <2>2 DEF RealIn, a, b, c, d, J
<1>6. CASE ~(c.f < a.f) /\ ~(c.f < b.f /\ a.job # prev) /\ ~(d.f < b.f)
  <2>1. J = P
    BY <1>6 DEF JoinLow
  <2> QED BY <2>1 DEF J
<1> QED BY <1>3, <1>4, <1>5, <1>6

\* The labels stay for different jobs if the node's own, should it have any, is for job j
\* and the parent's are not.
LEMMA JoinLowApart ==
  ASSUME NEW P \in Pairs, NEW N \in Pairs, NEW S, Below(S), RealIn(P, S), RealIn(N, S),
         Apart(P), Apart(N), NEW j,
         P[1].f # Huge => P[1].job = j /\ (N[1].f # Huge => N[1].job # j) /\ (N[2].f # Huge => N[2].job # j)
  PROVE  Apart(JoinLow(P, N, Usable(N, j).job))
<1> DEFINE a == P[1]
           b == P[2]
           c == N[1]
           d == N[2]
           prev == Usable(N, j).job
           J == JoinLow(P, N, prev)
<1>1. /\ P = <<a, b>> /\ a.f \in Int /\ b.f \in Int /\ a.f <= Huge /\ b.f <= Huge
      /\ N = <<c, d>> /\ c.f \in Int /\ d.f \in Int /\ c.f <= Huge /\ d.f <= Huge /\ Huge \in Int
  BY RealFacts, HugeType
<1>2. /\ a.f = Huge => b.f = Huge
      /\ c.f = Huge => d.f = Huge
      /\ a.f # Huge /\ b.f # Huge => a.job # b.job
      /\ c.f # Huge /\ d.f # Huge => c.job # d.job
      /\ a.f # Huge => a.job = j /\ (c.f # Huge => c.job # j) /\ (d.f # Huge => d.job # j)
  BY DEF RealIn, Apart
<1>3. prev = IF c.job # j THEN c.job ELSE d.job
  BY DEF Usable
<1> HIDE DEF prev
<1>4. CASE c.f < a.f
  <2> DEFINE second == IF prev # a.job THEN a ELSE b
             third == IF d.f < second.f THEN d ELSE second
  <2>1. J = <<c, third>>
    BY <1>4 DEF JoinLow
  <2>2. J[1] = c /\ J[2] = third
    BY <2>1
  <2>3. third = d \/ (third = a /\ prev # a.job) \/ (third = b /\ prev = a.job)
    OBVIOUS
  <2> HIDE DEF third, J, a, b, c, d
  <2> QED BY <1>1, <1>2, <1>3, <1>4, <2>2, <2>3 DEF Apart, J, prev
<1>5. CASE ~(c.f < a.f) /\ c.f < b.f /\ a.job # prev
  <2>1. J = <<a, c>>
    BY <1>5 DEF JoinLow
  <2>2. J[1] = a /\ J[2] = c
    BY <2>1
  <2> HIDE DEF a, b, c, d, J
  <2> QED BY <1>1, <1>2, <1>3, <1>5, <2>2 DEF Apart, J, prev
<1>6. CASE ~(c.f < a.f) /\ ~(c.f < b.f /\ a.job # prev) /\ d.f < b.f
  <2>1. J = <<a, d>>
    BY <1>6 DEF JoinLow
  <2>2. J[1] = a /\ J[2] = d
    BY <2>1
  <2> HIDE DEF a, b, c, d, J
  <2> QED BY <1>1, <1>2, <1>3, <1>6, <2>2 DEF Apart, J, prev
<1>7. CASE ~(c.f < a.f) /\ ~(c.f < b.f /\ a.job # prev) /\ ~(d.f < b.f)
  <2>1. J = P
    BY <1>7 DEF JoinLow
  <2> QED BY <2>1 DEF J, prev
<1> QED BY <1>4, <1>5, <1>6, <1>7

--------------------------------------------------------------------------------
(* What a step makes of the labels. *)

IsRegion(D, R) == \A x \in Vertices(D) : Below(R[x])
IsRealIn(D, f, R) == \A x \in Vertices(D) : RealIn(f[x], R[x])

\* The label the 1-arc of n is taken with, and what becomes of it.
Used(I, s, f, n) == IF Cyclic(s) THEN Usable(f[n], JobAt(I, n)) ELSE f[n][1]
HighLabel(I, pi, s, f, n) == Extend(Used(I, s, f, n), JobAt(I, n), ReducedCost(I, pi, n))

\* R has what the children of n get.
Admits(I, D, pi, s, f, n, R) ==
  /\ R[n] \subseteq R[D.lo[n]]
  /\ Used(I, s, f, n).f = Huge \/ HighLabel(I, pi, s, f, n) \in R[D.hi[n]]

LEMMA BetterReal ==
  ASSUME NEW D, NEW f, IsLabelling(D, f), NEW R, IsRegion(D, R), IsRealIn(D, f, R),
         NEW x \in Vertices(D), NEW l \in Labels, l.f = Huge \/ l \in R[x]
  PROVE  IsRealIn(D, Better(f, x, l), R)
<1>1. f[x] \in Pairs /\ Below(R[x]) /\ RealIn(f[x], R[x])
  BY LabellingFacts DEF IsRegion, IsRealIn
<1>2. f[x][1].f \in Int /\ f[x][2].f \in Int /\ f[x][1].f <= Huge /\ f[x][2].f <= Huge
  BY <1>1, RealFacts
<1>3. CASE l.f < f[x][1].f
  <2>1. Better(f, x, l) = [f EXCEPT ![x] = <<l, f[x][2]>>]
    BY <1>3 DEF Better
  <2>2. l.f # Huge
    BY <1>2, <1>3, LabelFacts, HugeType
  <2> DEFINE P == <<l, f[x][2]>>
             g == Better(f, x, l)
  <2>3. P[1] = l /\ P[2] = f[x][2]
    OBVIOUS
  <2> HIDE DEF P
  <2>4. RealIn(P, R[x])
    BY <1>1, <2>2, <2>3 DEF RealIn
  <2>5. \A y \in Vertices(D) : g[y] = IF y = x THEN P ELSE f[y]
    BY <2>1 DEF IsLabelling, P
  <2> HIDE DEF g
  <2>6. IsRealIn(D, g, R)
    BY <2>4, <2>5 DEF IsRealIn
  <2> QED BY <2>6 DEF g
<1>4. CASE ~(l.f < f[x][1].f)
  <2>1. Better(f, x, l) = f
    BY <1>4 DEF Better
  <2> QED BY <2>1
<1> QED BY <1>3, <1>4

LEMMA HighFacts ==
  ASSUME NEW I, IsInstance(I), NEW D, IsDiagram(I, D), NEW pi, IsDuals(I, pi), NEW s,
         NEW f, IsLabelling(D, f), NEW n \in Nodes(D)
  PROVE  /\ Used(I, s, f, n) \in Labels /\ HighLabel(I, pi, s, f, n) \in Labels
         /\ HighLabel(I, pi, s, f, n).f = Plus(Used(I, s, f, n).f, ReducedCost(I, pi, n))
         /\ HighLabel(I, pi, s, f, n).job = JobAt(I, n) /\ JobAt(I, n) \in Nat \ {0}
<1> DEFINE u == Used(I, s, f, n)
           j == JobAt(I, n)
           rc == ReducedCost(I, pi, n)
<1>1. j \in Nat \ {0} /\ rc \in Int
  <2>1. j \in DOMAIN I.jobs /\ DOMAIN I.jobs = 1 .. Len(I.jobs) /\ Len(I.jobs) \in Nat
    BY NodeFacts, InstanceFacts
  <2>2. j \in Nat \ {0}
    BY <2>1
  <2> QED BY <2>2, ReducedCostType
<1>2. u \in Labels
  <2>1. n \in Vertices(D)
    BY DEF Vertices
  <2>2. f[n] \in Pairs
    BY <2>1, LabellingFacts
  <2> QED BY <2>2, UsableServes, PairFacts DEF Used
<1>3. HighLabel(I, pi, s, f, n) = Extend(u, j, rc)
  BY DEF HighLabel
<1> HIDE DEF u, j, rc
<1>4. /\ Extend(u, j, rc) \in Labels /\ Extend(u, j, rc).f = Plus(u.f, rc) /\ Extend(u, j, rc).job = j
  BY <1>1, <1>2, ExtendFacts
<1> QED BY <1>1, <1>2, <1>3, <1>4 DEF u, j, rc

\* What the cyclic pass leaves at the children.
Joins(I, D, pi, s, f, n, E) ==
  /\ D.hi[n] # One => E[D.hi[n]] = JoinHigh(f[D.hi[n]], HighLabel(I, pi, s, f, n), JobAt(I, n))
  /\ D.lo[n] # One => E[D.lo[n]] = JoinLow(f[D.lo[n]], f[n], Usable(f[n], JobAt(I, n)).job)

LEMMA EvalReal ==
  ASSUME NEW I, IsInstance(I), NEW D, IsDiagram(I, D), NEW pi, IsDuals(I, pi), NEW s,
         NEW f, IsLabelling(D, f), NEW R, IsRegion(D, R), IsRealIn(D, f, R),
         NEW n \in Nodes(D), Admits(I, D, pi, s, f, n, R)
  PROVE  /\ IsRealIn(D, Eval(I, D, pi, s, f, n), R)
         /\ Cyclic(s) => Joins(I, D, pi, s, f, n, Eval(I, D, pi, s, f, n))
<1> DEFINE j == JobAt(I, n)
           used == Used(I, s, f, n)
           high == HighLabel(I, pi, s, f, n)
           lo == D.lo[n]
           hi == D.hi[n]
<1>1. n \in Vertices(D) /\ lo \in Vertices(D) /\ hi \in Vertices(D) /\ (lo = hi => lo = One) /\ n # lo /\ n # hi
  <2>1. n[1] \in Int /\ n # One
    BY NodeFacts
  <2>2. /\ lo # One => n[1] < lo[1]
        /\ hi # One => n[1] < hi[1]
    BY DEF IsDiagram
  <2> QED BY <2>1, <2>2, NodeFacts, ChildrenDiffer DEF Vertices
<1>2. /\ used \in Labels /\ high \in Labels /\ high.job = j
      /\ high.f = Huge \/ high \in R[hi]
  <2>1. used \in Labels /\ high \in Labels /\ high.job = j /\ high.f = Plus(used.f, ReducedCost(I, pi, n))
    BY HighFacts
  <2>2. used.f = Huge => high.f = Huge
    BY <2>1 DEF Plus
  <2> QED BY <2>1, <2>2 DEF Admits
<1>3. \A x \in Vertices(D) : f[x] \in Pairs /\ Below(R[x]) /\ RealIn(f[x], R[x])
  BY LabellingFacts DEF IsRegion, IsRealIn
<1>4. RealIn(f[n], R[lo])
  BY <1>1, <1>3 DEF Admits, RealIn
<1>5. CASE Cyclic(s)
  <2> DEFINE H == JoinHigh(f[hi], high, j)
             g == [f EXCEPT ![hi] = H]
             M == JoinLow(g[lo], f[n], used.job)
             E == [g EXCEPT ![lo] = M]
  <2>0. used = Usable(f[n], j)
    BY <1>5 DEF Used
  <2>1. Eval(I, D, pi, s, f, n) = E
    <3>1. high = Extend(used, j, ReducedCost(I, pi, n))
      BY DEF HighLabel
    <3>2. Eval(I, D, pi, s, f, n) = EvalCycle(I, D, pi, f, n)
      BY <1>5 DEF Eval
    <3>3. g[n] = f[n]
      <4> HIDE DEF H
      <4> QED BY <1>1 DEF IsLabelling
    <3> HIDE DEF used, high, j
    <3>4. EvalCycle(I, D, pi, f, n) = E
      BY <2>0, <3>1, <3>3 DEF EvalCycle, used, j
    <3> QED BY <3>2, <3>4
  <2> HIDE DEF used, high, j, lo, hi
  <2>2. H \in Pairs /\ RealIn(H, R[hi])
    BY <1>1, <1>2, <1>3, JoinHighServes, JoinHighReal
  <2> HIDE DEF H
  <2>3. g \in [Vertices(D) -> Pairs] /\ \A x \in Vertices(D) : g[x] = IF x = hi THEN H ELSE f[x]
    BY <1>1, <2>2 DEF IsLabelling
  <2> HIDE DEF g
  <2>4. \A x \in Vertices(D) : g[x] \in Pairs /\ RealIn(g[x], R[x])
    BY <1>3, <2>2, <2>3
  <2>5. RealIn(M, R[lo])
    BY <1>1, <1>3, <1>4, <2>4, JoinLowReal
  <2>6. \A x \in Vertices(D) : E[x] = IF x = lo THEN M ELSE g[x]
    <3> HIDE DEF M
    <3> QED BY <1>1, <2>3
  <2>7. lo # One => M = JoinLow(f[lo], f[n], used.job)
    BY <1>1, <2>3
  <2> HIDE DEF M, E
  <2>8. IsRealIn(D, E, R)
    BY <2>4, <2>5, <2>6 DEF IsRealIn
  <2>9. Joins(I, D, pi, s, f, n, E)
    BY <1>1, <2>0, <2>3, <2>6, <2>7 DEF Joins, H, lo, hi, high, j
  <2> QED BY <2>1, <2>8, <2>9
<1>6. CASE ~Cyclic(s)
  <2> DEFINE g == Better(f, hi, high)
             E == Better(g, lo, used)
  <2>1. Eval(I, D, pi, s, f, n) = E
    <3>1. used = f[n][1]
      BY <1>6 DEF Used
    <3>2. high = Extend(f[n][1], j, ReducedCost(I, pi, n))
      BY <3>1 DEF HighLabel
    <3> HIDE DEF used, high
    <3> QED BY <1>6, <3>1, <3>2 DEF Eval, EvalSimple
  <2>2. used.f = Huge \/ used \in R[lo]
    BY <1>4, <1>6 DEF Used, RealIn
  <2> HIDE DEF used, high, lo, hi
  <2>3. IsLabelling(D, g) /\ IsRealIn(D, g, R)
    BY <1>1, <1>2, BetterFacts, BetterReal
  <2> HIDE DEF g
  <2>4. IsRealIn(D, E, R)
    BY <1>1, <1>2, <2>2, <2>3, BetterReal
  <2> QED BY <1>6, <2>1, <2>4
<1> QED BY <1>5, <1>6

--------------------------------------------------------------------------------
(* What a forward pass keeps. *)

\* G has, for each set of nodes done, labellings that a step takes to such of one node more.
IsKept(I, D, pi, s, G) ==
  /\ \A P \in SUBSET Nodes(D) : G[P] \subseteq [Vertices(D) -> Pairs]
  /\ \A P \in SUBSET Nodes(D), n \in Nodes(D) : IsBefore(D, P, n) =>
       \A f \in G[P] : Eval(I, D, pi, s, f, n) \in G[P \cup {n}]

LEMMA RowKeeps ==
  ASSUME NEW I, IsInstance(I), NEW D, IsDiagram(I, D), NEW pi, IsDuals(I, pi), NEW s,
         NEW G, IsKept(I, D, pi, s, G), NEW l \in Nat, NEW f \in G[Passed(D, l, 0)]
  PROVE  ForwardRow(I, D, pi, s, f, l) \in G[Passed(D, l + 1, 0)]
<1>0. \A t : Passed(D, l, t) \in SUBSET Nodes(D)
  BY DEF Passed
<1>1. IsLabelling(D, f)
  BY <1>0 DEF IsKept, IsLabelling
<1>2. PICK A : IsRowPass(I, D, pi, s, f, l, A) /\ ForwardRow(I, D, pi, s, f, l) = A[Horizon(I) + 1]
  BY <1>1, RowIsPass
<1> DEFINE H == Horizon(I) + 1
           F == {k \in 0 .. H : A[k] \in G[Passed(D, l, k)]}
<1>3. H \in Nat
  BY InstanceFacts
<1>4. A[0] = f /\ \A k \in 1 .. H : A[k] = RowStep(I, D, pi, s, l, A[k - 1], k - 1)
  BY <1>2 DEF IsRowPass
<1> HIDE DEF H
<1>5. 0 \in F
  BY <1>3, <1>4
<1>6. ASSUME NEW k \in 1 .. H, k - 1 \in F PROVE k \in F
  <2> DEFINE t == k - 1
             P == Passed(D, l, t)
             n == <<l, t>>
             h == A[t]
  <2>1. k \in 0 .. H /\ t \in Nat /\ t + 1 = k /\ h \in G[P] /\ A[k] = RowStep(I, D, pi, s, l, h, t)
    BY <1>3, <1>4, <1>6
  <2>2. RowStep(I, D, pi, s, l, h, t) = IF n \in Nodes(D) THEN Eval(I, D, pi, s, h, n) ELSE h
    BY DEF RowStep
  <2> HIDE DEF t, h
  <2>3. /\ n \in Nodes(D) => Passed(D, l, t + 1) = P \cup {n} /\ IsBefore(D, P, n)
        /\ n \notin Nodes(D) => Passed(D, l, t + 1) = P
    BY <2>1, PassedGrows
  <2>4. P \in SUBSET Nodes(D)
    BY <1>0
  <2> HIDE DEF P, n
  <2>5. A[k] \in G[Passed(D, l, t + 1)]
    <3>1. CASE n \in Nodes(D)
      BY <2>1, <2>2, <2>3, <2>4, <3>1 DEF IsKept
    <3>2. CASE n \notin Nodes(D)
      BY <2>1, <2>2, <2>3, <3>2
    <3> QED BY <3>1, <3>2
  <2> QED BY <2>1, <2>5
<1>7. A[H] \in G[Passed(D, l, H)]
  <2>1. \A k \in 0 .. H : k \in F
    <3> HIDE DEF F
    <3> QED BY <1>3, <1>5, <1>6, IntervalInduction
  <2>2. H \in 0 .. H
    BY <1>3
  <2> QED BY <2>1, <2>2
<1>8. Passed(D, l, H) = Passed(D, l + 1, 0)
  BY PassedRows DEF H
<1> QED BY <1>2, <1>7, <1>8 DEF H

LEMMA ForwardKeeps ==
  ASSUME NEW I, IsInstance(I), NEW D, IsDiagram(I, D), NEW pi, IsDuals(I, pi), NEW s,
         NEW old, IsStored(D, old), NEW G, IsKept(I, D, pi, s, G), ForwardStart(D, old) \in G[{}]
  PROVE  Forward(I, D, pi, s, old) \in G[Nodes(D)]
<1>1. PICK A : IsForwardPass(I, D, pi, s, old, A) /\ Forward(I, D, pi, s, old) = A[Len(I.layers)]
  BY ForwardIsPass
<1> DEFINE L == Len(I.layers)
           F == {l \in 0 .. L : A[l] \in G[Passed(D, l + 1, 0)]}
<1>2. L \in Nat
  BY InstanceFacts
<1>3. A[0] = ForwardStart(D, old) /\ \A l \in 1 .. L : A[l] = ForwardRow(I, D, pi, s, A[l - 1], l)
  BY <1>1 DEF IsForwardPass
<1>4. Passed(D, 0 + 1, 0) = {} /\ Passed(D, L + 1, 0) = Nodes(D)
  <2>1. Passed(D, 1, 0) = {} /\ Passed(D, L + 1, 0) = Nodes(D)
    BY <1>2, PassedRows
  <2> QED BY <2>1
<1> HIDE DEF L
<1>5. 0 \in F
  BY <1>2, <1>3, <1>4
<1>6. ASSUME NEW k \in 1 .. L, k - 1 \in F PROVE k \in F
  <2> DEFINE t == k - 1
             h == A[t]
  <2>1. k \in 0 .. L /\ k \in Nat /\ t + 1 = k /\ A[k] = ForwardRow(I, D, pi, s, h, k)
        /\ h \in G[Passed(D, t + 1, 0)]
    BY <1>2, <1>3, <1>6
  <2> HIDE DEF t, h
  <2>2. h \in G[Passed(D, k, 0)]
    BY <2>1
  <2>3. A[k] \in G[Passed(D, k + 1, 0)]
    BY <2>1, <2>2, RowKeeps
  <2> QED BY <2>1, <2>3
<1>7. A[L] \in G[Passed(D, L + 1, 0)]
  <2>1. \A k \in 0 .. L : k \in F
    <3> HIDE DEF F
    <3> QED BY <1>2, <1>5, <1>6, IntervalInduction
  <2>2. L \in 0 .. L
    BY <1>2
  <2> QED BY <2>1, <2>2
<1> QED BY <1>1, <1>4, <1>7 DEF L

--------------------------------------------------------------------------------
(* No label comes near Huge, stale or not. *)

IsCeiling(I, B) ==
  /\ B \in 0 .. Huge /\ Len(I.layers) * B < Huge
  /\ \A j \in DOMAIN I.jobs, t \in 0 .. Horizon(I), v \in DualValues : WeightedTardinessStart(I.jobs[j], t) - v <= B
Height(I, x) == IF x = One THEN Len(I.layers) ELSE x[1] - 1
Bounded(I, B, x) == {l \in Labels : l.f < Huge /\ l.f <= Height(I, x) * B}

LEMMA HeightFacts ==
  ASSUME NEW I, IsInstance(I), NEW D, IsDiagram(I, D)
  PROVE  /\ \A x \in Vertices(D) : Height(I, x) \in 0 .. Len(I.layers)
         /\ \A n \in Nodes(D) : Height(I, n) + 1 <= Height(I, D.lo[n]) /\ Height(I, n) + 1 <= Height(I, D.hi[n])
<1>1. Len(I.layers) \in Nat
  BY InstanceFacts
<1>2. \A n \in Nodes(D) : n[1] \in 1 .. Len(I.layers) /\ n # One /\ D.lo[n] \in Vertices(D) /\ D.hi[n] \in Vertices(D)
  BY NodeFacts
<1>3. \A n \in Nodes(D) : /\ D.lo[n] # One => n[1] < D.lo[n][1]
                          /\ D.hi[n] # One => n[1] < D.hi[n][1]
  BY DEF IsDiagram
<1>4. \A x \in Vertices(D) : Height(I, x) \in 0 .. Len(I.layers)
  BY <1>1, <1>2 DEF Height, Vertices
<1>5. ASSUME NEW n \in Nodes(D), NEW x \in Vertices(D), x # One => n[1] < x[1]
      PROVE  Height(I, n) + 1 <= Height(I, x)
  <2>1. Height(I, n) + 1 = n[1]
    BY <1>2 DEF Height
  <2>2. CASE x = One
    BY <1>1, <1>2, <2>1, <2>2 DEF Height
  <2>3. CASE x # One
    <3>1. x[1] \in Int /\ n[1] \in Int
      BY <1>2, <2>3 DEF Vertices
    <3> QED BY <1>5, <2>1, <2>3, <3>1 DEF Height
  <2> QED BY <2>2, <2>3
<1> QED BY <1>2, <1>3, <1>4, <1>5

LEMMA BoundGrows ==
  ASSUME NEW L \in Nat, NEW B \in Nat, L * B < Huge, NEW h \in 0 .. L, NEW k \in 0 .. L, h + 1 <= k
  PROVE  h * B \in Int /\ k * B \in Int /\ h * B <= k * B /\ h * B + B <= k * B /\ k * B < Huge
<1>1. h * B \in Nat /\ k * B \in Nat /\ L * B \in Nat
  BY Multiples
<1>2. (h + 1) * B = h * B + B
  OBVIOUS
<1>3. h + 1 \in 0 .. k /\ k \in Nat /\ h + 1 \in Nat
  OBVIOUS
<1>4. (h + 1) * B <= k * B /\ k * B <= L * B /\ (h + 1) * B \in Nat
  BY <1>3, Multiples
<1> DEFINE a == h * B
           b == k * B
           c == L * B
           d == (h + 1) * B
<1>5. a \in Nat /\ b \in Nat /\ c \in Nat /\ d \in Nat /\ d = a + B /\ d <= b /\ b <= c /\ c < Huge
  BY <1>1, <1>2, <1>4
<1> HIDE DEF a, b, c, d
<1>6. a \in Int /\ b \in Int /\ a <= b /\ a + B <= b /\ b < Huge
  BY <1>5, HugeType
<1> QED BY <1>6 DEF a, b

LEMMA BoundedSteps ==
  ASSUME NEW I, IsInstance(I), NEW D, IsDiagram(I, D), NEW B, IsCeiling(I, B),
         NEW pi \in [DOMAIN I.jobs -> DualValues], IsDuals(I, pi),
         NEW n \in Nodes(D), NEW l \in Bounded(I, B, n)
  PROVE  /\ l \in Bounded(I, B, D.lo[n])
         /\ Extend(l, JobAt(I, n), ReducedCost(I, pi, n)) \in Bounded(I, B, D.hi[n])
         /\ Plus(l.f, ReducedCost(I, pi, n)) = l.f + ReducedCost(I, pi, n)
<1> DEFINE j == JobAt(I, n)
           rc == ReducedCost(I, pi, n)
           L == Len(I.layers)
           h == Height(I, n)
           e == Extend(l, j, rc)
<1>1. /\ j \in DOMAIN I.jobs /\ j \in Nat /\ rc \in Int /\ n[2] \in 0 .. Horizon(I)
      /\ D.lo[n] \in Vertices(D) /\ D.hi[n] \in Vertices(D) /\ n \in Vertices(D)
  <2>1. j \in DOMAIN I.jobs /\ DOMAIN I.jobs = 1 .. Len(I.jobs) /\ Len(I.jobs) \in Nat
    BY NodeFacts, InstanceFacts
  <2>2. j \in Nat
    BY <2>1
  <2> QED BY <2>1, <2>2, NodeFacts, ReducedCostType DEF Vertices
<1>2. rc <= B
  <2>1. pi[j] \in DualValues /\ rc = WeightedTardinessStart(I.jobs[j], n[2]) - pi[j]
    BY <1>1 DEF ReducedCost
  <2> HIDE DEF j, rc
  <2> QED BY <1>1, <2>1 DEF IsCeiling
<1>3. B \in Nat /\ L \in Nat /\ L * B < Huge /\ Huge \in Nat
  BY InstanceFacts, HugeType DEF IsCeiling
<1>4. l \in Labels /\ l.f \in Int /\ l.f < Huge /\ l.f <= h * B
  BY LabelFacts DEF Bounded
<1>5. /\ h \in 0 .. L /\ Height(I, D.lo[n]) \in 0 .. L /\ Height(I, D.hi[n]) \in 0 .. L
      /\ h + 1 <= Height(I, D.lo[n]) /\ h + 1 <= Height(I, D.hi[n])
  BY <1>1, HeightFacts
<1>6. Plus(l.f, rc) = l.f + rc
  BY <1>3, <1>4 DEF Plus
<1> HIDE DEF j, rc, L, h, e
<1>7. e \in Labels /\ e.f = l.f + rc
  BY <1>1, <1>4, <1>6, ExtendFacts DEF e
<1>8. ASSUME NEW k \in 0 .. L, h + 1 <= k
      PROVE  l.f <= k * B /\ l.f + rc <= k * B /\ l.f + rc < Huge
  <2> DEFINE a == h * B
             b == k * B
             x == l.f
  <2>1. a \in Int /\ b \in Int /\ a <= b /\ a + B <= b /\ b < Huge
    BY <1>3, <1>5, <1>8, BoundGrows
  <2>2. x \in Int /\ x <= a
    BY <1>4
  <2> HIDE DEF a, b, x
  <2>3. x <= b /\ x + rc <= b /\ x + rc < Huge
    BY <1>1, <1>2, <1>3, <2>1, <2>2
  <2> QED BY <2>3 DEF b, x
<1>9. l \in Bounded(I, B, D.lo[n])
  BY <1>4, <1>5, <1>8 DEF Bounded
<1>10. e \in Bounded(I, B, D.hi[n])
  BY <1>5, <1>7, <1>8 DEF Bounded
<1> QED BY <1>6, <1>9, <1>10 DEF e, j, rc

\* The labels of two nodes may be compared with anything that is left.
IsBoundedBy(I, N, B, f) == \A n \in N : RealIn(f[n], Bounded(I, B, n))

LEMMA BoundedStart ==
  ASSUME NEW I, IsInstance(I), NEW D, IsDiagram(I, D), NEW B, IsCeiling(I, B)
  PROVE  \A x \in Vertices(D) : Below(Bounded(I, B, x)) /\ RealIn(Fresh(x), Bounded(I, B, x))
<1> SUFFICES ASSUME NEW x \in Vertices(D)
             PROVE  Below(Bounded(I, B, x)) /\ RealIn(Fresh(x), Bounded(I, B, x))
  OBVIOUS
<1>1. Below(Bounded(I, B, x))
  BY DEF Below, Bounded
<1>2. Start.f = 0 /\ NoLabel.f = Huge /\ Start \in Labels /\ NoLabel \in Labels /\ Huge \in Nat /\ 0 < Huge
  BY NoLabels, HugeType DEF Start, NoLabel
<1>3. Start \in Bounded(I, B, x)
  <2>1. Height(I, x) \in 0 .. Len(I.layers) /\ Len(I.layers) \in Nat /\ B \in Nat
    BY <1>2, HeightFacts, InstanceFacts DEF IsCeiling
  <2>2. Height(I, x) * B \in Nat
    BY <2>1, Multiples
  <2> QED BY <1>2, <2>2 DEF Bounded
<1>4. \/ Fresh(x)[1] = Start /\ Fresh(x)[2] = NoLabel
      \/ Fresh(x)[1] = NoLabel /\ Fresh(x)[2] = NoLabel
  BY DEF Fresh
<1> QED BY <1>1, <1>2, <1>3, <1>4 DEF RealIn

LEMMA ForwardBounded ==
  ASSUME NEW I, IsInstance(I), NEW D, IsDiagram(I, D), NEW B, IsCeiling(I, B),
         NEW pi \in [DOMAIN I.jobs -> DualValues], IsDuals(I, pi), NEW s,
         NEW old, IsStored(D, old), IsBoundedBy(I, Nodes(D), B, old)
  PROVE  IsBoundedBy(I, Vertices(D), B, Forward(I, D, pi, s, old))
<1> DEFINE R == [x \in Vertices(D) |-> Bounded(I, B, x)]
           V == [Vertices(D) -> Pairs]
           A == {f \in V : IsRealIn(D, f, R)}
           G == [P \in SUBSET Nodes(D) |-> A]
<1>0. \A x \in Vertices(D) : R[x] = Bounded(I, B, x)
  OBVIOUS
<1> HIDE DEF R
<1>1. IsRegion(D, R)
  BY <1>0, BoundedStart DEF IsRegion
<1>2. ASSUME NEW f \in A, NEW n \in Nodes(D) PROVE Eval(I, D, pi, s, f, n) \in A
  <2>1. IsLabelling(D, f) /\ IsRealIn(D, f, R)
    BY DEF IsLabelling
  <2>2. n \in Vertices(D) /\ D.lo[n] \in Vertices(D) /\ D.hi[n] \in Vertices(D)
    BY NodeFacts DEF Vertices
  <2>3. Used(I, s, f, n).f = Huge \/ Used(I, s, f, n) \in R[n]
    <3>1. RealIn(f[n], R[n])
      BY <2>1, <2>2 DEF IsRealIn
    <3> QED BY <3>1 DEF Used, Usable, RealIn
  <2>4. Admits(I, D, pi, s, f, n, R)
    <3>1. R[n] \subseteq R[D.lo[n]]
      BY <1>0, <2>2, BoundedSteps
    <3>2. Used(I, s, f, n) \in R[n] => HighLabel(I, pi, s, f, n) \in R[D.hi[n]]
      BY <1>0, <2>2, BoundedSteps DEF HighLabel
    <3> QED BY <2>3, <3>1, <3>2 DEF Admits
  <2>5. IsRealIn(D, Eval(I, D, pi, s, f, n), R)
    BY <1>1, <2>1, <2>4, EvalReal
  <2>6. Eval(I, D, pi, s, f, n) \in V
    BY <2>1, EvalFacts DEF Touches, IsLabelling
  <2> QED BY <2>5, <2>6
<1>3. IsKept(I, D, pi, s, G)
  <2>1. \A P \in SUBSET Nodes(D) : G[P] = A
    OBVIOUS
  <2>2. A \subseteq V /\ \A P \in SUBSET Nodes(D), n \in Nodes(D) : P \cup {n} \in SUBSET Nodes(D)
    OBVIOUS
  <2> HIDE DEF G, A
  <2> QED BY <1>2, <2>1, <2>2 DEF IsKept
<1>4. ForwardStart(D, old) \in A
  <2>1. ForwardStart(D, old) \in V
    BY StartFacts DEF IsLabelling
  <2>2. \A x \in Vertices(D) : ForwardStart(D, old)[x] = IF x \in Rowmates(D) THEN old[x] ELSE Fresh(x)
    BY DEF ForwardStart, Vertices
  <2>3. \A x \in Vertices(D) : RealIn(ForwardStart(D, old)[x], R[x])
    BY <1>0, <2>2, BoundedStart DEF IsBoundedBy, Rowmates
  <2> QED BY <2>1, <2>3 DEF IsRealIn
<1>5. Forward(I, D, pi, s, old) \in G[Nodes(D)]
  <2>1. G[{}] = A
    OBVIOUS
  <2> HIDE DEF G, A
  <2> QED BY <1>3, <1>4, <2>1, ForwardKeeps
<1>6. IsRealIn(D, Forward(I, D, pi, s, old), R)
  BY <1>5
<1> QED BY <1>0, <1>6 DEF IsRealIn, IsBoundedBy

--------------------------------------------------------------------------------
(* The labels of a forward pass that starts from none of before: paths to their nodes. *)

LEMMA ConcatFacts ==
  ASSUME NEW T, NEW s \in Seq(T), NEW r \in Seq(T), NEW j \in T
  PROVE  /\ s \o r \in Seq(T) /\ Len(s \o r) = Len(s) + Len(r)
         /\ Append(s, j) \in Seq(T) /\ Len(Append(s, j)) = Len(s) + 1
         /\ Append(s, j)[Len(s) + 1] = j /\ \A i \in 1 .. Len(s) : Append(s, j)[i] = s[i]
         /\ s \o (<<j>> \o r) = Append(s, j) \o r
         /\ (s \o (<<j>> \o r))[Len(s) + 1] = j /\ Len(s) # Len(s \o (<<j>> \o r))
<1>1. Len(s) \in Nat /\ Len(r) \in Nat
  BY SequenceFacts
<1>2. \A t \in Seq(T) : s \o t \in Seq(T) /\ Len(s \o t) = Len(s) + Len(t)
  OBVIOUS
<1>3. \A t, u \in Seq(T) : \A i \in 1 .. Len(t) + Len(u) :
        (t \o u)[i] = IF i <= Len(t) THEN t[i] ELSE u[i - Len(t)]
  OBVIOUS
<1> DEFINE h == <<j>> \o r
           a == Append(s, j)
<1>4. h \in Seq(T) /\ Len(h) = Len(r) + 1 /\ h[1] = j /\ \A i \in 1 .. Len(r) : h[i + 1] = r[i]
  BY HeadedSequence
<1>5. a \in Seq(T) /\ Len(a) = Len(s) + 1 /\ a[Len(s) + 1] = j /\ \A i \in 1 .. Len(s) : a[i] = s[i]
  OBVIOUS
<1> HIDE DEF h, a
<1>6. s \o h \in Seq(T) /\ Len(s \o h) = Len(s) + Len(r) + 1
  <2>1. s \o h \in Seq(T) /\ Len(s \o h) = Len(s) + Len(h)
    <3>1. h \in Seq(T)
      BY <1>4
    <3> QED BY <1>2, <3>1, Zenon
  <2> QED BY <1>1, <1>4, <2>1
<1>7. a \o r \in Seq(T) /\ Len(a \o r) = Len(s) + Len(r) + 1
  <2>1. a \o r \in Seq(T) /\ Len(a \o r) = Len(a) + Len(r)
    BY <1>5, SMTT(30)
  <2> QED BY <1>1, <1>5, <2>1
<1>8. ASSUME NEW i \in 1 .. Len(s) + Len(r) + 1 PROVE (s \o h)[i] = (a \o r)[i]
  <2>1. (s \o h)[i] = IF i <= Len(s) THEN s[i] ELSE h[i - Len(s)]
    BY <1>1, <1>3, <1>4
  <2>2. (a \o r)[i] = IF i <= Len(s) + 1 THEN a[i] ELSE r[i - (Len(s) + 1)]
    <3>1. i \in 1 .. Len(a) + Len(r)
      BY <1>1, <1>5
    <3>2. (a \o r)[i] = IF i <= Len(a) THEN a[i] ELSE r[i - Len(a)]
      BY <1>3, <1>5, <3>1
    <3> QED BY <1>5, <3>2
  <2>3. CASE i <= Len(s)
    <3>1. i \in 1 .. Len(s)
      BY <1>1, <2>3
    <3> QED BY <1>1, <1>5, <2>1, <2>2, <2>3, <3>1
  <2>4. CASE i = Len(s) + 1
    <3>1. i - Len(s) = 1
      BY <1>1, <2>4
    <3> QED BY <1>1, <1>4, <1>5, <2>1, <2>2, <2>4, <3>1
  <2>5. CASE i > Len(s) + 1
    <3>1. i - (Len(s) + 1) \in 1 .. Len(r) /\ i - Len(s) = (i - (Len(s) + 1)) + 1
      BY <1>1, <2>5
    <3>2. ~(i <= Len(s)) /\ ~(i <= Len(s) + 1)
      BY <1>1, <2>5
    <3>3. (s \o h)[i] = h[i - Len(s)] /\ (a \o r)[i] = r[i - (Len(s) + 1)]
      BY <2>1, <2>2, <3>2, Zenon
    <3> DEFINE k == i - (Len(s) + 1)
    <3>4. h[k + 1] = r[k]
      BY <1>4, <3>1, Zenon
    <3>5. h[i - Len(s)] = h[k + 1]
      BY <3>1, Zenon
    <3> QED BY <3>3, <3>4, <3>5, Zenon
  <2>6. i <= Len(s) \/ i = Len(s) + 1 \/ i > Len(s) + 1
    BY <1>1
  <2> QED BY <2>3, <2>4, <2>5, <2>6
<1>9. s \o h = a \o r
  BY <1>6, <1>7, <1>8, EqualSequences
<1>10. (s \o h)[Len(s) + 1] = j /\ Len(s) # Len(s \o h)
  <2>1. Len(s) + 1 \in 1 .. Len(s) + Len(h) /\ (Len(s) + 1) - Len(s) = 1 /\ ~(Len(s) + 1 <= Len(s))
    BY <1>1, <1>4
  <2>2. (s \o h)[Len(s) + 1] = h[1]
    BY <1>3, <1>4, <2>1
  <2>3. Len(s) # Len(s \o h)
    BY <1>1, <1>6
  <2> QED BY <1>4, <2>2, <2>3
<1> QED BY <1>2, <1>5, <1>9, <1>10 DEF h, a

\* What can follow at a node can follow at any before it at the same time.
LEMMA PathsNest ==
  ASSUME NEW I, IsInstance(I), NEW D, IsDiagram(I, D), Skips(I, D)
  PROVE  \A u \in Vertices(D) : \A x \in Nodes(D) :
           u # One /\ u[2] = x[2] /\ u[1] <= x[1] => PathsBelow(I, D)[x] \subseteq PathsBelow(I, D)[u]
<1> DEFINE F == {u \in Vertices(D) : \A x \in Nodes(D) :
                   u # One /\ u[2] = x[2] /\ u[1] <= x[1] => PathsBelow(I, D)[x] \subseteq PathsBelow(I, D)[u]}
<1>1. One \in F
  BY DEF Vertices
<1>2. ASSUME NEW u \in Nodes(D), D.lo[u] \in F PROVE u \in F
  <2> SUFFICES ASSUME NEW x \in Nodes(D), u[2] = x[2], u[1] <= x[1]
               PROVE  PathsBelow(I, D)[x] \subseteq PathsBelow(I, D)[u]
    BY DEF Vertices
  <2>1. u = <<u[1], u[2]>> /\ x = <<x[1], x[2]>> /\ u[1] \in Int /\ x[1] \in Int
    BY NodeFacts
  <2>2. CASE u[1] = x[1]
    BY <2>1, <2>2
  <2>3. CASE u[1] < x[1]
    <3>1. D.lo[u] # One /\ D.lo[u][1] <= x[1]
      BY <2>3 DEF Skips
    <3>2. D.lo[u][2] = x[2]
      BY <3>1 DEF IsDiagram
    <3>3. PathsBelow(I, D)[x] \subseteq PathsBelow(I, D)[D.lo[u]]
      BY <1>2, <3>1, <3>2
    <3> QED BY <3>3, PathsFacts
  <2> QED BY <2>1, <2>2, <2>3
<1>3. \A u \in Vertices(D) : u \in F
  <2> HIDE DEF F
  <2> QED BY <1>1, <1>2, DiagramInduction
<1> QED BY <1>3

\* A job is started at a time by no two nodes.
LEMMA OneNodeForJob ==
  ASSUME NEW I, IsInstance(I), NEW D, IsDiagram(I, D), NEW g \in Nodes(D), NEW h \in Nodes(D),
         JobAt(I, g) = JobAt(I, h), g[2] + Length(I, g) = h[2] + Length(I, h)
  PROVE  g = h
<1> DEFINE e == g[2] + Length(I, g)
<1>1. /\ g = <<g[1], g[2]>> /\ h = <<h[1], h[2]>> /\ Length(I, g) = Length(I, h)
      /\ g[2] \in Int /\ h[2] \in Int /\ Length(I, g) \in Int
      /\ g[1] \in Int /\ h[1] \in Int /\ g[1] \in DOMAIN I.layers /\ h[1] \in DOMAIN I.layers
  <2>1. Length(I, g) = Length(I, h)
    BY DEF Length
  <2> QED BY <2>1, NodeFacts
<1>2. g[2] = h[2]
  <2> DEFINE a == g[2]
             b == h[2]
             k == Length(I, g)
  <2>1. a \in Int /\ b \in Int /\ k \in Int /\ a + k = b + k
    BY <1>1
  <2> HIDE DEF a, b, k
  <2>2. a = b
    BY <2>1, SMTT(30)
  <2> QED BY <2>2 DEF a, b
<1>3. \A n \in Nodes(D) : I.layers[n[1]].a < n[2] + Length(I, n) /\ n[2] + Length(I, n) <= I.layers[n[1]].b
  BY DEF IsDiagram, Fits, Length, JobAt
<1>4. \A k, l \in DOMAIN I.layers : k < l /\ I.layers[k].job = I.layers[l].job => I.layers[k].b <= I.layers[l].a
  BY DEF IsInstance
<1>5. \A k \in DOMAIN I.layers : I.layers[k].a \in Int /\ I.layers[k].b \in Int
  BY InstanceFacts
<1>6. ASSUME NEW u \in Nodes(D), NEW v \in Nodes(D), u[1] < v[1], u[1] \in DOMAIN I.layers, v[1] \in DOMAIN I.layers,
             JobAt(I, u) = JobAt(I, v), u[2] + Length(I, u) = e, v[2] + Length(I, v) = e, e \in Int
      PROVE  FALSE
  <2> HIDE DEF e
  <2> DEFINE a == I.layers[v[1]].a
             b == I.layers[u[1]].b
  <2>1. b <= a
    BY <1>4, <1>6 DEF JobAt
  <2>2. a \in Int /\ b \in Int
    BY <1>5, <1>6
  <2>3. a < e /\ e <= b
    BY <1>3, <1>6
  <2> HIDE DEF a, b
  <2> QED BY <1>6, <2>1, <2>2, <2>3
<1>7. e \in Int
  BY <1>1
<1> HIDE DEF e
<1>8. g[1] = h[1]
  <2>1. ~(g[1] < h[1]) /\ ~(h[1] < g[1])
    BY <1>1, <1>6, <1>7 DEF e
  <2> QED BY <1>1, <2>1
<1> QED BY <1>1, <1>2, <1>8

\* The job of a label that ends its path.
TellsLast(l) == IF l.seq = <<>> THEN l.job = 0 ELSE l.job # 0 /\ l.job = l.seq[Len(l.seq)]
RepeatsNone(p) == \A i \in 2 .. Len(p) : p[i] # p[i - 1]

\* A node its 1-arc leads to, or one before, got the label.
IsBrought(I, D, l, x) ==
  x # One /\ l.job # 0 =>
    \E h \in Nodes(D) : /\ JobAt(I, h) = l.job /\ h[2] + Length(I, h) = x[2]
                        /\ D.hi[h] # One /\ D.hi[h][1] <= x[1]

\* The label is worth what it has of p, which it brings to x on time.
IsPart(I, D, pi, l, x, p) ==
  /\ p \in PathsOf(I, D) /\ Len(l.seq) \in 0 .. Len(p) /\ <<x, Len(l.seq)>> \in OnTime(I, D, p)
  /\ \A V : IsValue(I, pi, p, V) => l.f = V[Len(l.seq)]

\* The labels of parts of paths, whatever follows.
Partial(I, D, pi, s, B, x) ==
  {l \in Bounded(I, B, x) :
     /\ l.seq \in Sequences(I) /\ TellsLast(l) /\ IsBrought(I, D, l, x)
     /\ Cyclic(s) => RepeatsNone(l.seq)
     /\ \A r \in PathsBelow(I, D)[x] : IsPart(I, D, pi, l, x, l.seq \o r)}

LEMMA PartialLow ==
  ASSUME NEW I, IsInstance(I), NEW D, IsDiagram(I, D), NEW B, IsCeiling(I, B),
         NEW pi \in [DOMAIN I.jobs -> DualValues], IsDuals(I, pi), NEW s,
         NEW n \in Nodes(D), NEW l \in Partial(I, D, pi, s, B, n)
  PROVE  l \in Partial(I, D, pi, s, B, D.lo[n])
<1> DEFINE x == D.lo[n]
           k == Len(l.seq)
<1>1. /\ l \in Bounded(I, B, n) /\ l.seq \in Sequences(I) /\ TellsLast(l) /\ (Cyclic(s) => RepeatsNone(l.seq))
      /\ IsBrought(I, D, l, n)
      /\ \A r \in PathsBelow(I, D)[n] : IsPart(I, D, pi, l, n, l.seq \o r)
  BY DEF Partial
<1>2. l \in Bounded(I, B, x)
  BY <1>1, BoundedSteps
<1>3. /\ PathsBelow(I, D)[x] \subseteq PathsBelow(I, D)[n] /\ n # One /\ n[1] \in Int
      /\ x \in Vertices(D) /\ (x # One => n[1] < x[1] /\ x[2] = n[2] /\ x[1] \in Int)
  <2>1. PathsBelow(I, D)[x] \subseteq PathsBelow(I, D)[n]
    BY PathsFacts
  <2>2. n # One /\ n[1] \in Int /\ x \in Vertices(D)
    BY NodeFacts
  <2>3. x # One => x[1] \in Int
    BY <2>2, NodeFacts DEF Vertices
  <2> QED BY <2>1, <2>2, <2>3 DEF IsDiagram
<1> HIDE DEF x
<1>4. IsBrought(I, D, l, x)
  <2> SUFFICES ASSUME x # One, l.job # 0
               PROVE  \E h \in Nodes(D) : /\ JobAt(I, h) = l.job /\ h[2] + Length(I, h) = x[2]
                                          /\ D.hi[h] # One /\ D.hi[h][1] <= x[1]
    BY DEF IsBrought
  <2>1. PICK h \in Nodes(D) : /\ JobAt(I, h) = l.job /\ h[2] + Length(I, h) = n[2]
                              /\ D.hi[h] # One /\ D.hi[h][1] <= n[1]
    BY <1>1, <1>3 DEF IsBrought
  <2>2. D.hi[h][1] \in Int
    BY <2>1, NodeFacts DEF Vertices
  <2>3. D.hi[h][1] <= x[1]
    BY <1>3, <2>1, <2>2
  <2> QED BY <1>3, <2>1, <2>3
<1>5. ASSUME NEW r \in PathsBelow(I, D)[x] PROVE IsPart(I, D, pi, l, x, l.seq \o r)
  <2> DEFINE p == l.seq \o r
  <2>1. IsPart(I, D, pi, l, n, p)
    BY <1>1, <1>3, <1>5
  <2>2. p \in PathsOf(I, D) /\ k \in 0 .. Len(p) /\ <<n, k>> \in OnTime(I, D, p)
    BY <2>1 DEF IsPart
  <2> HIDE DEF p, k
  <2>3. p \in Sequences(I)
    BY <2>2, PathIsShort
  <2>4. <<x, k>> \in OnTime(I, D, p)
    BY <2>2, <2>3, PathIsOnTime DEF x
  <2> QED BY <2>1, <2>2, <2>4 DEF IsPart, p, k
<1> QED BY <1>1, <1>2, <1>4, <1>5 DEF Partial, x

LEMMA PartialHigh ==
  ASSUME NEW I, IsInstance(I), NEW D, IsDiagram(I, D), NEW B, IsCeiling(I, B),
         NEW pi \in [DOMAIN I.jobs -> DualValues], IsDuals(I, pi), NEW s,
         NEW n \in Nodes(D), NEW l \in Partial(I, D, pi, s, B, n), Cyclic(s) => l.job # JobAt(I, n)
  PROVE  Extend(l, JobAt(I, n), ReducedCost(I, pi, n)) \in Partial(I, D, pi, s, B, D.hi[n])
<1> DEFINE x == D.hi[n]
           k == Len(l.seq)
           j == JobAt(I, n)
           rc == ReducedCost(I, pi, n)
           e == Extend(l, j, rc)
           T == DOMAIN I.jobs
<1>1. /\ l \in Bounded(I, B, n) /\ l.seq \in Sequences(I) /\ TellsLast(l) /\ (Cyclic(s) => RepeatsNone(l.seq))
      /\ \A r \in PathsBelow(I, D)[n] : IsPart(I, D, pi, l, n, l.seq \o r)
  BY DEF Partial
<1>2. e \in Bounded(I, B, x) /\ Plus(l.f, rc) = l.f + rc
  BY <1>1, BoundedSteps
<1>3. j \in T /\ j # 0 /\ n \in Nodes(D) /\ x \in Vertices(D) /\ (x # One => x[2] = n[2] + Length(I, n) /\ x[1] \in Int)
  <2>1. j \in T /\ T = 1 .. Len(I.jobs) /\ Len(I.jobs) \in Nat /\ x \in Vertices(D)
    BY NodeFacts, InstanceFacts
  <2>2. j # 0
    BY <2>1
  <2>3. x # One => x[1] \in Int
    BY <2>1, NodeFacts DEF Vertices
  <2> QED BY <2>1, <2>2, <2>3 DEF IsDiagram
<1>4. e.seq = Append(l.seq, j) /\ e.f = l.f + rc /\ e.job = j
  <2> HIDE DEF j, rc
  <2> QED BY <1>2 DEF Extend
<1>5. /\ l.seq \in Seq(T) /\ e.seq \in Seq(T) /\ k \in Nat /\ Len(e.seq) = k + 1 /\ e.seq[k + 1] = j
      /\ \A i \in 1 .. k : e.seq[i] = l.seq[i]
  <2>1. l.seq \in Seq(T)
    BY <1>1 DEF Sequences
  <2> HIDE DEF j, T, e
  <2>2. k \in Nat
    BY <2>1, SequenceFacts
  <2> QED BY <1>3, <1>4, <2>1, <2>2, ConcatFacts
<1> HIDE DEF x, j, rc, e, T, k
<1>6. TellsLast(e)
  <2>1. e.seq # <<>>
    <3>1. Len(e.seq) # 0
      BY <1>5
    <3> QED BY <3>1
  <2> QED BY <1>3, <1>4, <1>5, <2>1 DEF TellsLast
<1>7. Cyclic(s) => RepeatsNone(e.seq)
  <2> SUFFICES ASSUME Cyclic(s), NEW i \in 2 .. Len(e.seq) PROVE e.seq[i] # e.seq[i - 1]
    BY DEF RepeatsNone
  <2>1. CASE i = k + 1
    <3>1. i - 1 = k /\ k \in 1 .. k /\ k # 0
      BY <1>5, <2>1
    <3>2. l.seq # <<>>
      BY <3>1 DEF k
    <3>3. l.job = l.seq[k]
      BY <1>1, <3>2 DEF TellsLast, k
    <3> QED BY <1>5, <2>1, <3>1, <3>3 DEF j
  <2>2. CASE i # k + 1
    <3>1. i \in 2 .. k /\ i \in 1 .. k /\ i - 1 \in 1 .. k
      BY <1>5, <2>2
    <3>2. l.seq[i] # l.seq[i - 1]
      BY <1>1, <3>1 DEF RepeatsNone, k
    <3> QED BY <1>5, <3>1, <3>2
  <2> QED BY <2>1, <2>2
<1>8. IsBrought(I, D, e, x)
  <2> SUFFICES ASSUME x # One PROVE \E h \in Nodes(D) : /\ JobAt(I, h) = e.job /\ h[2] + Length(I, h) = x[2]
                                                        /\ D.hi[h] # One /\ D.hi[h][1] <= x[1]
    BY DEF IsBrought
  <2>1. JobAt(I, n) = e.job /\ D.hi[n] # One /\ D.hi[n][1] <= x[1] /\ n[2] + Length(I, n) = x[2]
    <3>1. x[1] <= x[1]
      BY <1>3
    <3> QED BY <1>3, <1>4, <3>1 DEF x, j
  <2> QED BY <2>1
<1>9. ASSUME NEW r \in PathsBelow(I, D)[x] PROVE IsPart(I, D, pi, e, x, e.seq \o r)
  <2> DEFINE p == e.seq \o r
  <2>1. r \in Seq(T)
    BY <1>3, <1>9, PathsFacts DEF Sequences, T
  <2>2. p = l.seq \o (<<j>> \o r) /\ p[k + 1] = j /\ k # Len(p)
    <3> DEFINE q == l.seq
    <3>1. q \in Seq(T) /\ j \in T
      BY <1>3, <1>5
    <3>2. k = Len(q)
      BY DEF k
    <3>3. p = Append(q, j) \o r
      BY <1>4
    <3> HIDE DEF q, p
    <3>4. /\ q \o (<<j>> \o r) = Append(q, j) \o r
          /\ (q \o (<<j>> \o r))[Len(q) + 1] = j /\ Len(q) # Len(q \o (<<j>> \o r))
      BY <2>1, <3>1, ConcatFacts
    <3>5. p = q \o (<<j>> \o r)
      BY <3>3, <3>4
    <3>6. p[k + 1] = j /\ k # Len(p)
      BY <3>2, <3>4, <3>5
    <3> QED BY <3>5, <3>6 DEF q
  <2> HIDE DEF p
  <2>3. <<j>> \o r \in PathsBelow(I, D)[n]
    <3>1. PathsBelow(I, D)[n] = PathsBelow(I, D)[D.lo[n]] \cup Headed(JobAt(I, n), PathsBelow(I, D)[D.hi[n]])
      BY PathsFacts
    <3>2. <<j>> \o r \in Headed(j, PathsBelow(I, D)[x])
      BY <1>9 DEF Headed
    <3> QED BY <3>1, <3>2 DEF j, x
  <2>4. IsPart(I, D, pi, l, n, p)
    BY <1>1, <2>2, <2>3
  <2>5. p \in PathsOf(I, D) /\ k \in 0 .. Len(p) /\ <<n, k>> \in OnTime(I, D, p)
    BY <2>4 DEF IsPart, k
  <2>6. p \in Sequences(I)
    BY <2>5, PathIsShort
  <2>7. <<x, k + 1>> \in OnTime(I, D, p)
    BY <2>2, <2>5, <2>6, PathIsOnTime DEF x, j
  <2>8. k + 1 \in 0 .. Len(p) /\ k # Len(p)
    <3>1. Len(p) \in Nat
      BY <2>6, SequenceFacts DEF Sequences
    <3>2. k \in Nat /\ k \in 0 .. Len(p) /\ k # Len(p)
      BY <1>5, <2>2, <2>5
    <3>3. k + 1 \in 0 .. Len(p) /\ k # Len(p)
      BY <3>1, <3>2
    <3> QED BY <3>3
  <2>9. ASSUME NEW V, IsValue(I, pi, p, V) PROVE e.f = V[k + 1]
    <3>1. V[k + 1] = V[k] + rc
      <4>1. p[k + 1] = JobAt(I, n)
        BY <2>2 DEF j
      <4>2. V[k + 1] = V[k] + ReducedCost(I, pi, n)
        BY <1>3, <2>5, <2>6, <2>8, <2>9, <4>1, ArcValue
      <4> QED BY <4>2 DEF rc
    <3>2. l.f = V[k]
      BY <2>4, <2>9 DEF IsPart, k
    <3> QED BY <1>4, <3>1, <3>2
  <2>10. IsPart(I, D, pi, e, x, p)
    BY <1>5, <2>5, <2>7, <2>8, <2>9 DEF IsPart
  <2> QED BY <2>10 DEF p
<1>10. e.seq \in Sequences(I)
  BY <1>5 DEF Sequences, T
<1> QED BY <1>2, <1>6, <1>7, <1>8, <1>9, <1>10 DEF Partial, e, x, j, rc

\* A label that a 1-arc to z brought, and no 0-arc.
IsDirect(I, D, l, z) ==
  l.f # Huge /\ l.job # 0 =>
    \E h \in Nodes(D) : JobAt(I, h) = l.job /\ h[2] + Length(I, h) = z[2] /\ D.hi[h] = z

\* What the cyclic solvers keep besides: a node's labels are for different jobs, and as long
\* as no 0-arc to it was followed they are from its 1-arcs.
IsTold(I, D, f, P) ==
  \A z \in Nodes(D) :
    /\ Apart(f[z])
    /\ (\A u \in P : D.lo[u] # z) => IsDirect(I, D, f[z][1], z) /\ IsDirect(I, D, f[z][2], z)

LEMMA LowIsNew ==
  ASSUME NEW I, IsInstance(I), NEW D, IsDiagram(I, D), Skips(I, D), NEW P, NEW n, IsBefore(D, P, n), D.lo[n] # One
  PROVE  \A u \in P : D.lo[u] # D.lo[n]
<1> SUFFICES ASSUME NEW u \in P, D.lo[u] = D.lo[n] PROVE FALSE
  OBVIOUS
<1>1. n \in Nodes(D) /\ u \in Nodes(D) /\ u # n /\ u[1] <= n[1]
  BY DEF IsBefore
<1>2. /\ u = <<u[1], u[2]>> /\ n = <<n[1], n[2]>> /\ u[1] \in Int /\ n[1] \in Int
      /\ n[1] < D.lo[n][1] /\ D.lo[n][2] = n[2] /\ D.lo[u][2] = u[2] /\ D.lo[n][1] \in Int
  <2>1. D.lo[n] \in Nodes(D)
    BY <1>1, NodeFacts DEF Vertices
  <2>2. D.lo[n][1] \in Int
    BY <2>1, NodeFacts
  <2>3. n[1] < D.lo[n][1] /\ D.lo[n][2] = n[2] /\ D.lo[u][2] = u[2]
    BY <1>1 DEF IsDiagram
  <2> QED BY <1>1, <2>2, <2>3, NodeFacts
<1>3. u[2] = n[2]
  BY <1>2
<1>4. u[1] < n[1]
  BY <1>1, <1>2, <1>3
<1>5. D.lo[u][1] <= n[1]
  BY <1>1, <1>3, <1>4 DEF Skips
<1> QED BY <1>2, <1>5

LEMMA StepIsTold ==
  ASSUME NEW I, IsInstance(I), NEW D, IsDiagram(I, D), Skips(I, D), NEW pi, IsDuals(I, pi), NEW s, Cyclic(s),
         NEW f, IsLabelling(D, f), NEW P, NEW n, IsBefore(D, P, n), IsReady(I, D, f, P), IsTold(I, D, f, P),
         NEW R, IsRegion(D, R), IsRealIn(D, f, R), Admits(I, D, pi, s, f, n, R),
         \A x \in Vertices(D) : \A l \in R[x] : IsBrought(I, D, l, x)
  PROVE  IsTold(I, D, Eval(I, D, pi, s, f, n), P \cup {n})
<1> DEFINE E == Eval(I, D, pi, s, f, n)
           j == JobAt(I, n)
           high == HighLabel(I, pi, s, f, n)
           lo == D.lo[n]
           hi == D.hi[n]
<1>1. n \in Nodes(D) \ P /\ n \in Nodes(D)
  BY DEF IsBefore
<1>2. Touches(D, f, n, E) /\ Joins(I, D, pi, s, f, n, E)
  BY <1>1, EvalFacts, EvalReal
<1> HIDE DEF E
<1>3. /\ high \in Labels /\ high.job = j /\ j \in Nat \ {0}
      /\ high.f = Huge \/ high \in R[hi]
  <2>1. /\ Used(I, s, f, n) \in Labels /\ high \in Labels /\ high.job = j /\ j \in Nat \ {0}
        /\ high.f = Plus(Used(I, s, f, n).f, ReducedCost(I, pi, n))
    BY <1>1, HighFacts
  <2>2. Used(I, s, f, n).f = Huge => high.f = Huge
    BY <2>1 DEF Plus
  <2> QED BY <2>1, <2>2 DEF Admits
<1>4. \A x \in Vertices(D) : f[x] \in Pairs /\ Below(R[x]) /\ RealIn(f[x], R[x])
  BY LabellingFacts DEF IsRegion, IsRealIn
<1>5. n \in Vertices(D) /\ lo \in Vertices(D) /\ hi \in Vertices(D) /\ (lo = hi => lo = One) /\ \A z \in Nodes(D) : z \in Vertices(D) /\ z # One
  BY <1>1, NodeFacts, ChildrenDiffer DEF Vertices
<1> SUFFICES ASSUME NEW z \in Nodes(D)
             PROVE  /\ Apart(E[z])
                    /\ (\A u \in P \cup {n} : D.lo[u] # z) => IsDirect(I, D, E[z][1], z) /\ IsDirect(I, D, E[z][2], z)
  BY DEF IsTold, E
<1>6. /\ Apart(f[z])
      /\ (\A u \in P : D.lo[u] # z) => IsDirect(I, D, f[z][1], z) /\ IsDirect(I, D, f[z][2], z)
  BY DEF IsTold
<1>7. CASE z # lo /\ z # hi
  <2>1. E[z] = f[z]
    BY <1>2, <1>5, <1>7 DEF Touches
  <2> QED BY <1>6, <2>1
<1>8. CASE z = hi
  <2>1. E[z] = JoinHigh(f[z], high, j)
    BY <1>2, <1>5, <1>8 DEF Joins
  <2>2. IsDirect(I, D, high, z)
    <3>1. n[2] + Length(I, n) = z[2]
      BY <1>1, <1>5, <1>8 DEF IsDiagram
    <3> QED BY <1>1, <1>3, <1>8, <3>1 DEF IsDirect
  <2> HIDE DEF high, j, hi, lo
  <2>3. f[z] \in Pairs /\ Below(R[z]) /\ RealIn(f[z], R[z]) /\ (high.f = Huge \/ high \in R[z])
    BY <1>3, <1>4, <1>5, <1>8
  <2>4. /\ Apart(f[z]) => Apart(JoinHigh(f[z], high, j))
        /\ JoinHigh(f[z], high, j)[1] \in {f[z][1], f[z][2], high} /\ JoinHigh(f[z], high, j)[2] \in {f[z][1], f[z][2], high}
    BY <1>3, <2>3, JoinHighReal
  <2>5. Apart(E[z]) /\ E[z][1] \in {f[z][1], f[z][2], high} /\ E[z][2] \in {f[z][1], f[z][2], high}
    BY <1>6, <2>1, <2>4
  <2>6. (\A u \in P \cup {n} : D.lo[u] # z) => (\A u \in P : D.lo[u] # z)
    OBVIOUS
  <2> QED BY <1>6, <2>2, <2>5, <2>6
<1>9. CASE z = lo /\ z # hi
  <2>1. E[z] = JoinLow(f[z], f[n], Usable(f[n], j).job)
    BY <1>2, <1>5, <1>9 DEF Joins
  <2>2. ~(\A u \in P \cup {n} : D.lo[u] # z)
    BY <1>1, <1>9
  <2>3. /\ lo # One /\ n[1] < z[1] /\ z[2] = n[2] /\ n[1] \in Int /\ z[1] \in Int
        /\ \A u \in P : D.lo[u] # z
    <3>1. n[1] < z[1] /\ z[2] = n[2] /\ lo # One
      BY <1>1, <1>5, <1>9 DEF IsDiagram
    <3>2. \A u \in P : D.lo[u] # z
      BY <1>9, <3>1, LowIsNew
    <3> QED BY <1>1, <3>1, <3>2, NodeFacts
  <2>4. Ready(I, D, f, n)
    BY <1>1 DEF IsReady
  <2>5. CASE f[z] = <<Start, NoLabel>> /\ f[n] = f[z]
    <3>1. E[z] = <<Start, NoLabel>>
      BY <1>3, <2>1, <2>5, JoinStart
    <3>2. E[z][2].f = Huge
      BY <3>1 DEF NoLabel
    <3> QED BY <2>2, <3>2 DEF Apart
  <2>6. CASE f[z][1].job \in {0, j} /\ (f[z][1].job = 0 => f[z][1].f = Huge)
    <3>1. ASSUME f[z][1].f # Huge PROVE f[z][1].job = j
      BY <2>6, <3>1
    <3>2. ASSUME f[z][1].f # Huge, NEW l \in R[n], l.job = j PROVE FALSE
      <4>1. IsDirect(I, D, f[z][1], z) /\ f[z][1].job = j /\ j # 0
        BY <1>3, <1>6, <2>3, <3>1, <3>2
      <4>2. PICK h \in Nodes(D) : JobAt(I, h) = j /\ h[2] + Length(I, h) = z[2] /\ D.hi[h] = z
        BY <3>2, <4>1 DEF IsDirect
      <4>3. IsBrought(I, D, l, n) /\ n # One /\ l.job # 0
        BY <1>1, <1>5, <3>2, <4>1
      <4>4. PICK g \in Nodes(D) : /\ JobAt(I, g) = j /\ g[2] + Length(I, g) = n[2]
                                  /\ D.hi[g] # One /\ D.hi[g][1] <= n[1]
        BY <3>2, <4>3 DEF IsBrought
      <4>5. g = h
        BY <2>3, <4>2, <4>4, OneNodeForJob
      <4>6. z[1] <= n[1]
        BY <4>2, <4>4, <4>5
      <4> QED BY <2>3, <4>6
    <3>3. f[n][1].f = Huge \/ f[n][1] \in R[n]
      BY <1>4, <1>5 DEF RealIn
    <3>4. f[n][2].f = Huge \/ f[n][2] \in R[n]
      BY <1>4, <1>5 DEF RealIn
    <3>5. f[z][1].f # Huge => /\ f[z][1].job = j
                              /\ (f[n][1].f # Huge => f[n][1].job # j) /\ (f[n][2].f # Huge => f[n][2].job # j)
      BY <3>1, <3>2, <3>3, <3>4
    <3>6. R[n] \subseteq R[z]
      BY <1>9 DEF Admits
    <3>7. RealIn(f[n], R[z]) /\ Below(R[z]) /\ RealIn(f[z], R[z]) /\ f[z] \in Pairs /\ f[n] \in Pairs
      BY <1>4, <1>5, <3>6 DEF RealIn
    <3>8. Apart(f[n])
      BY <1>1 DEF IsTold
    <3> HIDE DEF j, lo, hi, high
    <3>9. Apart(JoinLow(f[z], f[n], Usable(f[n], j).job))
      BY <1>6, <3>5, <3>7, <3>8, JoinLowApart
    <3> QED BY <2>1, <2>2, <3>9
  <2> QED BY <1>9, <2>3, <2>4, <2>5, <2>6 DEF Ready
<1> QED BY <1>7, <1>8, <1>9

LEMMA PartialIsRegion ==
  ASSUME NEW I, NEW D, NEW pi, NEW s, NEW B, NEW x
  PROVE  Below(Partial(I, D, pi, s, B, x)) /\ \A l \in Partial(I, D, pi, s, B, x) : IsBrought(I, D, l, x)
BY DEF Partial, Bounded, Below

\* The label the 1-arc is taken with ends with another job.
LEMMA PartialAdmits ==
  ASSUME NEW I, IsInstance(I), NEW D, IsDiagram(I, D), NEW B, IsCeiling(I, B),
         NEW pi \in [DOMAIN I.jobs -> DualValues], IsDuals(I, pi), NEW s,
         NEW f, IsLabelling(D, f), NEW R, \A x \in Vertices(D) : R[x] = Partial(I, D, pi, s, B, x),
         IsRealIn(D, f, R), NEW n \in Nodes(D), Cyclic(s) => Apart(f[n])
  PROVE  Admits(I, D, pi, s, f, n, R)
<1>1. n \in Vertices(D) /\ D.lo[n] \in Vertices(D) /\ D.hi[n] \in Vertices(D)
  BY NodeFacts DEF Vertices
<1>2. R[n] \subseteq R[D.lo[n]]
  BY <1>1, PartialLow
<1>3. f[n] \in Pairs /\ RealIn(f[n], R[n])
  BY <1>1, LabellingFacts DEF IsRealIn
<1>4. \/ Used(I, s, f, n).f = Huge
      \/ Used(I, s, f, n) \in R[n] /\ (Cyclic(s) => Used(I, s, f, n).job # JobAt(I, n))
  <2>1. CASE Cyclic(s)
    BY <1>3, <2>1, UsableReal DEF Used
  <2>2. CASE ~Cyclic(s)
    BY <1>3, <2>2 DEF Used, RealIn
  <2> QED BY <2>1, <2>2
<1>5. Used(I, s, f, n).f = Huge \/ HighLabel(I, pi, s, f, n) \in R[D.hi[n]]
  BY <1>1, <1>4, PartialHigh DEF HighLabel
<1> QED BY <1>2, <1>5 DEF Admits

\* Nothing of an earlier pass is left in the root's row.
IsClean(D, old) == \A n \in Rowmates(D) : old[n][1].f = Huge /\ old[n][2].f = Huge

LEMMA StartIsPartial ==
  ASSUME NEW I, IsInstance(I), NEW D, IsDiagram(I, D), Skips(I, D), NEW B, IsCeiling(I, B), NEW pi, NEW s,
         NEW x \in Nodes(D), x[2] = 0
  PROVE  Start \in Partial(I, D, pi, s, B, x)
<1>1. Start.f = 0 /\ Start.job = 0 /\ Start.seq = <<>> /\ Len(Start.seq) = 0
  BY DEF Start
<1>2. x \in Vertices(D) /\ x # One /\ D.root \in Vertices(D) /\ D.root # One /\ D.root[2] = 0 /\ D.root[1] <= x[1]
  BY NodeFacts DEF Vertices, IsDiagram
<1>3. Start \in Bounded(I, B, x)
  <2>1. RealIn(Fresh(x), Bounded(I, B, x)) /\ Fresh(x)[1] = Start
    BY <1>2, BoundedStart DEF Fresh
  <2> QED BY <1>1, <2>1, HugeType DEF RealIn
<1>4. Start.seq \in Sequences(I) /\ TellsLast(Start) /\ IsBrought(I, D, Start, x) /\ RepeatsNone(Start.seq)
  BY <1>1 DEF Sequences, TellsLast, IsBrought, RepeatsNone
<1>5. ASSUME NEW r \in PathsBelow(I, D)[x] PROVE IsPart(I, D, pi, Start, x, Start.seq \o r)
  <2>1. r \in PathsOf(I, D)
    <3>1. PathsBelow(I, D)[x] \subseteq PathsBelow(I, D)[D.root]
      BY <1>2, PathsNest
    <3> QED BY <1>5, <3>1 DEF PathsOf
  <2>2. r \in Sequences(I)
    BY <2>1, PathIsShort
  <2>3. Start.seq \o r = r
    <3>1. r \in Seq(DOMAIN I.jobs)
      BY <2>2 DEF Sequences
    <3> QED BY <1>1, <3>1
  <2>4. 0 \in 0 .. Len(r) /\ EndOf(I, r, 0) = 0
    <3>1. Len(r) \in Nat
      BY <2>2, SequenceFacts DEF Sequences
    <3> QED BY <2>2, <3>1, EndFacts
  <2>5. <<x, 0>> \in OnTime(I, D, r)
    BY <1>2, <2>4 DEF OnTime
  <2>6. \A V : IsValue(I, pi, r, V) => Start.f = V[0]
    BY <1>1 DEF IsValue
  <2> QED BY <1>1, <2>1, <2>3, <2>4, <2>5, <2>6 DEF IsPart
<1> QED BY <1>3, <1>4, <1>5 DEF Partial

LEMMA CleanStart ==
  ASSUME NEW I, IsInstance(I), NEW D, IsDiagram(I, D), Skips(I, D), NEW B, IsCeiling(I, B), NEW pi, NEW s,
         NEW old, IsStored(D, old), IsClean(D, old),
         NEW R, \A x \in Vertices(D) : R[x] = Partial(I, D, pi, s, B, x)
  PROVE  IsRealIn(D, ForwardStart(D, old), R) /\ IsTold(I, D, ForwardStart(D, old), {})
<1> DEFINE f == ForwardStart(D, old)
<1>1. \A x \in Vertices(D) : f[x] = IF x \in Rowmates(D) THEN old[x] ELSE Fresh(x)
  BY DEF ForwardStart, Vertices
<1> HIDE DEF f
<1>2. NoLabel.f = Huge /\ Start.job = 0
  BY DEF NoLabel, Start
<1>3. ASSUME NEW x \in Vertices(D)
      PROVE  \/ f[x][1].f = Huge /\ f[x][2].f = Huge
             \/ f[x][1] = Start /\ f[x][2].f = Huge /\ x # One /\ x[2] = 0
  <2>1. CASE x \in Rowmates(D)
    BY <1>1, <2>1 DEF IsClean
  <2>2. CASE x \notin Rowmates(D)
    <3>1. f[x] = Fresh(x)
      BY <1>1, <2>2
    <3>2. CASE x # One /\ x[2] = 0
      BY <1>2, <3>1, <3>2 DEF Fresh
    <3>3. CASE ~(x # One /\ x[2] = 0)
      <4>1. f[x] = <<NoLabel, NoLabel>>
        BY <3>1, <3>3 DEF Fresh
      <4> QED BY <1>2, <4>1
    <3> QED BY <3>2, <3>3
  <2> QED BY <2>1, <2>2
<1>4. \A x \in Vertices(D) : RealIn(f[x], R[x])
  <2> SUFFICES ASSUME NEW x \in Vertices(D) PROVE RealIn(f[x], R[x])
    OBVIOUS
  <2>1. x # One /\ x[2] = 0 => Start \in R[x]
    BY StartIsPartial DEF Vertices
  <2> QED BY <1>3, <2>1 DEF RealIn
<1>5. \A z \in Nodes(D) : Apart(f[z]) /\ IsDirect(I, D, f[z][1], z) /\ IsDirect(I, D, f[z][2], z)
  <2>1. \A z \in Nodes(D) : z \in Vertices(D)
    BY DEF Vertices
  <2> QED BY <1>2, <1>3, <2>1 DEF Apart, IsDirect
<1> QED BY <1>4, <1>5 DEF IsRealIn, IsTold, f

\* The labels of a forward pass are those of paths, and worth what these are.
LEMMA ForwardPartial ==
  ASSUME NEW I, IsInstance(I), NEW D, IsDiagram(I, D), Skips(I, D), NEW B, IsCeiling(I, B),
         NEW pi \in [DOMAIN I.jobs -> DualValues], IsDuals(I, pi), NEW s,
         NEW old, IsStored(D, old), IsClean(D, old)
  PROVE  \A x \in Vertices(D) : RealIn(Forward(I, D, pi, s, old)[x], Partial(I, D, pi, s, B, x))
<1> DEFINE R == [x \in Vertices(D) |-> Partial(I, D, pi, s, B, x)]
           V == [Vertices(D) -> Pairs]
           Good(P) == {f \in V : /\ IsRealIn(D, f, R) /\ IsReady(I, D, f, P)
                                 /\ Cyclic(s) => IsTold(I, D, f, P)}
           G == [P \in SUBSET Nodes(D) |-> Good(P)]
<1>1. \A x \in Vertices(D) : R[x] = Partial(I, D, pi, s, B, x)
  OBVIOUS
<1> HIDE DEF R
<1>2. IsRegion(D, R) /\ \A x \in Vertices(D) : \A l \in R[x] : IsBrought(I, D, l, x)
  BY <1>1, PartialIsRegion DEF IsRegion
<1>3. ASSUME NEW P \in SUBSET Nodes(D), NEW n \in Nodes(D), IsBefore(D, P, n), NEW f \in Good(P)
      PROVE  Eval(I, D, pi, s, f, n) \in Good(P \cup {n})
  <2>1. IsLabelling(D, f) /\ IsRealIn(D, f, R) /\ IsReady(I, D, f, P) /\ (Cyclic(s) => IsTold(I, D, f, P))
    BY <1>3 DEF IsLabelling
  <2>2. Cyclic(s) => Apart(f[n])
    BY <2>1 DEF IsTold
  <2>3. Admits(I, D, pi, s, f, n, R)
    BY <1>1, <2>1, <2>2, PartialAdmits
  <2>4. IsRealIn(D, Eval(I, D, pi, s, f, n), R)
    BY <1>2, <2>1, <2>3, EvalReal
  <2>5. IsReady(I, D, Eval(I, D, pi, s, f, n), P \cup {n})
    BY <1>3, <2>1, StepIsReady
  <2>6. Cyclic(s) => IsTold(I, D, Eval(I, D, pi, s, f, n), P \cup {n})
    BY <1>2, <1>3, <2>1, <2>3, StepIsTold
  <2>7. Eval(I, D, pi, s, f, n) \in V
    BY <2>1, EvalFacts DEF Touches, IsLabelling
  <2> QED BY <2>4, <2>5, <2>6, <2>7
<1>4. IsKept(I, D, pi, s, G)
  <2>1. \A P \in SUBSET Nodes(D) : G[P] = Good(P) /\ Good(P) \subseteq V
    OBVIOUS
  <2>2. \A P \in SUBSET Nodes(D), n \in Nodes(D) : P \cup {n} \in SUBSET Nodes(D)
    OBVIOUS
  <2> HIDE DEF G, Good
  <2> QED BY <1>3, <2>1, <2>2 DEF IsKept
<1>5. ForwardStart(D, old) \in G[{}]
  <2>1. ForwardStart(D, old) \in V /\ IsReady(I, D, ForwardStart(D, old), {})
    BY StartFacts DEF IsLabelling
  <2>2. IsRealIn(D, ForwardStart(D, old), R) /\ IsTold(I, D, ForwardStart(D, old), {})
    BY <1>1, CleanStart
  <2> QED BY <2>1, <2>2
<1>6. Forward(I, D, pi, s, old) \in G[Nodes(D)]
  <2> HIDE DEF G
  <2> QED BY <1>4, <1>5, ForwardKeeps
<1>7. IsRealIn(D, Forward(I, D, pi, s, old), R)
  BY <1>6
<1> QED BY <1>1, <1>7 DEF IsRealIn

--------------------------------------------------------------------------------
(* The labels of the backward recursions: paths from their nodes. *)

TellsFirst(l) == IF l.seq = <<>> THEN l.job = 0 ELSE l.job # 0 /\ l.job = l.seq[1]

\* The label is worth what p adds after its first i jobs.
IsTail(I, D, pi, l, n, p, i) ==
  Rest(p, i) = l.seq /\ <<n, i>> \in OnTime(I, D, p) =>
    \A V : IsValue(I, pi, p, V) => l.f = V[Len(p)] - V[i]

\* The labels of paths from n, whatever comes before.
Ending(I, D, pi, s, B, n) ==
  {l \in Labels :
     /\ l.f < Huge /\ l.f <= Depth(I, n) * B
     /\ l.seq \in PathsBelow(I, D)[n] /\ TellsFirst(l) /\ (Cyclic(s) => RepeatsNone(l.seq))
     /\ \A p \in Sequences(I) : \A i \in 0 .. Len(p) : IsTail(I, D, pi, l, n, p, i)}

LEMMA EndingBase ==
  ASSUME NEW I, IsInstance(I), NEW D, IsDiagram(I, D), NEW B, IsCeiling(I, B), NEW pi, NEW s
  PROVE  Start \in Ending(I, D, pi, s, B, One)
<1>1. Start.f = 0 /\ Start.job = 0 /\ Start.seq = <<>> /\ Len(Start.seq) = 0 /\ Start \in Labels
  BY NoLabels DEF Start
<1>2. 0 < Huge /\ 0 <= Depth(I, One) * B
  <2>1. Depth(I, One) = 0 /\ B \in Nat
    BY HugeType DEF Depth, IsCeiling
  <2> QED BY <2>1, HugeType
<1>3. Start.seq \in PathsBelow(I, D)[One]
  BY <1>1, PathsFacts
<1>4. TellsFirst(Start) /\ RepeatsNone(Start.seq)
  BY <1>1 DEF TellsFirst, RepeatsNone
<1>5. ASSUME NEW p \in Sequences(I), NEW i \in 0 .. Len(p) PROVE IsTail(I, D, pi, Start, One, p, i)
  <2> SUFFICES ASSUME Rest(p, i) = <<>>, NEW V, IsValue(I, pi, p, V) PROVE 0 = V[Len(p)] - V[i]
    BY <1>1 DEF IsTail
  <2>1. Len(p) \in Nat /\ Len(Rest(p, i)) = Len(p) - i
    BY SequenceFacts, RestFacts DEF Sequences
  <2>2. Len(Rest(p, i)) = 0
    OBVIOUS
  <2>3. i = Len(p)
    BY <2>1, <2>2
  <2>4. V[i] \in Int
    BY DEF IsValue
  <2> QED BY <2>3, <2>4
<1> QED BY <1>1, <1>2, <1>3, <1>4, <1>5 DEF Ending

\* What a step up the diagram adds to a value that keeps to its bound.
LEMMA DepthBound ==
  ASSUME NEW I, IsInstance(I), NEW D, IsDiagram(I, D), NEW B, IsCeiling(I, B),
         NEW pi \in [DOMAIN I.jobs -> DualValues], IsDuals(I, pi), NEW n \in Nodes(D), NEW v \in Int
  PROVE  /\ v <= Depth(I, D.lo[n]) * B => v <= Depth(I, n) * B
         /\ v < Huge /\ v <= Depth(I, D.hi[n]) * B =>
              /\ Plus(v, ReducedCost(I, pi, n)) = v + ReducedCost(I, pi, n)
              /\ v + ReducedCost(I, pi, n) < Huge /\ v + ReducedCost(I, pi, n) <= Depth(I, n) * B
<1> DEFINE j == JobAt(I, n)
           rc == ReducedCost(I, pi, n)
           L == Len(I.layers)
           k == Depth(I, n)
<1>1. rc \in Int /\ rc <= B
  <2>1. j \in DOMAIN I.jobs /\ n[2] \in 0 .. Horizon(I) /\ rc \in Int
    BY NodeFacts, ReducedCostType
  <2>2. pi[j] \in DualValues /\ rc = WeightedTardinessStart(I.jobs[j], n[2]) - pi[j]
    BY <2>1 DEF ReducedCost
  <2> HIDE DEF j, rc
  <2> QED BY <2>1, <2>2 DEF IsCeiling
<1>2. B \in Nat /\ L \in Nat /\ L * B < Huge /\ Huge \in Nat
  BY InstanceFacts, HugeType DEF IsCeiling
<1>3. /\ k \in 0 .. L
      /\ \A x \in {D.lo[n], D.hi[n]} : Depth(I, x) \in 0 .. L /\ Depth(I, x) < k
  <2>1. n \in Vertices(D) /\ D.lo[n] \in Vertices(D) /\ D.hi[n] \in Vertices(D)
    BY NodeFacts DEF Vertices
  <2> QED BY <2>1, DepthFalls
<1>4. v # Huge => Plus(v, rc) = v + rc
  BY DEF Plus
<1> HIDE DEF j, rc, L, k
<1>5. ASSUME NEW h \in 0 .. L, h < k, v <= h * B
      PROVE  v <= k * B /\ v + rc <= k * B /\ v + rc < Huge
  <2> DEFINE a == h * B
             b == k * B
  <2>1. h + 1 <= k
    BY <1>2, <1>3, <1>5
  <2>2. a \in Int /\ b \in Int /\ a <= b /\ a + B <= b /\ b < Huge
    BY <1>2, <1>3, <2>1, BoundGrows
  <2>3. v <= a
    BY <1>5
  <2> HIDE DEF a, b
  <2>4. v <= b /\ v + rc <= b /\ v + rc < Huge
    BY <1>1, <1>2, <2>2, <2>3
  <2> QED BY <2>4 DEF b
<1>6. v <= Depth(I, D.lo[n]) * B => v <= k * B
  BY <1>3, <1>5
<1>7. v < Huge /\ v <= Depth(I, D.hi[n]) * B => Plus(v, rc) = v + rc /\ v + rc < Huge /\ v + rc <= k * B
  <2>1. v < Huge => v # Huge
    BY <1>2
  <2> QED BY <1>3, <1>4, <1>5, <2>1
<1> QED BY <1>6, <1>7 DEF k, rc

LEMMA EndingLow ==
  ASSUME NEW I, IsInstance(I), NEW D, IsDiagram(I, D), NEW B, IsCeiling(I, B),
         NEW pi \in [DOMAIN I.jobs -> DualValues], IsDuals(I, pi), NEW s,
         NEW n \in Nodes(D), NEW l \in Ending(I, D, pi, s, B, D.lo[n])
  PROVE  l \in Ending(I, D, pi, s, B, n)
<1>1. /\ l \in Labels /\ l.f \in Int /\ l.f < Huge /\ l.f <= Depth(I, D.lo[n]) * B
      /\ l.seq \in PathsBelow(I, D)[D.lo[n]] /\ TellsFirst(l) /\ (Cyclic(s) => RepeatsNone(l.seq))
      /\ \A p \in Sequences(I) : \A i \in 0 .. Len(p) : IsTail(I, D, pi, l, D.lo[n], p, i)
  BY LabelFacts DEF Ending
<1>2. l.f <= Depth(I, n) * B
  BY <1>1, DepthBound
<1>3. l.seq \in PathsBelow(I, D)[n]
  BY <1>1, PathsFacts
<1>4. ASSUME NEW p \in Sequences(I), NEW i \in 0 .. Len(p) PROVE IsTail(I, D, pi, l, n, p, i)
  <2>1. <<n, i>> \in OnTime(I, D, p) => <<D.lo[n], i>> \in OnTime(I, D, p)
    BY PathIsOnTime
  <2> QED BY <1>1, <2>1 DEF IsTail
<1> QED BY <1>1, <1>2, <1>3, <1>4 DEF Ending

LEMMA EndingHigh ==
  ASSUME NEW I, IsInstance(I), NEW D, IsDiagram(I, D), NEW B, IsCeiling(I, B),
         NEW pi \in [DOMAIN I.jobs -> DualValues], IsDuals(I, pi), NEW s,
         NEW n \in Nodes(D), NEW l \in Ending(I, D, pi, s, B, D.hi[n]), Cyclic(s) => l.job # JobAt(I, n)
  PROVE  Prepend(l, JobAt(I, n), ReducedCost(I, pi, n)) \in Ending(I, D, pi, s, B, n)
<1> DEFINE x == D.hi[n]
           j == JobAt(I, n)
           rc == ReducedCost(I, pi, n)
           e == Prepend(l, j, rc)
           T == DOMAIN I.jobs
<1>1. /\ l \in Labels /\ l.f \in Int /\ l.f < Huge /\ l.f <= Depth(I, x) * B
      /\ l.seq \in PathsBelow(I, D)[x] /\ TellsFirst(l) /\ (Cyclic(s) => RepeatsNone(l.seq))
      /\ \A p \in Sequences(I) : \A i \in 0 .. Len(p) : IsTail(I, D, pi, l, x, p, i)
  BY LabelFacts DEF Ending
<1>2. Plus(l.f, rc) = l.f + rc /\ l.f + rc < Huge /\ l.f + rc <= Depth(I, n) * B
  BY <1>1, DepthBound
<1>3. j \in T /\ j \in Nat /\ j # 0 /\ rc \in Int /\ x \in Vertices(D)
  <2>1. j \in T /\ T = 1 .. Len(I.jobs) /\ Len(I.jobs) \in Nat /\ x \in Vertices(D)
    BY NodeFacts, InstanceFacts
  <2>2. j \in Nat /\ j # 0
    BY <2>1
  <2> QED BY <2>1, <2>2, ReducedCostType
<1>4. e.seq = <<j>> \o l.seq /\ e.f = l.f + rc /\ e.job = j /\ e \in Labels
  <2> HIDE DEF j, rc
  <2>1. e.seq = <<j>> \o l.seq /\ e.f = l.f + rc /\ e.job = j
    BY <1>2 DEF Prepend
  <2> QED BY <1>1, <1>3, <2>1, ExtendFacts
<1>5. e.seq \in PathsBelow(I, D)[n]
  <2>1. PathsBelow(I, D)[n] = PathsBelow(I, D)[D.lo[n]] \cup Headed(JobAt(I, n), PathsBelow(I, D)[D.hi[n]])
    BY PathsFacts
  <2>2. <<j>> \o l.seq \in Headed(j, PathsBelow(I, D)[x])
    BY <1>1 DEF Headed
  <2> QED BY <1>4, <2>1, <2>2
<1>6. l.seq \in Seq(T)
  BY <1>1, <1>3, PathsFacts DEF Sequences
<1> HIDE DEF x, j, rc, e, T
<1>7. /\ Len(l.seq) \in Nat /\ Len(e.seq) = Len(l.seq) + 1
      /\ e.seq[1] = j /\ \A i \in 1 .. Len(l.seq) : e.seq[i + 1] = l.seq[i]
  <2> DEFINE q == l.seq
             h == <<j>> \o q
  <2>0. q \in Seq(T)
    BY <1>6
  <2> HIDE DEF q
  <2>1. Len(q) \in Nat /\ Len(h) = Len(q) + 1 /\ h[1] = j /\ \A i \in 1 .. Len(q) : h[i + 1] = q[i]
    BY <1>3, <2>0, HeadedSequence, SequenceFacts
  <2>2. e.seq = h
    BY <1>4 DEF q
  <2> HIDE DEF h
  <2>3. Len(q) \in Nat /\ Len(e.seq) = Len(q) + 1 /\ e.seq[1] = j /\ \A i \in 1 .. Len(q) : e.seq[i + 1] = q[i]
    BY <2>1, <2>2
  <2> QED BY <2>3 DEF q
<1>8. TellsFirst(e)
  <2>1. e.seq # <<>>
    <3>1. Len(e.seq) # 0
      BY <1>7
    <3> QED BY <3>1
  <2> QED BY <1>3, <1>4, <1>7, <2>1 DEF TellsFirst
<1>9. Cyclic(s) => RepeatsNone(e.seq)
  <2> SUFFICES ASSUME Cyclic(s), NEW i \in 2 .. Len(e.seq) PROVE e.seq[i] # e.seq[i - 1]
    BY DEF RepeatsNone
  <2>1. i - 1 \in 1 .. Len(l.seq) /\ (i - 1) + 1 = i
    BY <1>7
  <2>2. e.seq[i] = l.seq[i - 1]
    BY <1>7, <2>1
  <2>3. CASE i = 2
    <3>1. l.seq # <<>>
      <4>1. Len(l.seq) # 0
        BY <2>1
      <4> QED BY <4>1
    <3>2. l.job = l.seq[1]
      BY <1>1, <3>1 DEF TellsFirst
    <3>3. i - 1 = 1
      BY <2>3
    <3> QED BY <1>7, <2>2, <3>2, <3>3 DEF j
  <2>4. CASE i # 2
    <3>1. i - 2 \in 1 .. Len(l.seq) /\ (i - 2) + 1 = i - 1 /\ i - 1 \in 2 .. Len(l.seq) /\ (i - 1) - 1 = i - 2
      BY <1>7, <2>1, <2>4
    <3>2. e.seq[i - 1] = l.seq[i - 2]
      <4>1. e.seq[(i - 2) + 1] = l.seq[i - 2]
        BY <1>7, <3>1
      <4> QED BY <3>1, <4>1
    <3>3. l.seq[i - 1] # l.seq[(i - 1) - 1]
      BY <1>1, <3>1 DEF RepeatsNone
    <3> QED BY <2>2, <3>1, <3>2, <3>3
  <2> QED BY <2>3, <2>4
<1>10. ASSUME NEW p \in Sequences(I), NEW i \in 0 .. Len(p) PROVE IsTail(I, D, pi, e, n, p, i)
  <2> SUFFICES ASSUME Rest(p, i) = e.seq, <<n, i>> \in OnTime(I, D, p), NEW V, IsValue(I, pi, p, V)
               PROVE  e.f = V[Len(p)] - V[i]
    BY DEF IsTail
  <2>0. p \in Seq(T) /\ Len(p) \in Nat
    BY SequenceFacts DEF Sequences, T
  <2>1. i < Len(p) /\ j = p[i + 1] /\ l.seq = Rest(p, i + 1)
    <3> DEFINE q == l.seq
    <3>1. q \in Seq(T) /\ Rest(p, i) = <<j>> \o q
      BY <1>4, <1>6
    <3> HIDE DEF q
    <3>2. i < Len(p) /\ j = p[i + 1] /\ q = Rest(p, i + 1)
      <4>1. q \in Seq(T) /\ p \in Seq(T)
        BY <2>0, <3>1
      <4>2. Rest(p, i) = <<j>> \o q
        BY <3>1
      <4>3. ASSUME NEW a, NEW t \in Seq(T), Rest(p, i) = <<a>> \o t
            PROVE  i < Len(p) /\ a = p[i + 1] /\ t = Rest(p, i + 1)
        BY <4>1, <4>3, RestHeaded
      <4> QED BY <4>1, <4>2, <4>3
    <3> QED BY <3>2 DEF q
  <2>2. i # Len(p) /\ i + 1 \in 0 .. Len(p) /\ Len(p) \in 0 .. Len(p)
    BY <2>0, <2>1
  <2>3. p[i + 1] = JobAt(I, n)
    BY <2>1 DEF j
  <2>4. <<x, i + 1>> \in OnTime(I, D, p)
    BY <2>2, <2>3, PathIsOnTime DEF x
  <2>5. IsTail(I, D, pi, l, x, p, i + 1)
    BY <1>1, <2>2
  <2>6. l.f = V[Len(p)] - V[i + 1]
    BY <2>1, <2>4, <2>5 DEF IsTail
  <2>7. V[i + 1] = V[i] + ReducedCost(I, pi, n) /\ V[i] \in Int /\ V[i + 1] \in Int
    BY <2>2, <2>3, ArcValue
  <2>8. V[Len(p)] \in Int
    BY <2>2 DEF IsValue
  <2> DEFINE a == V[Len(p)]
             b == V[i]
             c == V[i + 1]
  <2>9. e.f = (a - c) + rc /\ c = b + rc /\ a \in Int /\ b \in Int /\ c \in Int
    BY <1>4, <2>6, <2>7, <2>8 DEF rc
  <2> HIDE DEF a, b, c
  <2>10. e.f = a - b
    BY <1>3, <2>9
  <2> QED BY <2>10 DEF a, b
<1>11. e.f < Huge /\ e.f <= Depth(I, n) * B
  BY <1>2, <1>4
<1> QED BY <1>4, <1>5, <1>8, <1>9, <1>10, <1>11 DEF Ending, e, j, rc

\* The labels of a node from those of its children.
LEMMA BackwardLabelReal ==
  ASSUME NEW I, IsInstance(I), NEW D, IsDiagram(I, D), NEW B, IsCeiling(I, B),
         NEW pi \in [DOMAIN I.jobs -> DualValues], IsDuals(I, pi), NEW s, NEW n \in Nodes(D),
         NEW low \in Pairs, RealIn(low, Ending(I, D, pi, s, B, D.lo[n])), Apart(low),
         NEW high \in Pairs, RealIn(high, Ending(I, D, pi, s, B, D.hi[n])), Apart(high)
  PROVE  /\ RealIn(BackwardLabel(I, pi, s, n, low, high), Ending(I, D, pi, s, B, n))
         /\ Apart(BackwardLabel(I, pi, s, n, low, high))
<1> DEFINE j == JobAt(I, n)
           rc == ReducedCost(I, pi, n)
           S == Ending(I, D, pi, s, B, n)
           used == IF Cyclic(s) THEN Usable(high, j) ELSE high[1]
           h == Prepend(used, j, rc)
<1>1. Below(S) /\ j \in Nat /\ rc \in Int
  <2>1. j \in DOMAIN I.jobs /\ DOMAIN I.jobs = 1 .. Len(I.jobs) /\ Len(I.jobs) \in Nat
    BY NodeFacts, InstanceFacts
  <2>2. j \in Nat
    BY <2>1
  <2>3. Below(S)
    BY DEF Below, Ending
  <2> QED BY <2>2, <2>3, ReducedCostType
<1>2. RealIn(low, S)
  BY EndingLow DEF RealIn
<1>3. used \in Labels /\ h \in Labels /\ h.job = j /\ h.f = Plus(used.f, rc)
  <2>1. used \in Labels
    BY UsableServes, PairFacts
  <2> HIDE DEF used, j, rc
  <2> QED BY <1>1, <2>1, ExtendFacts
<1>4. \/ used.f = Huge
      \/ used \in Ending(I, D, pi, s, B, D.hi[n]) /\ (Cyclic(s) => used.job # j)
  <2>1. CASE Cyclic(s)
    BY <2>1, UsableReal
  <2>2. CASE ~Cyclic(s)
    BY <2>2 DEF RealIn
  <2> QED BY <2>1, <2>2
<1>5. h.f = Huge \/ h \in S
  <2>1. used.f = Huge => h.f = Huge
    <3> HIDE DEF h, used, rc
    <3> QED BY <1>3 DEF Plus
  <2> HIDE DEF used
  <2> QED BY <1>4, <2>1, EndingHigh
<1>6. CASE Cyclic(s)
  <2>1. BackwardLabel(I, pi, s, n, low, high) = JoinHigh(low, h, j)
    BY <1>6 DEF BackwardLabel, CycleLabel
  <2> HIDE DEF h, j, S
  <2> QED BY <1>1, <1>2, <1>3, <1>5, <2>1, JoinHighReal DEF S
<1>7. CASE ~Cyclic(s)
  <2> DEFINE l == low[1]
             Q == BackwardLabel(I, pi, s, n, low, high)
  <2>1. Q = <<IF l.f > h.f THEN h ELSE l, NoLabel>>
    BY <1>7 DEF BackwardLabel, SimpleLabel
  <2>2. Q[1] \in {h, l} /\ Q[2] = NoLabel /\ NoLabel.f = Huge
    <3> HIDE DEF Q, h, l
    <3> QED BY <2>1 DEF NoLabel
  <2>3. l.f = Huge \/ l \in S
    BY <1>2 DEF RealIn
  <2> HIDE DEF Q, h, l, S
  <2>4. RealIn(Q, S) /\ Apart(Q)
    BY <1>5, <2>2, <2>3 DEF RealIn, Apart
  <2> QED BY <2>4 DEF Q, S
<1> QED BY <1>6, <1>7

\* The labels of the backward recursions are those of paths, and worth what these are.
LEMMA BackwardEnding ==
  ASSUME NEW I, IsInstance(I), NEW D, IsDiagram(I, D), NEW B, IsCeiling(I, B),
         NEW pi \in [DOMAIN I.jobs -> DualValues], IsDuals(I, pi), NEW s
  PROVE  \A x \in Vertices(D) : RealIn(Backward(I, D, pi, s)[x], Ending(I, D, pi, s, B, x))
<1> DEFINE bw == Backward(I, D, pi, s)
           F == {x \in Vertices(D) : RealIn(bw[x], Ending(I, D, pi, s, B, x)) /\ Apart(bw[x])}
<1>1. IsLabelling(D, bw) /\ IsBackward(I, D, pi, s, bw)
  BY BackwardFacts
<1> HIDE DEF bw
<1>2. One \in F
  <2>1. bw[One] = <<Start, NoLabel>> /\ NoLabel.f = Huge
    BY <1>1 DEF IsBackward, BaseLabel, NoLabel
  <2>2. Start \in Ending(I, D, pi, s, B, One)
    BY EndingBase
  <2> QED BY <2>1, <2>2 DEF RealIn, Apart, Vertices
<1>3. ASSUME NEW n \in Nodes(D), D.lo[n] \in F, D.hi[n] \in F PROVE n \in F
  <2> DEFINE low == bw[D.lo[n]]
             high == bw[D.hi[n]]
  <2>1. /\ RealIn(low, Ending(I, D, pi, s, B, D.lo[n])) /\ Apart(low)
        /\ RealIn(high, Ending(I, D, pi, s, B, D.hi[n])) /\ Apart(high)
    BY <1>3
  <2>2. low \in Pairs /\ high \in Pairs /\ n \in Vertices(D)
    BY <1>1, <1>3, LabellingFacts DEF Vertices
  <2>3. bw[n] = BackwardLabel(I, pi, s, n, low, high)
    BY <1>1 DEF IsBackward
  <2> HIDE DEF low, high
  <2>4. RealIn(bw[n], Ending(I, D, pi, s, B, n)) /\ Apart(bw[n])
    BY <2>1, <2>2, <2>3, BackwardLabelReal
  <2> QED BY <2>2, <2>4
<1>4. \A x \in Vertices(D) : x \in F
  <2> HIDE DEF F
  <2> QED BY <1>2, <1>3, DiagramInduction
<1> QED BY <1>4 DEF bw

--------------------------------------------------------------------------------
(* What the column priced is worth. *)

DualSum(pi, p) == FoldLeft(LAMBDA c, j : c + pi[j], 0, p)
Worth(I, pi, p) == SequenceCost(I.jobs, p) - DualSum(pi, p)

\* The duals are added up along the path.
LEMMA DualSumIsPass ==
  ASSUME NEW I, IsInstance(I), NEW pi, IsDuals(I, pi), NEW p \in Sequences(I)
  PROVE  \E h : /\ h[0] = 0 /\ \A i \in 0 .. Len(p) : h[i] \in Int
                /\ \A i \in 1 .. Len(p) : h[i] = h[i - 1] + pi[p[i]]
                /\ DualSum(pi, p) = h[Len(p)]
<1> DEFINE n == Len(p)
           V == Int
           z == 0
           g == [i \in 1 .. n |-> [r \in V |-> r + pi[p[i]]]]
           IsIter(f) == f = [T \in SUBSET (1 .. n) |-> IF T = {} THEN 0 ELSE f[T \ {Max(T)}] + pi[p[Max(T)]]]
           iter == CHOOSE f : IsIter(f)
<1>1. n \in Nat /\ DOMAIN p = 1 .. n /\ \A i \in 1 .. n : pi[p[i]] \in Int
  BY SequenceFacts DEF Sequences, IsDuals
<1>2. g \in [1 .. n -> [V -> V]] /\ z \in V
  BY <1>1
<1>3. PICK f \in [SUBSET (1 .. n) -> V] : IsPass(f, n, z, g)
  <2> HIDE DEF g, V, n, z
  <2> QED BY <1>1, <1>2, PassIsDefined
<1>4. ASSUME NEW T \in SUBSET (1 .. n), T # {} PROVE Max(T) \in 1 .. n /\ T \ {Max(T)} \in SUBSET (1 .. n)
  <2>1. Max(T) \in T
    BY <1>1, <1>4, LastOfPart
  <2> QED BY <2>1
<1>5. ASSUME NEW T \in SUBSET (1 .. n)
      PROVE f[T] = IF T = {} THEN 0 ELSE f[T \ {Max(T)}] + pi[p[Max(T)]]
  <2>1. f[T] = IF T = {} THEN z ELSE g[Max(T)][f[T \ {Max(T)}]]
    BY <1>3 DEF IsPass
  <2>2. ASSUME T # {}
        PROVE  g[Max(T)][f[T \ {Max(T)}]] = f[T \ {Max(T)}] + pi[p[Max(T)]]
    <3>1. Max(T) \in 1 .. n /\ f[T \ {Max(T)}] \in V
      BY <1>3, <1>4, <2>2
    <3> QED BY <3>1
  <2> QED BY <2>1, <2>2, SMTT(30)
<1>6. IsIter(f)
  <2>1. f = [T \in SUBSET (1 .. n) |-> f[T]]
    BY <1>3
  <2> QED BY <2>1, <1>5, Zenon
<1>7. IsIter(iter)
  BY <1>6
<1>8. DualSum(pi, p) = iter[1 .. n]
  BY <1>1 DEF DualSum, FoldLeft, MapThenFoldSet
<1>9. iter[1 .. 0] = 0
  <2>1. 1 .. 0 = {} /\ {} \in SUBSET (1 .. n)
    OBVIOUS
  <2>2. iter[{}] = 0
    BY <1>7, <2>1
  <2> QED BY <2>1, <2>2
<1>10. ASSUME NEW k \in 0 .. n - 1
       PROVE  iter[1 .. k + 1] = iter[1 .. k] + pi[p[k + 1]]
  <2>1. /\ 1 .. k + 1 \in SUBSET (1 .. n) /\ 1 .. k + 1 # {}
        /\ Max(1 .. k + 1) = k + 1 /\ (1 .. k + 1) \ {k + 1} = 1 .. k
    BY <1>1, LastOfInterval
  <2> QED BY <2>1, <1>7, ZenonT(40)
<1> DEFINE h == [i \in 0 .. n |-> iter[1 .. i]]
<1> HIDE DEF iter
<1>11. h[0] = 0 /\ h[n] = iter[1 .. n] /\ \A i \in 1 .. n : h[i] = iter[1 .. i] /\ h[i - 1] = iter[1 .. i - 1]
  BY <1>1, <1>9
<1>12. ASSUME NEW i \in 1 .. n PROVE h[i] = h[i - 1] + pi[p[i]]
  <2> DEFINE k == i - 1
  <2>1. k \in 0 .. n - 1 /\ k + 1 = i
    BY <1>1
  <2>2. iter[1 .. i] = iter[1 .. i - 1] + pi[p[i]]
    <3> HIDE DEF k
    <3>1. iter[1 .. k + 1] = iter[1 .. k] + pi[p[k + 1]]
      BY <1>10, <2>1
    <3> QED BY <2>1, <3>1 DEF k
  <2> QED BY <1>11, <2>2
<1> HIDE DEF h
<1> DEFINE F == {i \in 0 .. n : h[i] \in Int}
<1>13. 0 \in F
  BY <1>1, <1>11
<1>14. ASSUME NEW i \in 1 .. n, i - 1 \in F PROVE i \in F
  <2>1. i \in 0 .. n /\ h[i - 1] \in Int
    BY <1>1, <1>14
  <2> QED BY <1>1, <1>12, <2>1
<1>15. \A i \in 0 .. n : i \in F
  <2> HIDE DEF F, n
  <2> QED BY <1>1, <1>13, <1>14, IntervalInduction
<1> QED BY <1>8, <1>11, <1>12, <1>15

\* Any values along the path end with its worth.
LEMMA WorthFacts ==
  ASSUME NEW I, IsInstance(I), NEW pi, IsDuals(I, pi), NEW p \in Sequences(I)
  PROVE  /\ \E V : IsValue(I, pi, p, V)
         /\ \A V : IsValue(I, pi, p, V) => V[Len(p)] = Worth(I, pi, p)
<1> DEFINE n == Len(p)
<1>0. n \in Nat /\ \A i \in 1 .. n : pi[p[i]] \in Int
  BY SequenceFacts DEF Sequences, IsDuals
<1>1. PICK C : IsCostUpTo(I, p, C) /\ SequenceCost(I.jobs, p) = C[n]
  BY CostFacts
<1>2. PICK h : /\ h[0] = 0 /\ \A i \in 0 .. n : h[i] \in Int
               /\ \A i \in 1 .. n : h[i] = h[i - 1] + pi[p[i]]
               /\ DualSum(pi, p) = h[n]
  BY DualSumIsPass
<1> DEFINE W == [i \in 0 .. n |-> C[i] - h[i]]
<1>3. /\ C[0] = 0 /\ \A i \in 0 .. n : C[i] \in Int /\ h[i] \in Int
      /\ \A i \in 1 .. n : C[i] = C[i - 1] + CostAt(I, p, i)
  BY <1>1, <1>2 DEF IsCostUpTo
<1>4. 0 \in 0 .. n /\ n \in 0 .. n /\ \A i \in 1 .. n : i \in 0 .. n /\ i - 1 \in 0 .. n
  BY <1>0
<1>5. IsValue(I, pi, p, W)
  <2>1. W \in [0 .. n -> Int] /\ W[0] = 0
    BY <1>2, <1>3, <1>4
  <2>2. ASSUME NEW i \in 1 .. n PROVE W[i] = W[i - 1] + (CostAt(I, p, i) - pi[p[i]])
    <3>1. W[i] = C[i] - h[i] /\ W[i - 1] = C[i - 1] - h[i - 1]
      BY <1>4
    <3>2. CostAt(I, p, i) \in Int /\ pi[p[i]] \in Int /\ C[i - 1] \in Int /\ h[i - 1] \in Int
      BY <1>0, <1>3, <1>4, CostType
    <3>3. \A a, b, d, e \in Int : (a + d) - (b + e) = (a - b) + (d - e)
      OBVIOUS
    <3> HIDE DEF W
    <3>4. C[i] = C[i - 1] + CostAt(I, p, i) /\ h[i] = h[i - 1] + pi[p[i]]
      BY <1>2, <1>3
    <3>5. W[i] = (C[i - 1] + CostAt(I, p, i)) - (h[i - 1] + pi[p[i]])
      BY <3>1, <3>4
    <3> QED BY <3>1, <3>2, <3>3, <3>5
  <2> HIDE DEF W
  <2> QED BY <2>1, <2>2 DEF IsValue
<1>6. W[n] = Worth(I, pi, p)
  BY <1>1, <1>2, <1>4 DEF Worth
<1> HIDE DEF W
<1>7. ASSUME NEW V, IsValue(I, pi, p, V) PROVE V[n] = W[n]
  <2> DEFINE F == {i \in 0 .. n : V[i] = W[i]}
  <2>1. 0 \in F
    BY <1>4, <1>5, <1>7 DEF IsValue
  <2>2. ASSUME NEW i \in 1 .. n, i - 1 \in F PROVE i \in F
    BY <1>4, <1>5, <1>7, <2>2 DEF IsValue
  <2>3. \A i \in 0 .. n : i \in F
    <3> HIDE DEF F, n
    <3> QED BY <1>0, <2>1, <2>2, IntervalInduction
  <2> QED BY <1>4, <2>3
<1> QED BY <1>5, <1>6, <1>7

\* The column priced is a path worth what its label says, that no path of a machine is
\* better than.
IsBestPath(I, D, pi, s, l) ==
  /\ l.seq \in PathsOf(I, D) /\ l.f = Worth(I, pi, l.seq)
  /\ \A p \in PathsOf(I, D) : IsElementary(p) => l.f <= Worth(I, pi, p)
  /\ Cyclic(s) => RepeatsNone(l.seq)

LEMMA PricedIsPath ==
  ASSUME NEW I \in Instances, NEW D, IsDiagram(I, D), Skips(I, D), D.root # One,
         NEW pi \in [DOMAIN I.jobs -> DualValues], NEW s,
         NEW old, IsStored(D, old), s \in {"simple", "cycle"} => IsClean(D, old)
  PROVE  IsBestPath(I, D, pi, s, Priced(I, D, pi, s, old))
<1> DEFINE fw == Forward(I, D, pi, s, old)
           bw == Backward(I, D, pi, s)
           l == Priced(I, D, pi, s, old)
<1>1. IsInstance(I) /\ IsDuals(I, pi) /\ IsTame(I, pi)
  BY DiagramAssumption, DualsAreTame
<1>2. IsLabelling(D, fw) /\ IsLabelled(I, D, pi, s, fw, Nodes(D)) /\ IsLabelling(D, bw)
  BY <1>1, ForwardFacts, BackwardFacts
<1>3. IsPriced(I, D, pi, s, fw)
  BY <1>1, <1>2 DEF IsPriced
<1>4. PICK B \in 0 .. Huge :
        /\ Len(I.layers) * B < Huge
        /\ \A j \in DOMAIN I.jobs, t \in 0 .. Horizon(I), v \in DualValues :
             WeightedTardinessStart(I.jobs[j], t) - v <= B
  BY HugeAssumption
<1>5. IsCeiling(I, B)
  BY <1>4 DEF IsCeiling
<1>6. ASSUME NEW p \in PathsOf(I, D), IsElementary(p)
      PROVE  /\ p \in Sequences(I) /\ Value(I, pi, p) = Worth(I, pi, p) /\ Value(I, pi, p) \in Int
             /\ Value(I, pi, p) < Huge
  <2>1. p \in Sequences(I) /\ Value(I, pi, p) \in Int
    BY <1>1, <1>6, PathValue
  <2>2. PICK V : IsValue(I, pi, p, V) /\ V[Len(p)] = Value(I, pi, p) /\ IsSmall(p, V)
    BY <1>1, <1>6, PathValue
  <2>3. Len(p) \in 0 .. Len(p)
    <3>1. Len(p) \in Nat
      BY <2>1, SequenceFacts DEF Sequences
    <3> QED BY <3>1
  <2>4. V[Len(p)] < Huge
    BY <2>2, <2>3 DEF IsSmall
  <2>5. V[Len(p)] = Worth(I, pi, p)
    BY <1>1, <2>1, <2>2, WorthFacts
  <2> QED BY <2>1, <2>2, <2>4, <2>5
<1>7. l = fw[One][1] \/ l = bw[D.root][1]
  BY DEF Priced
<1>8. s \in {"simple", "cycle"} => l = fw[One][1]
  BY DEF Priced
<1>9. s \notin {"simple", "cycle"} => l = bw[D.root][1]
  BY DEF Priced
<1> HIDE DEF l
<1>10. ASSUME NEW p \in PathsOf(I, D), IsElementary(p) PROVE l.f \in Int /\ l.f <= Value(I, pi, p)
  <2>1. fw[One][1].f \in Int /\ fw[One][1].f <= Value(I, pi, p) /\ bw[D.root][1].f \in Int /\ bw[D.root][1].f <= Value(I, pi, p)
    <3> HIDE DEF fw
    <3> QED BY <1>1, <1>3, <1>10, LabelsAreLeast
  <2> QED BY <1>7, <2>1
<1>11. l.f # Huge
  <2>1. <<>> \in PathsOf(I, D) /\ IsElementary(<<>>)
    <3>1. JobsOf(<<>>) = {} /\ Len(<<>>) = 0
      BY DEF JobsOf
    <3>2. Cardinality({}) = 0
      BY FS_EmptySet
    <3> QED BY <1>1, <3>1, <3>2, EmptyIsPath DEF IsElementary
  <2> QED BY <1>6, <1>10, <2>1, HugeType
<1>12. One \in Vertices(D) /\ D.root \in Vertices(D)
  BY DEF Vertices, IsDiagram
<1>13. /\ l.seq \in PathsOf(I, D) /\ l.f = Worth(I, pi, l.seq)
       /\ Cyclic(s) => RepeatsNone(l.seq)
  <2>1. CASE s \in {"simple", "cycle"}
    <3>1. RealIn(fw[One], Partial(I, D, pi, s, B, One))
      <4>1. \A x \in Vertices(D) : RealIn(fw[x], Partial(I, D, pi, s, B, x))
        BY <1>1, <1>5, <2>1, ForwardPartial
      <4> QED BY <1>12, <4>1
    <3>2. l \in Partial(I, D, pi, s, B, One)
      BY <1>8, <1>11, <2>1, <3>1 DEF RealIn
    <3> DEFINE q == l.seq
    <3>3. q \in Sequences(I) /\ (Cyclic(s) => RepeatsNone(q))
          /\ \A r \in PathsBelow(I, D)[One] : IsPart(I, D, pi, l, One, q \o r)
      BY <3>2 DEF Partial
    <3>4. <<>> \in PathsBelow(I, D)[One]
      BY <1>1, PathsFacts
    <3>5. q \o <<>> = q
      <4> HIDE DEF q
      <4> QED BY <3>3 DEF Sequences
    <3>6. IsPart(I, D, pi, l, One, q)
      <4>1. IsPart(I, D, pi, l, One, q \o <<>>)
        BY <3>3, <3>4
      <4> HIDE DEF q
      <4> QED BY <3>5, <4>1
    <3>7. q \in PathsOf(I, D) /\ \A V : IsValue(I, pi, q, V) => l.f = V[Len(q)]
      BY <3>6 DEF IsPart
    <3>8. l.f = Worth(I, pi, q)
      <4> HIDE DEF q
      <4>1. PICK V : IsValue(I, pi, q, V)
        BY <1>1, <3>3, WorthFacts
      <4>2. V[Len(q)] = Worth(I, pi, q)
        BY <1>1, <3>3, <4>1, WorthFacts
      <4> QED BY <3>7, <4>1, <4>2
    <3> QED BY <3>3, <3>7, <3>8
  <2>2. CASE s \notin {"simple", "cycle"}
    <3>1. RealIn(bw[D.root], Ending(I, D, pi, s, B, D.root))
      <4>1. \A x \in Vertices(D) : RealIn(bw[x], Ending(I, D, pi, s, B, x))
        BY <1>1, <1>5, BackwardEnding
      <4> QED BY <1>12, <4>1
    <3>2. l \in Ending(I, D, pi, s, B, D.root)
      BY <1>9, <1>11, <2>2, <3>1 DEF RealIn
    <3> DEFINE q == l.seq
    <3>3. /\ q \in PathsBelow(I, D)[D.root] /\ (Cyclic(s) => RepeatsNone(q))
          /\ \A p \in Sequences(I) : \A i \in 0 .. Len(p) : IsTail(I, D, pi, l, D.root, p, i)
      BY <3>2 DEF Ending
    <3>4. q \in PathsOf(I, D) /\ q \in Sequences(I)
      <4>1. q \in PathsOf(I, D)
        BY <3>3 DEF PathsOf
      <4> HIDE DEF q
      <4> QED BY <1>1, <4>1, PathIsShort
    <3>5. 0 \in 0 .. Len(q) /\ Len(q) \in 0 .. Len(q) /\ Rest(q, 0) = q
      <4> HIDE DEF q
      <4>1. Len(q) \in Nat /\ Rest(q, 0) = q
        BY <3>4, SequenceFacts, RestFacts DEF Sequences
      <4> QED BY <4>1
    <3>6. <<D.root, 0>> \in OnTime(I, D, q)
      <4> HIDE DEF q
      <4> QED BY <1>1, <3>4, PathIsOnTime
    <3>7. \A V : IsValue(I, pi, q, V) => l.f = V[Len(q)] - V[0]
      <4>1. IsTail(I, D, pi, l, D.root, q, 0)
        BY <3>3, <3>4, <3>5
      <4> QED BY <3>5, <3>6, <4>1 DEF IsTail
    <3>8. l.f = Worth(I, pi, q)
      <4> HIDE DEF q
      <4>1. PICK V : IsValue(I, pi, q, V)
        BY <1>1, <3>4, WorthFacts
      <4>2. V[Len(q)] = Worth(I, pi, q)
        BY <1>1, <3>4, <4>1, WorthFacts
      <4>3. V[0] = 0 /\ V[Len(q)] \in Int
        BY <3>5, <4>1 DEF IsValue
      <4> QED BY <3>7, <4>1, <4>2, <4>3
    <3> QED BY <3>3, <3>4, <3>8
  <2> QED BY <2>1, <2>2
<1>14. \A p \in PathsOf(I, D) : IsElementary(p) => l.f <= Worth(I, pi, p)
  BY <1>6, <1>10
<1> QED BY <1>13, <1>14 DEF IsBestPath, l

--------------------------------------------------------------------------------
(* The invariant: the labels that are stored are comparable, so those priced are best. *)

LabelsFit == \A B : IsCeiling(inst, B) => IsBoundedBy(inst, Nodes(dd), B, labels)

BestInv ==
  /\ PricingInv /\ LabelsFit
  /\ sol # None /\ ~Stale => IsBestPath(inst, dd, sol.pi, solver, sol)

\* Labels that are not stale are of no path, the second ones too.
LEMMA FreshIsClean ==
  ASSUME PricingInv, LabelsFit, ~Stale, solver \in {"simple", "cycle"}
  PROVE  IsClean(dd, labels)
<1>1. PICK B : IsCeiling(inst, B)
  <2>1. PICK B \in 0 .. Huge :
          /\ Len(inst.layers) * B < Huge
          /\ \A j \in DOMAIN inst.jobs, t \in 0 .. Horizon(inst), v \in DualValues :
               WeightedTardinessStart(inst.jobs[j], t) - v <= B
    BY HugeAssumption DEF PricingInv, DiagramInv
  <2> QED BY <2>1 DEF IsCeiling
<1>2. \A n \in Nodes(dd) : RealIn(labels[n], Bounded(inst, B, n))
  BY <1>1 DEF LabelsFit, IsBoundedBy
<1>3. \A n \in Rowmates(dd) : n \in Nodes(dd) /\ labels[n][1].f = Huge
  BY DEF Stale, Rowmates
<1> QED BY <1>2, <1>3 DEF IsClean, RealIn

LEMMA BestPrice ==
  ASSUME BestInv, PricingInv', Price
  PROVE  BestInv'
<1>1. PricingInv /\ LabelsFit
  BY DEF BestInv
<1>2. /\ dd.root # One /\ inst' = inst /\ solver' = solver /\ dd' = dd /\ labels' = labels
  BY DEF Price
<1>3. PICK pi \in [DOMAIN inst.jobs -> DualValues] :
        sol' = [pi |-> pi, f |-> Priced(inst, dd, pi, solver, labels).f,
                seq |-> Priced(inst, dd, pi, solver, labels).seq]
  BY DEF Price
<1>4. inst \in Instances /\ IsInstance(inst) /\ IsDiagram(inst, dd) /\ Skips(inst, dd) /\ IsStored(dd, labels)
  BY <1>1, DiagramAssumption DEF PricingInv, DiagramInv
<1>5. LabelsFit'
  BY <1>1, <1>2 DEF LabelsFit
<1>6. Stale' <=> Stale
  BY <1>2 DEF Stale
<1>7. ASSUME ~Stale PROVE IsBestPath(inst, dd, sol'.pi, solver, sol')
  <2>1. solver \in {"simple", "cycle"} => IsClean(dd, labels)
    BY <1>1, <1>7, FreshIsClean
  <2> DEFINE l == Priced(inst, dd, pi, solver, labels)
  <2>2. IsBestPath(inst, dd, pi, solver, l)
    BY <1>2, <1>4, <2>1, PricedIsPath
  <2>3. sol'.pi = pi /\ sol'.f = l.f /\ sol'.seq = l.seq
    BY <1>3
  <2> HIDE DEF l
  <2> QED BY <2>2, <2>3 DEF IsBestPath
<1>8. sol' # None /\ ~Stale' => IsBestPath(inst', dd', sol'.pi, solver', sol')
  BY <1>2, <1>6, <1>7
<1> QED BY <1>5, <1>8 DEF BestInv

\* Labels of nodes that stay still fit.
LEMMA FitStays ==
  ASSUME NEW I, NEW B, NEW f, NEW M, IsBoundedBy(I, M, B, f), NEW N, N \subseteq M
  PROVE  IsBoundedBy(I, N, B, Restrict(f, N))
BY DEF IsBoundedBy, Restrict

LEMMA BestFix ==
  ASSUME BestInv, PricingInv', Fix
  PROVE  BestInv'
<1>1. PricingInv /\ LabelsFit
  BY DEF BestInv
<1> DEFINE fw == Forward(inst, dd, sol.pi, solver, labels)
           S == Fixable(inst, dd, sol.pi, UB, solver, fw)
<1>2. /\ sol # None /\ sol' = None /\ dd' = RemoveArcs(inst, dd, S) /\ labels' = Restrict(fw, Nodes(dd'))
      /\ inst' = inst
  BY DEF Fix
<1>3. /\ inst \in Instances /\ IsInstance(inst) /\ IsDiagram(inst, dd) /\ Skips(inst, dd) /\ IsStored(dd, labels)
      /\ sol.pi \in [DOMAIN inst.jobs -> DualValues]
  BY <1>1, <1>2, DiagramAssumption DEF PricingInv, DiagramInv
<1>4. IsDuals(inst, sol.pi)
  BY <1>3, DualsAreTame
<1>5. S \subseteq Nodes(dd)
  BY FixableFacts
<1>6. Nodes(dd') \subseteq Vertices(dd)
  <2> HIDE DEF S
  <2>1. Nodes(dd') \subseteq Nodes(dd)
    BY <1>2, <1>3, <1>5, RemoveArcsKeeps
  <2> QED BY <2>1 DEF Vertices
<1>7. ASSUME NEW B, IsCeiling(inst, B) PROVE IsBoundedBy(inst, Nodes(dd'), B, labels')
  <2>1. IsBoundedBy(inst, Nodes(dd), B, labels)
    BY <1>1, <1>7 DEF LabelsFit
  <2>2. IsBoundedBy(inst, Vertices(dd), B, fw)
    BY <1>3, <1>4, <1>7, <2>1, ForwardBounded
  <2> HIDE DEF fw
  <2>3. IsBoundedBy(inst, Nodes(dd'), B, Restrict(fw, Nodes(dd')))
    BY <1>6, <2>2, FitStays
  <2> QED BY <1>2, <2>3
<1>8. LabelsFit'
  BY <1>2, <1>7 DEF LabelsFit
<1> QED BY <1>2, <1>8 DEF BestInv

LEMMA BranchNodes ==
  ASSUME PricingInv, Branch
  PROVE  Nodes(dd') \subseteq Nodes(dd)
<1>1. inst \in Instances /\ IsInstance(inst) /\ IsDiagram(inst, dd) /\ Skips(inst, dd)
  BY DiagramAssumption DEF PricingInv, DiagramInv
<1> DEFINE C == Copy(inst, dd)
<1>2. PICK cut : IsCut(cut) /\ dd' = ChildOf(inst, C, cut)
  <2>1. PICK c \in Candidates(inst, dd, lp), left \in BOOLEAN : dd' = Split(inst, C, c[1], c[2], left)
    BY DEF Branch
  <2> DEFINE cut == [job |-> c[1], time |-> c[2], left |-> left]
  <2>2. c[2] \in Int
    BY <1>1, CandidateFacts
  <2>3. IsCut(cut)
    BY <2>2 DEF IsCut
  <2>4. dd' = ChildOf(inst, C, cut)
    BY <2>1 DEF ChildOf
  <2> QED BY <2>3, <2>4
<1>3. Keeps(inst, dd, C)
  BY <1>1, CopyKeeps
<1>4. IsDiagram(inst, C) /\ Nodes(C) \subseteq Nodes(dd)
  BY <1>3 DEF Keeps
<1> HIDE DEF C
<1>5. Nodes(dd') \subseteq Nodes(C)
  BY <1>1, <1>2, <1>4, SplitFacts
<1> QED BY <1>4, <1>5

LEMMA BestBranch ==
  ASSUME BestInv, PricingInv', Branch
  PROVE  BestInv'
<1>1. PricingInv /\ LabelsFit
  BY DEF BestInv
<1>2. inst' = inst /\ sol' = sol /\ sol = None /\ labels' = Restrict(labels, Nodes(dd'))
  BY <1>1 DEF Branch, PricingInv
<1>3. Nodes(dd') \subseteq Nodes(dd)
  BY <1>1, BranchNodes
<1>4. ASSUME NEW B, IsCeiling(inst, B) PROVE IsBoundedBy(inst, Nodes(dd'), B, labels')
  <2>1. IsBoundedBy(inst, Nodes(dd), B, labels)
    BY <1>1, <1>4 DEF LabelsFit
  <2> QED BY <1>2, <1>3, <2>1, FitStays
<1>5. LabelsFit'
  BY <1>2, <1>4 DEF LabelsFit
<1> QED BY <1>2, <1>5 DEF BestInv

\* What pricing rests on: no label, stale or not, comes near Huge, so the best is never
\* passed over for one that stands for no path, and what was priced is best.
THEOREM LabelsAlwaysFit == Spec => []BestInv
<1>1. Init => BestInv
  <2> SUFFICES ASSUME Init PROVE BestInv
    OBVIOUS
  <2>1. sol = None /\ labels = [n \in Nodes(dd) |-> <<NoLabel, NoLabel>>]
    BY DEF Init
  <2>2. LabelsFit
    BY <2>1 DEF LabelsFit, IsBoundedBy, RealIn, NoLabel
  <2> QED BY <2>1, <2>2, PricingInit DEF BestInv
<1>2. BestInv /\ PricingInv' /\ [Next]_vars => BestInv'
  <2> SUFFICES ASSUME BestInv, PricingInv', [Next]_vars PROVE BestInv'
    OBVIOUS
  <2>1. CASE Price
    BY <2>1, BestPrice
  <2>2. CASE Fix
    BY <2>2, BestFix
  <2>3. CASE Improve
    BY <2>3 DEF Improve, BestInv, LabelsFit
  <2>4. CASE Solve
    BY <2>4 DEF Solve, BestInv, LabelsFit
  <2>5. CASE Branch
    BY <2>5, BestBranch
  <2>6. CASE UNCHANGED vars
    BY <2>6 DEF vars, BestInv, LabelsFit, Stale
  <2> QED BY <2>1, <2>2, <2>3, <2>4, <2>5, <2>6 DEF Next
<1> QED BY <1>1, <1>2, PricingCorrect, PTL DEF Spec

\* Unless a forward solver starts from stale labels, what pricing_algorithm returns is a
\* path with the value its label says, none that could be a machine's schedule is better,
\* and a cyclic solver repeats no job at once: whatever was fixed and split before.
THEOREM PricedIsAlwaysBest == Spec => []PricedIsBest
<1>1. BestInv => PricedIsBest
  <2> SUFFICES ASSUME BestInv, sol # None, ~Stale
               PROVE  /\ sol.seq \in PathsOf(inst, dd)
                      /\ sol.f = PathCost(sol.seq)
                      /\ \A s \in PathsOf(inst, dd) : IsElementary(s) => sol.f <= PathCost(s)
                      /\ Cyclic(solver) => \A i \in 2 .. Len(sol.seq) : sol.seq[i] # sol.seq[i - 1]
    BY Zenon DEF PricedIsBest
  <2>1. IsBestPath(inst, dd, sol.pi, solver, sol)
    BY DEF BestInv
  <2>2. \A s : PathCost(s) = Worth(inst, sol.pi, s)
    BY DEF PathCost, Worth, DualSum
  <2> QED BY <2>1, <2>2 DEF IsBestPath, RepeatsNone
<1> QED BY <1>1, LabelsAlwaysFit, PTL

--------------------------------------------------------------------------------
(* What the arcs of a column's walk say. *)

\* The nodes whose job the column starts.
Starts(I, D, p) == {n \in Nodes(D) : <<n, TRUE>> \in Walk(I, D, p).arcs}

\* The k-th job of p is the node's, and it is run when the node would.
RunsAt(I, p, n, k) == p[k] = JobAt(I, n) /\ EndOf(I, p, k) = n[2] + Length(I, n)

LEMMA TakenOnTime ==
  ASSUME NEW I, IsInstance(I), NEW D, IsDiagram(I, D), NEW p \in Sequences(I),
         NEW n \in Nodes(D), NEW i \in 0 .. Len(p), <<n, i>> \in OnTime(I, D, p),
         i # Len(p), p[i + 1] = JobAt(I, n)
  PROVE  <<D.hi[n], i + 1>> \in OnTime(I, D, p) /\ EndOf(I, p, i + 1) = n[2] + Length(I, n)
<1>1. <<D.hi[n], i + 1>> \in OnTime(I, D, p)
  BY PathIsOnTime
<1>2. n[2] = EndOf(I, p, i)
  BY NodeFacts DEF OnTime
<1>3. Len(p) \in Nat /\ i + 1 \in 1 .. Len(p) /\ (i + 1) - 1 = i
  BY SequenceFacts DEF Sequences
<1>4. EndOf(I, p, i + 1) = EndOf(I, p, (i + 1) - 1) + I.jobs[p[i + 1]].p
  BY <1>3, EndFacts
<1>5. EndOf(I, p, i + 1) = n[2] + Length(I, n)
  BY <1>2, <1>3, <1>4 DEF Length
<1> QED BY <1>1, <1>5

\* A node started is a job of the column, run on time, ...
LEMMA StartIsRun ==
  ASSUME NEW I, IsInstance(I), NEW D, IsDiagram(I, D), NEW p \in Sequences(I)
  PROVE  \A u \in Starts(I, D, p) : \E k \in 1 .. Len(p) : RunsAt(I, p, u, k)
<1>1. PICK W : IsWalk(I, D, p, W) /\ Walk(I, D, p) = W[D.root][1]
  BY WalkFacts
<1> DEFINE Run(u) == \E k \in 1 .. Len(p) : RunsAt(I, p, u, k)
           A(n, i) == W[n][i + 1].arcs
           F == {n \in Vertices(D) : \A i \in 0 .. Len(p) : <<n, i>> \in OnTime(I, D, p) =>
                   \A u \in Nodes(D) : <<u, TRUE>> \in A(n, i) => Run(u)}
<1>2. Len(p) \in Nat /\ D.root \in Vertices(D) /\ One \in Vertices(D) /\ \A n \in Nodes(D) : n \in Vertices(D)
  BY SequenceFacts DEF Sequences, IsDiagram, Vertices
<1>3. One \in F
  <2>1. \A i \in 0 .. Len(p) : A(One, i) = {}
    BY <1>1, WalkSteps DEF WalkEnds
  <2> HIDE DEF A, Run
  <2> QED BY <1>2, <2>1
<1>4. ASSUME NEW n \in Nodes(D), D.lo[n] \in F, D.hi[n] \in F PROVE n \in F
  <2> SUFFICES ASSUME NEW i \in 0 .. Len(p), <<n, i>> \in OnTime(I, D, p),
                      NEW u \in Nodes(D), <<u, TRUE>> \in A(n, i) PROVE Run(u)
    BY <1>2
  <2>1. WalksOn(I, D, p, W, n, i)
    BY <1>1, WalkSteps
  <2>2. CASE i # Len(p) /\ p[i + 1] = JobAt(I, n)
    <3>1. i + 1 \in 0 .. Len(p) /\ i + 1 \in 1 .. Len(p) /\ (i + 1) + 1 = i + 2
      BY <1>2, <2>2
    <3>2. A(n, i) = A(D.hi[n], i + 1) \cup {<<n, TRUE>>}
      BY <2>1, <2>2, <3>1 DEF WalksOn
    <3>3. <<D.hi[n], i + 1>> \in OnTime(I, D, p) /\ EndOf(I, p, i + 1) = n[2] + Length(I, n)
      BY <2>2, TakenOnTime
    <3>4. CASE u = n
      BY <2>2, <3>1, <3>3, <3>4 DEF RunsAt
    <3>5. CASE u # n
      <4>1. <<u, TRUE>> \in A(D.hi[n], i + 1)
        <5> HIDE DEF A
        <5> QED BY <3>2, <3>5
      <4> HIDE DEF A, Run
      <4> QED BY <1>4, <3>1, <3>3, <4>1
    <3> QED BY <3>4, <3>5
  <2>3. CASE ~(i # Len(p) /\ p[i + 1] = JobAt(I, n))
    <3>1. A(n, i) = A(D.lo[n], i) \cup {<<n, FALSE>>}
      BY <2>1, <2>3 DEF WalksOn
    <3>2. <<D.lo[n], i>> \in OnTime(I, D, p)
      BY PathIsOnTime
    <3>3. <<u, TRUE>> \in A(D.lo[n], i)
      <4>1. <<u, TRUE>> # <<n, FALSE>>
        OBVIOUS
      <4> HIDE DEF A
      <4> QED BY <3>1, <4>1
    <3> HIDE DEF A, Run
    <3> QED BY <1>4, <3>2, <3>3
  <2> QED BY <2>2, <2>3
<1>5. \A n \in Vertices(D) : n \in F
  <2> HIDE DEF F
  <2> QED BY <1>3, <1>4, DiagramInduction
<1>6. ASSUME NEW u \in Starts(I, D, p) PROVE Run(u)
  <2>1. 0 \in 0 .. Len(p) /\ 0 + 1 = 1 /\ <<D.root, 0>> \in OnTime(I, D, p)
    BY <1>2, PathIsOnTime, SMTT(30)
  <2>2. u \in Nodes(D) /\ <<u, TRUE>> \in A(D.root, 0)
    BY <1>1, <2>1 DEF Starts
  <2> HIDE DEF A, Run
  <2> QED BY <1>2, <1>5, <2>1, <2>2
<1> QED BY <1>6

\* ... and of a path every job is started at a node.
LEMMA RunIsStarted ==
  ASSUME NEW I, IsInstance(I), NEW D, IsDiagram(I, D), NEW p \in PathsOf(I, D)
  PROVE  \A k \in 1 .. Len(p) : \E u \in Starts(I, D, p) : RunsAt(I, p, u, k)
<1>0. p \in Sequences(I)
  BY PathIsShort
<1>1. PICK W : IsWalk(I, D, p, W) /\ Walk(I, D, p) = W[D.root][1]
  BY <1>0, WalkFacts
<1> DEFINE A(n, i) == W[n][i + 1].arcs
           Started(n, i, k) == \E u \in Nodes(D) : <<u, TRUE>> \in A(n, i) /\ RunsAt(I, p, u, k)
           F == {n \in Vertices(D) : \A i \in 0 .. Len(p) :
                   <<n, i>> \in OnTime(I, D, p) /\ Rest(p, i) \in PathsBelow(I, D)[n] =>
                     \A k \in i + 1 .. Len(p) : Started(n, i, k)}
<1>2. /\ Len(p) \in Nat /\ D.root \in Vertices(D) /\ One \in Vertices(D) /\ One \notin Nodes(D)
      /\ \A n \in Nodes(D) : n \in Vertices(D) /\ n # One
  BY <1>0, SequenceFacts, NodeFacts DEF Sequences, IsDiagram, Vertices
<1>3. One \in F
  <2>1. \A i \in 0 .. Len(p) : Rest(p, i) \in PathsBelow(I, D)[One] => i = Len(p)
    BY <1>0, <1>2, PathStep
  <2>2. \A k : k \notin Len(p) + 1 .. Len(p)
    BY <1>2
  <2> HIDE DEF Started
  <2> QED BY <1>2, <2>1, <2>2
<1>4. ASSUME NEW n \in Nodes(D), D.lo[n] \in F, D.hi[n] \in F PROVE n \in F
  <2> SUFFICES ASSUME NEW i \in 0 .. Len(p), <<n, i>> \in OnTime(I, D, p), Rest(p, i) \in PathsBelow(I, D)[n],
                      NEW k \in i + 1 .. Len(p) PROVE Started(n, i, k)
    BY <1>2
  <2>1. WalksOn(I, D, p, W, n, i)
    BY <1>0, <1>1, WalkSteps
  <2>2. CASE i # Len(p) /\ p[i + 1] = JobAt(I, n)
    <3>1. i + 1 \in 0 .. Len(p) /\ i + 1 \in 1 .. Len(p) /\ (i + 1) + 1 = i + 2 /\ (k # i + 1 => k \in (i + 1) + 1 .. Len(p))
      BY <1>2, <2>2
    <3>2. A(n, i) = A(D.hi[n], i + 1) \cup {<<n, TRUE>>}
      BY <2>1, <2>2, <3>1 DEF WalksOn
    <3>3. <<D.hi[n], i + 1>> \in OnTime(I, D, p) /\ EndOf(I, p, i + 1) = n[2] + Length(I, n)
      BY <1>0, <2>2, TakenOnTime
    <3>4. CASE k = i + 1
      BY <2>2, <3>2, <3>3, <3>4 DEF RunsAt
    <3>5. CASE k # i + 1
      <4>1. Rest(p, i + 1) \in PathsBelow(I, D)[D.hi[n]]
        BY <1>0, <2>2, JobIsTaken
      <4>2. Started(D.hi[n], i + 1, k)
        <5> HIDE DEF Started
        <5> QED BY <1>4, <3>1, <3>3, <3>5, <4>1
      <4> HIDE DEF A
      <4> QED BY <3>2, <4>2
    <3> QED BY <3>4, <3>5
  <2>3. CASE ~(i # Len(p) /\ p[i + 1] = JobAt(I, n))
    <3>1. A(n, i) = A(D.lo[n], i) \cup {<<n, FALSE>>}
      BY <2>1, <2>3 DEF WalksOn
    <3>2. <<D.lo[n], i>> \in OnTime(I, D, p)
      BY <1>0, PathIsOnTime
    <3>3. Rest(p, i) \in PathsBelow(I, D)[D.lo[n]]
      BY <1>0, <1>2, <2>3, PathStep
    <3>4. Started(D.lo[n], i, k)
      <4> HIDE DEF Started
      <4> QED BY <1>4, <3>2, <3>3
    <3> HIDE DEF A
    <3> QED BY <3>1, <3>4
  <2> QED BY <2>2, <2>3
<1>5. \A n \in Vertices(D) : n \in F
  <2> HIDE DEF F
  <2> QED BY <1>3, <1>4, DiagramInduction
<1>6. ASSUME NEW k \in 1 .. Len(p) PROVE \E u \in Starts(I, D, p) : RunsAt(I, p, u, k)
  <2>1. 0 \in 0 .. Len(p) /\ 0 + 1 = 1 /\ <<D.root, 0>> \in OnTime(I, D, p)
    BY <1>0, <1>2, PathIsOnTime
  <2>2. Rest(p, 0) \in PathsBelow(I, D)[D.root]
    BY <1>0, RestFacts DEF PathsOf, Sequences
  <2>3. Started(D.root, 0, k)
    <3> HIDE DEF Started
    <3> QED BY <1>2, <1>5, <2>1, <2>2
  <2> QED BY <1>1, <2>1, <2>3 DEF Starts
<1> QED BY <1>6

\* The two ways to write a sum over a set.
LEMMA SumIsSum ==
  ASSUME NEW S, NEW v
  PROVE  MapThenSumSet(LAMBDA s : v[s], S) = SumFunctionOnSet(v, S)
BY DEF MapThenSumSet, SumFunctionOnSet, FoldFunctionOnSet

LEMMA FlowIsSum ==
  ASSUME NEW I, NEW D, NEW x, NEW n \in Nodes(D)
  PROVE  Flow(I, D, x)[n] = SumFunctionOnSet(x, {s \in DOMAIN x : n \in Starts(I, D, s)})
<1> DEFINE C == {s \in DOMAIN x : <<n, TRUE>> \in Walk(I, D, s).arcs}
<1>1. Flow(I, D, x)[n] = MapThenSumSet(LAMBDA s : x[s], C)
  BY DEF Flow
<1>2. C = {s \in DOMAIN x : n \in Starts(I, D, s)}
  BY DEF Starts
<1> HIDE DEF C
<1> QED BY <1>1, <1>2, SumIsSum

\* Where there is flow a column starts the job.
LEMMA FlowHasColumn ==
  ASSUME NEW I, NEW D, NEW x, NEW n \in Nodes(D), Flow(I, D, x)[n] > 0
  PROVE  \E s \in DOMAIN x : n \in Starts(I, D, s)
<1> SUFFICES ASSUME ~ \E s \in DOMAIN x : n \in Starts(I, D, s) PROVE FALSE
  OBVIOUS
<1>1. {s \in DOMAIN x : n \in Starts(I, D, s)} = {}
  OBVIOUS
<1>2. Flow(I, D, x)[n] = 0
  BY <1>1, FlowIsSum, SumOfNone
<1> QED BY <1>2

--------------------------------------------------------------------------------
(* The solution that is branched on. *)

\* x gives the columns c, one unit each, the number of times they are among these, which
\* cover each job and need no more than the machines there are.
IsSolution(I, D, x, c) ==
  /\ \E k \in Nat : k <= Unit * I.m /\ c \in [1 .. k -> PathsOf(I, D)]
  /\ \A j \in DOMAIN I.jobs : MapThenSumSet(LAMBDA i : Covers(c[i], j), DOMAIN c) >= Unit
  /\ x = [s \in {c[i] : i \in DOMAIN c} |-> Cardinality({i \in DOMAIN c : c[i] = s})]

\* Columns are paths of the diagram they are branched on with: it does not change between.
SolutionInv ==
  /\ DiagramInv
  /\ lp # NoLP => sol = None /\ \E c : IsSolution(inst, dd, lp, c)

\* Solve takes a solution over the paths of the diagram there is.
LEMMA SolveSolution ==
  ASSUME SolutionInv, DiagramInv', Solve
  PROVE  SolutionInv'
<1> DEFINE cols == {s \in PathsOf(inst, dd) : s # <<>> /\ \A i \in 2 .. Len(s) : s[i] # s[i - 1]}
<1>1. PICK k \in Unit .. Unit * inst.m : \E c \in [1 .. k -> cols] :
        /\ \A j \in DOMAIN inst.jobs : MapThenSumSet(LAMBDA i : Covers(c[i], j), 1 .. k) >= Unit
        /\ lp' = [s \in {c[i] : i \in 1 .. k} |-> Cardinality({i \in 1 .. k : c[i] = s})]
  BY DEF Solve
<1>2. PICK c \in [1 .. k -> cols] :
        /\ \A j \in DOMAIN inst.jobs : MapThenSumSet(LAMBDA i : Covers(c[i], j), 1 .. k) >= Unit
        /\ lp' = [s \in {c[i] : i \in 1 .. k} |-> Cardinality({i \in 1 .. k : c[i] = s})]
  BY <1>1
<1>3. inst' = inst /\ dd' = dd /\ sol' = None
  BY DEF Solve
<1>4. DOMAIN c = 1 .. k /\ k \in Nat /\ k <= Unit * inst.m /\ c \in [1 .. k -> PathsOf(inst, dd)]
  <2>1. k \in Nat /\ k <= Unit * inst.m
    <3>1. inst.m \in Nat
      BY DiagramAssumption DEF SolutionInv, DiagramInv, IsInstance
    <3> QED BY <3>1 DEF Unit
  <2>2. cols \subseteq PathsOf(inst, dd)
    OBVIOUS
  <2> HIDE DEF cols
  <2> QED BY <2>1, <2>2
<1> HIDE DEF cols
<1>5. IsSolution(inst, dd, lp', c)
  BY <1>2, <1>4 DEF IsSolution
<1>6. IsSolution(inst', dd', lp', c)
  BY <1>3, <1>5
<1> QED BY <1>3, <1>6 DEF SolutionInv

\* The LP solution that is tested for integrality, branched on and projected is over paths
\* of the diagram as it is: a step that takes arcs away drops it.
THEOREM SolutionCorrect == Spec => []SolutionInv
<1>1. Init => SolutionInv
  BY DiagramInit DEF Init, SolutionInv
<1>2. SolutionInv /\ DiagramInv' /\ [Next]_vars => SolutionInv'
  <2> SUFFICES ASSUME SolutionInv, DiagramInv', [Next]_vars PROVE SolutionInv'
    OBVIOUS
  <2>1. CASE Price
    BY <2>1 DEF Price, SolutionInv
  <2>2. CASE Fix
    BY <2>2 DEF Fix, SolutionInv
  <2>3. CASE Improve
    BY <2>3 DEF Improve, SolutionInv
  <2>4. CASE Solve
    BY <2>4, SolveSolution
  <2>5. CASE Branch
    BY <2>5 DEF Branch, SolutionInv
  <2>6. CASE UNCHANGED vars
    BY <2>6 DEF vars, SolutionInv
  <2> QED BY <2>1, <2>2, <2>3, <2>4, <2>5, <2>6 DEF Next
<1> QED BY <1>1, <1>2, DiagramCorrect, PTL DEF Spec

\* A column that starts a job on the side of a decision that is excluded is not within it.
LEMMA StartIsWithin ==
  ASSUME NEW I, IsInstance(I), NEW D, IsDiagram(I, D), NEW p \in Sequences(I), NEW u \in Starts(I, D, p),
         NEW c, c.job = JobAt(I, u), Within(I, p, c)
  PROVE  (u[2] + Length(I, u) > c.time) = c.left
<1>1. PICK k \in 1 .. Len(p) : RunsAt(I, p, u, k)
  BY StartIsRun
<1>2. k \in DOMAIN p
  BY SequenceFacts DEF Sequences
<1> QED BY <1>1, <1>2 DEF RunsAt, Within

LEMMA BranchCuts ==
  ASSUME SolutionInv, Branch
  PROVE  \E s \in DOMAIN lp : s \notin PathsOf(inst, dd')
<1>1. inst \in Instances /\ IsInstance(inst) /\ IsDiagram(inst, dd)
  BY DiagramAssumption DEF SolutionInv, DiagramInv
<1> DEFINE C == Copy(inst, dd)
<1>2. PICK c \in Candidates(inst, dd, lp), left \in BOOLEAN : dd' = Split(inst, C, c[1], c[2], left)
  BY DEF Branch
<1> DEFINE cut == [job |-> c[1], time |-> c[2], left |-> left]
<1>3. PICK u \in Nodes(dd), v \in Nodes(dd) :
        /\ JobAt(inst, u) = c[1] /\ Flow(inst, dd, lp)[u] > 0 /\ u[2] + Length(inst, u) <= c[2]
        /\ JobAt(inst, v) = c[1] /\ Flow(inst, dd, lp)[v] > 0 /\ c[2] < v[2] + Length(inst, v)
  BY <1>1, CandidateFacts
<1>4. IsCut(cut) /\ c[2] \in Int
  BY <1>1, CandidateFacts DEF IsCut
<1>5. \A p \in PathsOf(inst, dd') : Within(inst, p, cut)
  <2>1. IsDiagram(inst, C)
    BY <1>1, CopyKeeps DEF Keeps
  <2>2. dd' = ChildOf(inst, C, cut)
    BY <1>2 DEF ChildOf
  <2> HIDE DEF C, cut
  <2> QED BY <1>1, <1>4, <2>1, <2>2, SplitFacts
<1>6. \A s \in DOMAIN lp : s \in Sequences(inst)
  <2>1. PICK c0 : IsSolution(inst, dd, lp, c0)
    BY DEF SolutionInv, Branch
  <2>2. \A i \in DOMAIN c0 : c0[i] \in PathsOf(inst, dd)
    BY <2>1 DEF IsSolution
  <2>3. \A s \in DOMAIN lp : s \in PathsOf(inst, dd)
    BY <2>1, <2>2 DEF IsSolution
  <2> QED BY <1>1, <2>3, PathIsShort
<1> DEFINE n == IF left THEN u ELSE v
<1>7. /\ n \in Nodes(dd) /\ JobAt(inst, n) = cut.job /\ Flow(inst, dd, lp)[n] > 0
      /\ (n[2] + Length(inst, n) > cut.time) # cut.left
  <2>1. /\ u[2] + Length(inst, u) \in Int /\ v[2] + Length(inst, v) \in Int
        /\ cut.job = c[1] /\ cut.time = c[2] /\ cut.left = left
    BY <1>1, NodeFacts
  <2> DEFINE early == u[2] + Length(inst, u)
             late == v[2] + Length(inst, v)
  <2>2. ~ (early > c[2]) /\ late > c[2]
    <3>1. early <= c[2] /\ c[2] < late /\ early \in Int /\ late \in Int /\ c[2] \in Int
      BY <1>3, <1>4, <2>1
    <3> HIDE DEF early, late
    <3> QED BY <3>1
  <2>3. CASE left
    <3>1. n = u
      BY <2>3
    <3> QED BY <1>3, <2>1, <2>2, <2>3, <3>1, Zenon
  <2>4. CASE ~left
    <3>1. n = v
      BY <2>4
    <3> QED BY <1>3, <2>1, <2>2, <2>4, <3>1, Zenon
  <2> QED BY <2>3, <2>4
<1> HIDE DEF n, cut
<1>8. PICK s \in DOMAIN lp : n \in Starts(inst, dd, s)
  BY <1>7, FlowHasColumn
<1>9. ~Within(inst, s, cut)
  BY <1>1, <1>6, <1>7, <1>8, StartIsWithin
<1> QED BY <1>5, <1>8, <1>9

\* Each child excludes a column of its parent's LP solution: branching always makes progress
\* (branch() picks the middle of two completion times that the solution uses).
THEOREM BranchingCuts == Spec => BranchingCutsSolution
<1>1. SolutionInv /\ [Next]_vars => [cuts' # cuts => \E s \in DOMAIN lp : s \notin PathsOf(inst, dd')]_vars
  <2> SUFFICES ASSUME SolutionInv, [Next]_vars, cuts' # cuts PROVE \E s \in DOMAIN lp : s \notin PathsOf(inst, dd')
    OBVIOUS
  <2>1. Branch
    BY DEF Next, Price, Fix, Improve, Solve, vars
  <2> QED BY <2>1, BranchCuts
<1> QED BY <1>1, SolutionCorrect, PTL DEF Spec, BranchingCutsSolution

\* Diagrams have finitely many nodes.
LEMMA NodesAreFinite ==
  ASSUME NEW I, IsInstance(I), NEW D, IsDiagram(I, D)
  PROVE  IsFiniteSet(Nodes(D))
<1>1. DOMAIN I.layers = 1 .. Len(I.layers) /\ Len(I.layers) \in Int /\ Horizon(I) \in Int
  BY InstanceFacts
<1>2. IsFiniteSet(DOMAIN I.layers) /\ IsFiniteSet(0 .. Horizon(I))
  BY <1>1, FS_Interval
<1>3. IsFiniteSet((DOMAIN I.layers) \X (0 .. Horizon(I)))
  BY <1>2, FS_Product
<1>4. Nodes(D) \subseteq (DOMAIN I.layers) \X (0 .. Horizon(I))
  BY DEF IsDiagram
<1> QED BY <1>3, <1>4, FS_Subset

\* Each job of a sequence ends after those before it.
LEMMA EndIncreases ==
  ASSUME NEW I, IsInstance(I), NEW p \in Sequences(I), NEW k \in 1 .. Len(p)
  PROVE  \A l \in 1 .. Len(p) : k < l => EndOf(I, p, k) < EndOf(I, p, l)
<1> DEFINE F == {l \in 0 .. Len(p) : k < l => EndOf(I, p, k) < EndOf(I, p, l)}
<1>0. Len(p) \in Nat /\ \A i \in 1 .. Len(p) : p[i] \in DOMAIN I.jobs
  BY SequenceFacts DEF Sequences
<1>1. 0 \in F
  BY <1>0
<1>2. ASSUME NEW l \in 1 .. Len(p), l - 1 \in F PROVE l \in F
  <2>1. /\ EndOf(I, p, l) = EndOf(I, p, l - 1) + I.jobs[p[l]].p
        /\ EndOf(I, p, l - 1) \in Nat /\ EndOf(I, p, k) \in Nat /\ EndOf(I, p, l) \in Nat
    <3>1. l \in 0 .. Len(p) /\ l - 1 \in 0 .. Len(p) /\ k \in 0 .. Len(p)
      BY <1>0
    <3> QED BY <3>1, EndFacts
  <2>2. I.jobs[p[l]].p \in Nat \ {0}
    BY <1>0, InstanceFacts
  <2>3. k < l - 1 => EndOf(I, p, k) < EndOf(I, p, l - 1)
    BY <1>2
  <2> DEFINE a == EndOf(I, p, k)
             b == EndOf(I, p, l - 1)
             c == EndOf(I, p, l)
             d == I.jobs[p[l]].p
  <2>4. k = l - 1 => a = b
    OBVIOUS
  <2>5. /\ c = b + d /\ a \in Nat /\ b \in Nat /\ c \in Nat /\ d \in Nat \ {0} /\ (k < l - 1 => a < b)
    BY <2>1, <2>2, <2>3
  <2> HIDE DEF a, b, c, d
  <2>6. k < l => a < c
    BY <1>0, <2>4, <2>5
  <2>7. l \in 0 .. Len(p)
    BY <1>0
  <2> QED BY <2>6, <2>7 DEF a, c
<1> HIDE DEF F
<1>3. \A l \in 0 .. Len(p) : l \in F
  BY <1>0, <1>1, <1>2, IntervalInduction
<1>4. \A l \in 1 .. Len(p) : l \in 0 .. Len(p)
  BY <1>0
<1> QED BY <1>3, <1>4 DEF F

\* f are the nodes at which the jobs of p are started, one each.
IsStart(I, D, p, f) ==
  /\ f \in [1 .. Len(p) -> Nodes(D)] /\ Starts(I, D, p) = {f[k] : k \in 1 .. Len(p)}
  /\ \A k, l \in 1 .. Len(p) : f[k] = f[l] => k = l
  /\ \A k \in 1 .. Len(p) : RunsAt(I, p, f[k], k)

LEMMA PathStarts ==
  ASSUME NEW I, IsInstance(I), NEW D, IsDiagram(I, D), NEW p \in PathsOf(I, D)
  PROVE  \E f : IsStart(I, D, p, f)
<1>0. p \in Sequences(I)
  BY PathIsShort
<1> DEFINE S == Starts(I, D, p)
           f == [k \in 1 .. Len(p) |-> CHOOSE u \in S : RunsAt(I, p, u, k)]
<1>1. ASSUME NEW k \in 1 .. Len(p) PROVE f[k] \in S /\ RunsAt(I, p, f[k], k)
  BY RunIsStarted
<1>2. S \subseteq Nodes(D)
  BY DEF Starts
<1>3. ASSUME NEW k \in 1 .. Len(p), NEW l \in 1 .. Len(p), f[k] = f[l] PROVE k = l
  <2> DEFINE u == f[k]
  <2>1. RunsAt(I, p, u, k) /\ RunsAt(I, p, u, l)
    BY <1>1, <1>3
  <2>2. EndOf(I, p, k) = EndOf(I, p, l)
    BY <2>1 DEF RunsAt
  <2>3. (k < l => EndOf(I, p, k) < EndOf(I, p, l)) /\ (l < k => EndOf(I, p, l) < EndOf(I, p, k))
    BY <1>0, EndIncreases
  <2>4. EndOf(I, p, k) \in Nat /\ EndOf(I, p, l) \in Nat /\ k \in Int /\ l \in Int
    <3>1. Len(p) \in Nat
      BY <1>0, SequenceFacts DEF Sequences
    <3>2. k \in 0 .. Len(p) /\ l \in 0 .. Len(p)
      BY <3>1
    <3> QED BY <1>0, <3>1, <3>2, EndFacts
  <2>5. ~ (k < l) /\ ~ (l < k)
    <3> DEFINE a == EndOf(I, p, k)
               b == EndOf(I, p, l)
    <3> HIDE DEF f, u
    <3>1. a = b /\ a \in Nat /\ b \in Nat /\ (k < l => a < b) /\ (l < k => b < a)
      BY <2>2, <2>3, <2>4
    <3> HIDE DEF a, b
    <3> QED BY <3>1
  <2> QED BY <2>4, <2>5
<1>4. ASSUME NEW u \in S PROVE u \in {f[k] : k \in 1 .. Len(p)}
  <2>1. PICK k \in 1 .. Len(p) : RunsAt(I, p, u, k)
    BY <1>0, StartIsRun
  <2> DEFINE v == f[k]
  <2>2. v \in Nodes(D) /\ RunsAt(I, p, v, k) /\ u \in Nodes(D)
    BY <1>1, <1>2
  <2> HIDE DEF f
  <2>3. v = u
    <3> HIDE DEF v
    <3>1. JobAt(I, v) = JobAt(I, u) /\ v[2] + Length(I, v) = u[2] + Length(I, u)
      BY <2>1, <2>2 DEF RunsAt
    <3> QED BY <2>2, <3>1, OneNodeForJob
  <2> QED BY <2>3
<1>5. f \in [1 .. Len(p) -> Nodes(D)]
  BY <1>1, <1>2
<1>6. S = {f[k] : k \in 1 .. Len(p)}
  <2> HIDE DEF f, S
  <2> QED BY <1>1, <1>4
<1> HIDE DEF f
<1> QED BY <1>1, <1>3, <1>5, <1>6 DEF IsStart

\* The flow of a node is the number of units of the columns that start its job there.
LEMMA FlowCounts ==
  ASSUME NEW I, NEW D, NEW x, NEW c, IsSolution(I, D, x, c), NEW n \in Nodes(D)
  PROVE  Flow(I, D, x)[n] = Cardinality({i \in DOMAIN c : n \in Starts(I, D, c[i])})
<1> DEFINE C == {s \in DOMAIN x : n \in Starts(I, D, s)}
           K == {i \in DOMAIN c : n \in Starts(I, D, c[i])}
           one == [i \in K |-> 1]
           part == [s \in C |-> {i \in DOMAIN c : c[i] = s}]
<1>1. /\ \E k \in Nat : DOMAIN c = 1 .. k
      /\ x = [s \in {c[i] : i \in DOMAIN c} |-> Cardinality({i \in DOMAIN c : c[i] = s})]
  BY DEF IsSolution
<1>2. IsFiniteSet(DOMAIN c) /\ IsFiniteSet(K)
  BY <1>1, FS_Interval, FS_Subset
<1>3. DOMAIN x = {c[i] : i \in DOMAIN c} /\ \A s \in DOMAIN x : x[s] = Cardinality({i \in DOMAIN c : c[i] = s})
  BY <1>1
<1>4. IsFiniteSet(C)
  <2> DEFINE X == {c[i] : i \in DOMAIN c}
  <2>1. IsFiniteSet(X)
    BY <1>2, FiniteImage
  <2>2. C \in SUBSET X
    BY <1>3
  <2> HIDE DEF C, X
  <2> QED BY <2>1, <2>2, FS_Subset
<1>5. \A s \in C : part[s] \subseteq K /\ x[s] = Cardinality(part[s])
  BY <1>3
<1>6. \A s, t \in C : s # t => part[s] \cap part[t] = {}
  OBVIOUS
<1>7. Together(part, C) = K
  <2>1. \A i \in K : c[i] \in C /\ i \in part[c[i]]
    BY <1>3
  <2> HIDE DEF C, K, part
  <2> QED BY <1>5, <2>1 DEF Together
<1>8. \A i \in K : one[i] = 1 /\ one[i] \in Int
  OBVIOUS
<1>9. Flow(I, D, x)[n] = SumFunctionOnSet(x, C)
  BY FlowIsSum
<1> HIDE DEF C, K, one, part
<1>10. ASSUME NEW T \in SUBSET K PROVE SumFunctionOnSet(one, T) = Cardinality(T)
  <2>1. IsFiniteSet(T) /\ Cardinality(T) \in Nat
    BY <1>2, FS_Subset, FS_CardinalityType
  <2>2. SumFunctionOnSet(one, T) = Cardinality(T) * 1
    BY <1>8, <2>1, SumOfConstant
  <2> QED BY <2>1, <2>2
<1>11. \A s \in C : x[s] = SumFunctionOnSet(one, part[s])
  BY <1>5, <1>10
<1>12. SumFunctionOnSet(x, C) = SumFunctionOnSet(one, Together(part, C))
  BY <1>2, <1>4, <1>5, <1>6, <1>8, <1>11, SumOfParts
<1>13. SumFunctionOnSet(x, C) = Cardinality(K)
  BY <1>7, <1>10, <1>12
<1> QED BY <1>9, <1>13 DEF K

\* A path starts a job at as many nodes as it does the job.
LEMMA CoversAreStarts ==
  ASSUME NEW I, IsInstance(I), NEW D, IsDiagram(I, D), NEW p \in PathsOf(I, D), NEW j
  PROVE  Covers(p, j) = Cardinality({n \in Nodes(D) : JobAt(I, n) = j /\ n \in Starts(I, D, p)})
<1> DEFINE X == {k \in DOMAIN p : p[k] = j}
           Y == {n \in Nodes(D) : JobAt(I, n) = j /\ n \in Starts(I, D, p)}
<1>1. PICK f : IsStart(I, D, p, f)
  BY PathStarts
<1>2. DOMAIN p = 1 .. Len(p) /\ Len(p) \in Nat
  BY PathIsShort, SequenceFacts DEF Sequences
<1>3. IsFiniteSet(X)
  <2>1. IsFiniteSet(DOMAIN p)
    BY <1>2, FS_Interval
  <2> QED BY <2>1, FS_Subset
<1>4. \A k, l \in X : f[k] = f[l] => k = l
  BY <1>1, <1>2 DEF IsStart
<1>5. {f[k] : k \in X} = Y
  <2>1. \A k \in 1 .. Len(p) : f[k] \in Nodes(D) /\ f[k] \in Starts(I, D, p) /\ JobAt(I, f[k]) = p[k]
    BY <1>1 DEF IsStart, RunsAt
  <2>2. \A n \in Starts(I, D, p) : \E k \in 1 .. Len(p) : n = f[k]
    BY <1>1 DEF IsStart
  <2>3. ASSUME NEW n \in Y PROVE n \in {f[k] : k \in X}
    <3>1. PICK k \in 1 .. Len(p) : n = f[k]
      BY <2>2
    <3>2. k \in X
      BY <1>2, <2>1, <3>1
    <3> QED BY <3>1, <3>2
  <2> QED BY <1>2, <2>1, <2>3
<1> HIDE DEF X, Y
<1>6. Cardinality(Y) = Cardinality(X)
  BY <1>3, <1>4, <1>5, CardinalityOfImage
<1> QED BY <1>6 DEF X, Y, Covers

\* What the columns cover of a job in all, as a sum over a function.
LEMMA CoverIsSum ==
  ASSUME NEW c, IsFiniteSet(DOMAIN c), NEW j, NEW h, \A i \in DOMAIN c : h[i] = Covers(c[i], j) /\ h[i] \in Int
  PROVE  MapThenSumSet(LAMBDA i : Covers(c[i], j), DOMAIN c) = SumFunctionOnSet(h, DOMAIN c)
<1> DEFINE S == DOMAIN c
           IsCover(f) == f = [T \in SUBSET S |-> IF T = {} THEN 0
                               ELSE Covers(c[CHOOSE x \in T : TRUE], j) + f[T \ {CHOOSE x \in T : TRUE}]]
           iter == CHOOSE f : IsCover(f)
<1>1. PICK f : IsSum(f, h, S) /\ SumFunctionOnSet(h, S) = f[S]
  BY SumOnSetIsSum
<1>2. ASSUME NEW T \in SUBSET S, T # {}
      PROVE  h[CHOOSE x \in T : TRUE] = Covers(c[CHOOSE x \in T : TRUE], j)
  <2>1. (CHOOSE x \in T : TRUE) \in S
    BY <1>2
  <2> QED BY <2>1
<1>3. IsCover(f)
  <2> HIDE DEF S
  <2> QED BY <1>1, <1>2 DEF IsSum
<1>4. IsCover(iter)
  BY <1>3, ZenonT(40)
<1>5. IsSum(iter, h, S)
  <2> HIDE DEF S, iter
  <2> QED BY <1>2, <1>4 DEF IsSum
<1>6. MapThenSumSet(LAMBDA i : Covers(c[i], j), S) = iter[S]
  BY DEF MapThenSumSet, MapThenFoldSet
<1> HIDE DEF iter
<1>7. iter[S] = f[S]
  BY <1>1, <1>5, SumsAgree
<1> QED BY <1>1, <1>6, <1>7

\* The columns of a solution start each job at least once, one unit of them at a time.
LEMMA FlowCovers ==
  ASSUME NEW I, IsInstance(I), NEW D, IsDiagram(I, D), NEW x, NEW c, IsSolution(I, D, x, c), NEW j \in DOMAIN I.jobs
  PROVE  SumFunctionOnSet(Flow(I, D, x), {n \in Nodes(D) : JobAt(I, n) = j}) >= Unit
<1> DEFINE A == {n \in Nodes(D) : JobAt(I, n) = j}
           B == DOMAIN c
           R == {r \in A \X B : r[1] \in Starts(I, D, c[r[2]])}
           v == [n \in A |-> 1]
           w == Flow(I, D, x)
           h == [i \in B |-> Covers(c[i], j)]
<1>1. IsFiniteSet(A)
  BY NodesAreFinite, FS_Subset
<1>2. IsFiniteSet(B) /\ \A i \in B : c[i] \in PathsOf(I, D)
  <2>1. PICK k \in Nat : c \in [1 .. k -> PathsOf(I, D)]
    BY DEF IsSolution
  <2>2. IsFiniteSet(1 .. k) /\ DOMAIN c = 1 .. k
    BY <2>1, FS_Interval
  <2> QED BY <2>1, <2>2
<1>3. \A n \in A : \A i \in B : <<n, i>> \in R <=> n \in Starts(I, D, c[i])
  OBVIOUS
<1>4. \A n \in A : v[n] = 1 /\ v[n] \in Int
  OBVIOUS
<1>5. ASSUME NEW n \in A PROVE w[n] = Cardinality(SecondsOf(R, B, n)) * v[n]
  <2>1. SecondsOf(R, B, n) = {i \in B : n \in Starts(I, D, c[i])}
    BY <1>3 DEF SecondsOf
  <2> DEFINE X == SecondsOf(R, B, n)
  <2>2. w[n] = Cardinality(X)
    <3>1. n \in Nodes(D)
      OBVIOUS
    <3>2. Flow(I, D, x)[n] = Cardinality({i \in DOMAIN c : n \in Starts(I, D, c[i])})
      BY <3>1, FlowCounts
    <3> HIDE DEF R
    <3> QED BY <2>1, <3>2
  <2>3. IsFiniteSet(X)
    BY <1>2, FS_Subset DEF SecondsOf
  <2> HIDE DEF X, w, v
  <2>4. Cardinality(X) \in Nat
    BY <2>3, FS_CardinalityType
  <2>5. w[n] = Cardinality(X) * v[n]
    BY <1>4, <2>2, <2>4
  <2> QED BY <2>5 DEF X
<1>6. ASSUME NEW i \in B
      PROVE  h[i] = SumFunctionOnSet(v, FirstsOf(R, A, i)) /\ h[i] \in Int
  <2> DEFINE X == FirstsOf(R, A, i)
             Y == {n \in Nodes(D) : JobAt(I, n) = j /\ n \in Starts(I, D, c[i])}
  <2>1. X = Y
    BY DEF FirstsOf
  <2>2. h[i] = Cardinality(Y)
    <3>1. h[i] = Covers(c[i], j)
      OBVIOUS
    <3> QED BY <1>2, <3>1, CoversAreStarts
  <2>3. IsFiniteSet(X) /\ \A n \in X : v[n] = 1
    BY <1>1, FS_Subset DEF FirstsOf
  <2> HIDE DEF X, Y, v, h
  <2>4. SumFunctionOnSet(v, X) = Cardinality(X) * 1 /\ Cardinality(X) \in Nat
    BY <2>3, SumOfConstant, FS_CardinalityType
  <2>5. h[i] = SumFunctionOnSet(v, X) /\ h[i] \in Int
    BY <2>1, <2>2, <2>4
  <2> QED BY <2>5 DEF X
<1>7. \A i \in B : h[i] = Covers(c[i], j)
  OBVIOUS
<1>8. R \in SUBSET (A \X B)
  OBVIOUS
<1>9. MapThenSumSet(LAMBDA i : Covers(c[i], j), B) >= Unit
  BY DEF IsSolution
<1> HIDE DEF A, R, v, w, h
<1>10. SumFunctionOnSet(w, A) = SumFunctionOnSet(h, B)
  <2> HIDE DEF B
  <2>1. ByFirst(w, v, R, A, B)
    BY <1>5 DEF ByFirst
  <2>2. BySecond(h, v, R, A, B)
    BY <1>6 DEF BySecond
  <2> QED BY <1>1, <1>2, <1>4, <1>8, <2>1, <2>2, SumOfPairs
<1>11. MapThenSumSet(LAMBDA i : Covers(c[i], j), B) = SumFunctionOnSet(h, B)
  BY <1>2, <1>6, <1>7, CoverIsSum
<1> QED BY <1>9, <1>10, <1>11 DEF A, w

\* Flows are numbers of units.
LEMMA FlowIsNat ==
  ASSUME NEW I, NEW D, NEW x, NEW c, IsSolution(I, D, x, c)
  PROVE  \A n \in Nodes(D) : Flow(I, D, x)[n] \in Nat
<1>1. PICK k \in Nat : c \in [1 .. k -> PathsOf(I, D)]
  BY DEF IsSolution
<1>2. IsFiniteSet(DOMAIN c)
  BY <1>1, FS_Interval
<1> SUFFICES ASSUME NEW n \in Nodes(D) PROVE Flow(I, D, x)[n] \in Nat
  OBVIOUS
<1> DEFINE K == {i \in DOMAIN c : n \in Starts(I, D, c[i])}
<1>3. Cardinality(K) \in Nat
  BY <1>2, FS_Subset, FS_CardinalityType
<1> QED BY <1>3, FlowCounts

\* A job that is not started with whole units is started twice, the later time being
\* the one at which all of it is done.
LEMMA FractionalSplits ==
  ASSUME NEW I, IsInstance(I), NEW D, IsDiagram(I, D), NEW x, NEW c, IsSolution(I, D, x, c),
         ~IsInteger(I, D, x)
  PROVE  Candidates(I, D, x) # {}
<1> DEFINE flow == Flow(I, D, x)
<1>1. PICK n \in Nodes(D) : ~Whole(flow[n])
  BY DEF IsInteger
<1> DEFINE j == JobAt(I, n)
           N == {m \in Nodes(D) : JobAt(I, m) = j}
           end(m) == m[2] + I.jobs[j].p
           E == {end(m) : m \in {m \in Nodes(D) : JobAt(I, m) = j /\ flow[m] > 0}}
           t == Max(E)
           M == {m \in Nodes(D) : JobAt(I, m) = j /\ end(m) <= t}
<1>2. /\ j \in DOMAIN I.jobs /\ I.jobs[j].p \in Nat
      /\ \A m \in N : m \in Nodes(D) /\ end(m) \in Int /\ end(m) = m[2] + Length(I, m)
  <2>1. j \in DOMAIN I.jobs
    BY NodeFacts
  <2>2. I.jobs[j].p \in Nat
    BY <2>1, InstanceFacts
  <2>3. ASSUME NEW m \in N PROVE m \in Nodes(D) /\ end(m) \in Int /\ end(m) = m[2] + Length(I, m)
    <3>1. m \in Nodes(D) /\ m[2] \in Int /\ Length(I, m) = I.jobs[j].p
      BY NodeFacts DEF Length
    <3> QED BY <2>2, <3>1
  <2> QED BY <2>1, <2>2, <2>3
<1>3. IsFiniteSet(N) /\ \A m \in N : flow[m] \in Nat
  BY NodesAreFinite, FS_Subset, FlowIsNat
<1>4. SumFunctionOnSet(flow, N) >= Unit
  BY <1>2, FlowCovers
<1>5. n \in N /\ flow[n] > 0 /\ flow[n] < Unit
  <2>1. n \in N
    OBVIOUS
  <2> HIDE DEF flow, N
  <2> QED BY <1>1, <1>3, <2>1 DEF Whole, Unit
<1>6. PICK m \in N : m # n /\ flow[m] > 0
  <2> SUFFICES ASSUME \A m \in N \ {n} : ~(flow[m] > 0) PROVE FALSE
    OBVIOUS
  <2> HIDE DEF flow, N
  <2>1. \A m \in N \ {n} : flow[m] = 0
    BY <1>3
  <2>2. SumFunctionOnSet(flow, N) = SumFunctionOnSet(flow, {n})
    BY <1>3, <1>5, <2>1, ZerosAddNothing
  <2>3. SumFunctionOnSet(flow, {n}) = flow[n]
    BY <1>3, <1>5, SumOfOne
  <2> QED BY <1>3, <1>4, <1>5, <2>2, <2>3 DEF Unit
<1>7. E \in SUBSET Int /\ IsFiniteSet(E)
  <2> DEFINE P == {k \in Nodes(D) : JobAt(I, k) = j /\ flow[k] > 0}
             f == [k \in P |-> end(k)]
  <2>1. E = {f[k] : k \in P}
    OBVIOUS
  <2>2. P \in SUBSET N
    OBVIOUS
  <2>3. DOMAIN f = P /\ \A k \in P : f[k] = end(k)
    OBVIOUS
  <2> HIDE DEF f, P, N, E
  <2>4. IsFiniteSet(P)
    BY <1>3, <2>2, FS_Subset
  <2>5. IsFiniteSet(E)
    BY <2>1, <2>3, <2>4, FiniteImage
  <2>6. \A k \in P : end(k) \in Int
    BY <1>2, <2>2
  <2> HIDE DEF end
  <2> QED BY <2>1, <2>3, <2>5, <2>6
<1>8. \A k \in N : flow[k] > 0 => end(k) \in E
  OBVIOUS
<1>9. end(n) # end(m)
  <2>1. m \in Nodes(D) /\ JobAt(I, m) = JobAt(I, n) /\ m # n
    BY <1>6
  <2>2. n[2] + Length(I, n) # m[2] + Length(I, m)
    BY <2>1, OneNodeForJob
  <2>3. end(n) = n[2] + Length(I, n) /\ end(m) = m[2] + Length(I, m)
    BY <1>2, <1>5, <1>6
  <2> HIDE DEF end
  <2> QED BY <2>2, <2>3
<1>10. t \in E /\ t \in Int /\ \A k \in N : flow[k] > 0 => end(k) <= t
  <2> HIDE DEF E, N, end
  <2>1. E # {}
    BY <1>5, <1>8
  <2>2. Max(E) \in E /\ \A e \in E : Max(E) >= e
    BY <1>7, <2>1, MaxIsGreatest
  <2>3. t \in Int /\ \A e \in E : e \in Int
    BY <1>7, <2>2
  <2>4. \A e \in E : e <= t
    <3> HIDE DEF flow
    <3> QED BY <2>2, <2>3
  <2> HIDE DEF t
  <2> QED BY <1>8, <2>2, <2>3, <2>4 DEF t
<1>11. t # Min(E)
  <2>1. end(n) \in E /\ end(m) \in E
    BY <1>5, <1>6, <1>8
  <2> DEFINE a == end(n)
             b == end(m)
             l == Min(E)
  <2>2. a \in Int /\ b \in Int /\ a # b /\ a <= t /\ b <= t
    BY <1>2, <1>5, <1>6, <1>9, <1>10
  <2> HIDE DEF E
  <2>3. l \in Int /\ l <= a /\ l <= b
    <3> HIDE DEF a, b, end
    <3>1. Min(E) \in E /\ \A e \in E : Min(E) <= e
      BY <1>7, <2>1, MinIsLeast
    <3> QED BY <1>7, <2>1, <3>1 DEF a, b
  <2> HIDE DEF a, b, l, t, end
  <2>4. l # t
    BY <1>10, <2>2, <2>3
  <2> QED BY <2>4 DEF l
<1>12. Mostly(MapThenSumSet(LAMBDA k : flow[k], M))
  <2>1. MapThenSumSet(LAMBDA k : flow[k], M) = SumFunctionOnSet(flow, M)
    <3> HIDE DEF flow, M
    <3> QED BY SumIsSum
  <2>2. M \in SUBSET N
    OBVIOUS
  <2>3. \A k \in N \ M : flow[k] = 0
    <3> SUFFICES ASSUME NEW k \in N, k \notin M PROVE flow[k] = 0
      OBVIOUS
    <3>1. ~(end(k) <= t)
      BY <1>2
    <3> HIDE DEF N, M, t, end, flow
    <3>2. flow[k] \in Nat /\ ~(flow[k] > 0)
      BY <1>3, <1>10, <3>1
    <3> QED BY <3>2
  <2> HIDE DEF N, M, flow, t, end
  <2>4. SumFunctionOnSet(flow, M) = SumFunctionOnSet(flow, N)
    BY <1>3, <2>2, <2>3, ZerosAddNothing
  <2>5. SumFunctionOnSet(flow, M) \in Int
    BY <1>3, <2>4, SumType
  <2> DEFINE v == SumFunctionOnSet(flow, M)
  <2>6. v \in Int /\ v >= Unit
    BY <1>4, <2>4, <2>5
  <2> HIDE DEF v
  <2>7. 5 * v >= 4 * Unit
    BY <2>6 DEF Unit
  <2> QED BY <2>1, <2>7 DEF v, Mostly
<1> DEFINE ends(i) == {k[2] + I.jobs[i].p : k \in {k \in Nodes(D) : JobAt(I, k) = i /\ flow[k] > 0}}
           done(i, e) == MapThenSumSet(LAMBDA k : flow[k],
                           {k \in Nodes(D) : JobAt(I, k) = i /\ k[2] + I.jobs[i].p <= e})
           late(i) == {e \in ends(i) : e # Min(ends(i)) /\ Mostly(done(i, e))}
           middle(i) == LET e == Min(late(i))
                        IN  Middle(e, Max({u \in ends(i) : u < e}))
<1>13. Candidates(I, D, x) = {<<i, middle(i)>> : i \in {i \in DOMAIN I.jobs : ends(i) # {} /\ late(i) # {}}}
  BY DEF Candidates
<1>14. ends(j) # {} /\ t \in late(j)
  BY <1>10, <1>11, <1>12
<1> HIDE DEF middle, late, ends
<1>15. <<j, middle(j)>> \in Candidates(I, D, x)
  BY <1>2, <1>13, <1>14
<1> QED BY <1>15

\* "no branching found" cannot happen: a fractional solution always has a candidate
\* (branch() reports an error and stops when it has none).
THEOREM BranchingFound == Spec => []FractionalHasCandidate
<1>1. SolutionInv => FractionalHasCandidate
  <2> SUFFICES ASSUME SolutionInv, lp # NoLP, ~IsInteger(inst, dd, lp) PROVE Candidates(inst, dd, lp) # {}
    BY DEF FractionalHasCandidate
  <2>1. IsInstance(inst) /\ IsDiagram(inst, dd)
    BY DiagramAssumption DEF SolutionInv, DiagramInv
  <2>2. PICK c : IsSolution(inst, dd, lp, c)
    BY DEF SolutionInv
  <2> QED BY <2>1, <2>2, FractionalSplits
<1> QED BY <1>1, SolutionCorrect, PTL

--------------------------------------------------------------------------------
(* The mixed-integer model over the diagram. *)

\* The arcs of a route from n to the terminal: out of and into a node at most one, into
\* each but n if and only if out of it, and none above n.
IsRoute(D, n, A) ==
  /\ A \subseteq MipArcs(D)
  /\ \A a, b \in A : a[1] = b[1] \/ Target(D, a) = Target(D, b) => a = b
  /\ \A v \in Nodes(D) \ {n} : (\E a \in A : Target(D, a) = v) <=> (\E a \in A : a[1] = v)
  /\ \A a \in A : n \in Nodes(D) /\ n[1] <= a[1][1] /\ Target(D, a) # n
  /\ n \in Nodes(D) => (\E a \in A : a[1] = n) /\ (\E a \in A : Target(D, a) = One)

\* An arc leads to a vertex farther down.
LEMMA ArcsLeadDown ==
  ASSUME NEW I, IsInstance(I), NEW D, IsDiagram(I, D), NEW a \in MipArcs(D)
  PROVE  /\ a[1] \in Nodes(D) /\ a = <<a[1], a[2]>> /\ a[2] \in BOOLEAN /\ Target(D, a) \in Vertices(D)
         /\ Target(D, a) # One => a[1][1] < Target(D, a)[1]
<1>1. a[1] \in Nodes(D) /\ a = <<a[1], a[2]>> /\ a[2] \in BOOLEAN
  BY DEF MipArcs
<1>2. D.lo[a[1]] \in Vertices(D) /\ D.hi[a[1]] \in Vertices(D)
  BY <1>1, NodeFacts
<1>3. /\ D.lo[a[1]] # One => a[1][1] < D.lo[a[1]][1]
      /\ D.hi[a[1]] # One => a[1][1] < D.hi[a[1]][1]
  BY <1>1 DEF IsDiagram
<1> QED BY <1>1, <1>2, <1>3 DEF Target

\* A route continues upwards by an arc into its first vertex.
LEMMA RouteStep ==
  ASSUME NEW I, IsInstance(I), NEW D, IsDiagram(I, D), NEW n \in Nodes(D), NEW b \in BOOLEAN,
         NEW A, IsRoute(D, Target(D, <<n, b>>), A)
  PROVE  IsRoute(D, n, A \cup {<<n, b>>})
<1> DEFINE e == <<n, b>>
           c == Target(D, e)
           B == A \cup {e}
<1>1. e \in MipArcs(D) /\ e[1] = n /\ A \subseteq MipArcs(D)
  BY DEF MipArcs, IsRoute
<1>2. c \in Vertices(D) /\ (c # One => n[1] < c[1]) /\ n \in Vertices(D) /\ n # One /\ n[1] \in Int
  <2>1. e \in MipArcs(D) /\ e[1] = n
    BY <1>1
  <2>2. c \in Vertices(D) /\ (c # One => e[1][1] < c[1])
    <3> HIDE DEF e
    <3> QED BY <2>1, ArcsLeadDown
  <2> HIDE DEF c, e
  <2> QED BY <2>1, <2>2, NodeFacts DEF Vertices
<1>3. ASSUME NEW a \in A PROVE c \in Nodes(D) /\ n[1] < a[1][1] /\ a[1] \in Nodes(D) /\ Target(D, a) # c
  <2>1. c \in Nodes(D) /\ c[1] <= a[1][1] /\ Target(D, a) # c
    BY DEF IsRoute
  <2>2. a[1] \in Nodes(D)
    BY <1>1, ArcsLeadDown
  <2>3. c # One /\ c[1] \in Int /\ a[1][1] \in Int
    <3> HIDE DEF c
    <3> QED BY <2>1, <2>2, NodeFacts
  <2> HIDE DEF c
  <2> QED BY <1>2, <2>1, <2>2, <2>3
<1>4. \A a \in A : a[1] # n /\ Target(D, a) # n
  <2> SUFFICES ASSUME NEW a \in A PROVE a[1] # n /\ Target(D, a) # n
    OBVIOUS
  <2>1. n[1] < a[1][1] /\ a[1] \in Nodes(D) /\ a[1][1] \in Int /\ n[1] \in Int
    BY <1>2, <1>3, NodeFacts
  <2>2. Target(D, a) # One => a[1][1] < Target(D, a)[1]
    BY <1>1, ArcsLeadDown
  <2>3. Target(D, a) # n
    <3> SUFFICES ASSUME Target(D, a) = n PROVE FALSE
      OBVIOUS
    <3> QED BY <1>2, <2>1, <2>2
  <2> QED BY <2>1, <2>3
<1>5. c # n
  <2> HIDE DEF c
  <2> QED BY <1>2
<1> HIDE DEF c, e
<1>6. c = Target(D, e) /\ IsRoute(D, c, A)
  BY DEF c, e
<1>7. B \subseteq MipArcs(D)
  BY <1>1
<1>8. \A x, y \in B : x[1] = y[1] \/ Target(D, x) = Target(D, y) => x = y
  <2>1. \A x, y \in A : x[1] = y[1] \/ Target(D, x) = Target(D, y) => x = y
    BY <1>6 DEF IsRoute
  <2> QED BY <1>1, <1>3, <1>4, <1>6, <2>1
<1>9. ASSUME NEW v \in Nodes(D) \ {n} PROVE (\E a \in B : Target(D, a) = v) <=> (\E a \in B : a[1] = v)
  <2>1. CASE v = c
    <3>1. \E a \in A : a[1] = c
      BY <1>6, <2>1 DEF IsRoute
    <3> QED BY <1>6, <2>1, <3>1
  <2>2. CASE v # c
    <3>1. (\E a \in A : Target(D, a) = v) <=> (\E a \in A : a[1] = v)
      BY <1>6, <2>2 DEF IsRoute
    <3> QED BY <1>1, <1>6, <2>2, <3>1
  <2> QED BY <2>1, <2>2
<1>10. \A a \in B : n \in Nodes(D) /\ n[1] <= a[1][1] /\ Target(D, a) # n
  <2>1. n[1] <= e[1][1] /\ Target(D, e) # n
    BY <1>1, <1>2, <1>5, <1>6
  <2>2. \A a \in A : n[1] <= a[1][1]
    <3> SUFFICES ASSUME NEW a \in A PROVE n[1] <= a[1][1]
      OBVIOUS
    <3>1. n[1] < a[1][1] /\ a[1][1] \in Int
      BY <1>3, NodeFacts
    <3> QED BY <1>2, <3>1
  <2> QED BY <1>4, <2>1, <2>2
<1>11. (\E a \in B : a[1] = n) /\ (\E a \in B : Target(D, a) = One)
  <2>1. c # One => \E a \in A : Target(D, a) = One
    BY <1>2, <1>6 DEF IsRoute, Vertices
  <2> QED BY <1>1, <1>6, <2>1
<1>12. IsRoute(D, n, B)
  <2> HIDE DEF B
  <2> QED BY <1>7, <1>8, <1>9, <1>10, <1>11 DEF IsRoute
<1> QED BY <1>12 DEF e

\* The walk of any column is a route from the root.
LEMMA WalkIsRoute ==
  ASSUME NEW I, IsInstance(I), NEW D, IsDiagram(I, D), NEW p \in Sequences(I)
  PROVE  IsRoute(D, D.root, Walk(I, D, p).arcs)
<1>1. PICK W : IsWalk(I, D, p, W) /\ Walk(I, D, p) = W[D.root][1]
  BY WalkFacts
<1> DEFINE A(n, i) == W[n][i + 1].arcs
           F == {n \in Vertices(D) : \A i \in 0 .. Len(p) : IsRoute(D, n, A(n, i))}
<1>2. Len(p) \in Nat /\ D.root \in Vertices(D) /\ One \in Vertices(D) /\ One \notin Nodes(D) /\ \A n \in Nodes(D) : n \in Vertices(D)
  BY SequenceFacts, NodeFacts DEF Sequences, IsDiagram, Vertices
<1>3. One \in F
  <2>1. \A i \in 0 .. Len(p) : A(One, i) = {}
    BY <1>1, WalkSteps DEF WalkEnds
  <2>2. IsRoute(D, One, {})
    BY <1>2 DEF IsRoute
  <2> HIDE DEF A
  <2> QED BY <1>2, <2>1, <2>2
<1>4. ASSUME NEW n \in Nodes(D), D.lo[n] \in F, D.hi[n] \in F PROVE n \in F
  <2> SUFFICES ASSUME NEW i \in 0 .. Len(p) PROVE IsRoute(D, n, A(n, i))
    BY <1>2
  <2>1. WalksOn(I, D, p, W, n, i)
    BY <1>1, WalkSteps
  <2>2. CASE i # Len(p) /\ p[i + 1] = JobAt(I, n)
    <3>1. i + 1 \in 0 .. Len(p) /\ (i + 1) + 1 = i + 2
      BY <1>2, <2>2
    <3>2. A(n, i) = A(D.hi[n], i + 1) \cup {<<n, TRUE>>}
      BY <2>1, <2>2, <3>1 DEF WalksOn
    <3>3. Target(D, <<n, TRUE>>) = D.hi[n]
      BY DEF Target
    <3> HIDE DEF A
    <3>4. IsRoute(D, Target(D, <<n, TRUE>>), A(D.hi[n], i + 1))
      BY <1>4, <3>1, <3>3
    <3>5. IsRoute(D, n, A(D.hi[n], i + 1) \cup {<<n, TRUE>>})
      BY <3>4, RouteStep
    <3> QED BY <3>2, <3>5
  <2>3. CASE ~(i # Len(p) /\ p[i + 1] = JobAt(I, n))
    <3>1. A(n, i) = A(D.lo[n], i) \cup {<<n, FALSE>>}
      BY <2>1, <2>3 DEF WalksOn
    <3>2. Target(D, <<n, FALSE>>) = D.lo[n]
      BY DEF Target
    <3> HIDE DEF A
    <3>3. IsRoute(D, Target(D, <<n, FALSE>>), A(D.lo[n], i))
      BY <1>4, <3>2
    <3>4. IsRoute(D, n, A(D.lo[n], i) \cup {<<n, FALSE>>})
      BY <3>3, RouteStep
    <3> QED BY <3>1, <3>4
  <2> QED BY <2>2, <2>3
<1>5. \A n \in Vertices(D) : n \in F
  <2> HIDE DEF F
  <2> QED BY <1>3, <1>4, DiagramInduction
<1>6. 0 \in 0 .. Len(p) /\ 0 + 1 = 1
  BY <1>2
<1>7. IsRoute(D, D.root, A(D.root, 0))
  <2> HIDE DEF A
  <2> QED BY <1>2, <1>5, <1>6
<1> QED BY <1>1, <1>6, <1>7

\* A set in which any two elements are equal has at most one.
LEMMA AtMostOne ==
  ASSUME NEW S, \A a, b \in S : a = b
  PROVE  Cardinality(S) = IF S = {} THEN 0 ELSE 1
<1>1. CASE S = {}
  BY <1>1, FS_EmptySet
<1>2. CASE S # {}
  <2>1. PICK a : S = {a}
    BY <1>2
  <2> QED BY <1>2, <2>1, FS_Singleton
<1> QED BY <1>1, <1>2

\* The arcs into and out of a vertex.
Into(D, A, v) == {a \in A : Target(D, a) = v}
OutOf(A, v) == {a \in A : a[1] = v}

\* A route leaves the root, enters the terminal and enters what else it leaves, once.
LEMMA RouteCounts ==
  ASSUME NEW D, D.root \in Nodes(D), One \notin Nodes(D), NEW A, IsRoute(D, D.root, A),
         NEW v \in Nodes(D) \cup {One}
  PROVE  /\ v = D.root => Cardinality(Into(D, A, v)) = 0 /\ Cardinality(OutOf(A, v)) = 1
         /\ v = One => Cardinality(Into(D, A, v)) = 1 /\ Cardinality(OutOf(A, v)) = 0
         /\ v # D.root /\ v # One => Cardinality(Into(D, A, v)) = Cardinality(OutOf(A, v))
<1> DEFINE i == Into(D, A, v)
           o == OutOf(A, v)
<1>1. (\A a, b \in i : a = b) /\ (\A a, b \in o : a = b)
  BY DEF IsRoute, Into, OutOf
<1>2. v = D.root => i = {} /\ o # {}
  BY DEF IsRoute, Into, OutOf
<1>3. v = One => i # {} /\ o = {}
  <2>1. \A a \in A : a[1] \in Nodes(D)
    BY DEF IsRoute, MipArcs
  <2> QED BY <2>1 DEF IsRoute, Into, OutOf
<1>4. v # D.root /\ v # One => (i = {} <=> o = {})
  BY DEF IsRoute, Into, OutOf
<1> HIDE DEF i, o
<1>5. Cardinality(i) = (IF i = {} THEN 0 ELSE 1) /\ Cardinality(o) = (IF o = {} THEN 0 ELSE 1)
  BY <1>1, AtMostOne
<1> QED BY <1>2, <1>3, <1>4, <1>5 DEF i, o

\* A diagram has finitely many arcs.
LEMMA ArcsAreFinite ==
  ASSUME NEW I, IsInstance(I), NEW D, IsDiagram(I, D)
  PROVE  IsFiniteSet(MipArcs(D))
<1>1. IsFiniteSet(BOOLEAN)
  <2>1. BOOLEAN = {TRUE, FALSE}
    OBVIOUS
  <2>2. IsFiniteSet({TRUE}) /\ IsFiniteSet({FALSE}) /\ {TRUE} \cup {FALSE} = {TRUE, FALSE}
    BY FS_Singleton
  <2> QED BY <2>1, <2>2, FS_Union
<1> QED BY <1>1, NodesAreFinite, FS_Product DEF MipArcs

\* h are the numbers of the arcs in A that the columns y take.
Takings(h, I, D, y, A) == \A k \in DOMAIN y : h[k] = Cardinality(A \cap Walk(I, D, y[k]).arcs)

\* The machines' flow over some arcs is what each of them has of these.
LEMMA ProjectedSum ==
  ASSUME NEW I, IsInstance(I), NEW D, IsDiagram(I, D), NEW m \in Nat, NEW y, DOMAIN y = 1 .. m,
         NEW A \in SUBSET MipArcs(D),
         NEW h, Takings(h, I, D, y, A)
  PROVE  SumFunctionOnSet(Projected(I, D, y), A) = SumFunctionOnSet(h, 1 .. m)
<1> DEFINE x == Projected(I, D, y)
           B == 1 .. m
           R == {r \in A \X B : r[1] \in Walk(I, D, y[r[2]]).arcs}
           v == [a \in A |-> 1]
<1>1. IsFiniteSet(A) /\ IsFiniteSet(B)
  BY ArcsAreFinite, FS_Subset, FS_Interval
<1>2. \A a \in A : \A k \in B : <<a, k>> \in R <=> a \in Walk(I, D, y[k]).arcs
  OBVIOUS
<1>3. \A a \in A : v[a] = 1 /\ v[a] \in Int
  OBVIOUS
<1>4. ASSUME NEW a \in A PROVE x[a] = Cardinality(SecondsOf(R, B, a)) * v[a]
  <2>1. x[a] = Cardinality({k \in B : a \in Walk(I, D, y[k]).arcs})
    BY DEF Projected
  <2>2. SecondsOf(R, B, a) = {k \in B : a \in Walk(I, D, y[k]).arcs}
    BY <1>2 DEF SecondsOf
  <2> DEFINE X == SecondsOf(R, B, a)
  <2>3. IsFiniteSet(X)
    BY <1>1, FS_Subset DEF SecondsOf
  <2>4. x[a] = Cardinality(X)
    <3> HIDE DEF x, R, B
    <3> QED BY <2>1, <2>2
  <2> HIDE DEF X, x, v
  <2>5. Cardinality(X) \in Nat
    BY <2>3, FS_CardinalityType
  <2>6. x[a] = Cardinality(X) * v[a]
    BY <1>3, <2>4, <2>5
  <2> QED BY <2>6 DEF X
<1>5. ASSUME NEW k \in B PROVE h[k] = SumFunctionOnSet(v, FirstsOf(R, A, k))
  <2> DEFINE X == FirstsOf(R, A, k)
  <2>1. X = A \cap Walk(I, D, y[k]).arcs
    BY DEF FirstsOf
  <2>2. h[k] = Cardinality(X)
    BY <2>1 DEF Takings
  <2>3. IsFiniteSet(X) /\ \A a \in X : v[a] = 1
    BY <1>1, FS_Subset DEF FirstsOf
  <2> HIDE DEF X, v
  <2>4. SumFunctionOnSet(v, X) = Cardinality(X) * 1 /\ Cardinality(X) \in Nat
    BY <2>3, SumOfConstant, FS_CardinalityType
  <2>5. h[k] = SumFunctionOnSet(v, X)
    BY <2>2, <2>4
  <2> QED BY <2>5 DEF X
<1>6. R \in SUBSET (A \X B)
  OBVIOUS
<1> HIDE DEF R, v, x, B
<1>7. SumFunctionOnSet(x, A) = SumFunctionOnSet(h, B)
  <2>1. ByFirst(x, v, R, A, B)
    BY <1>4 DEF ByFirst
  <2>2. BySecond(h, v, R, A, B)
    BY <1>5 DEF BySecond
  <2> QED BY <1>1, <1>3, <1>6, <2>1, <2>2, SumOfPairs
<1> QED BY <1>7 DEF x, B

\* The first m numbers.
LEMMA MachinesAreFinite ==
  ASSUME NEW m \in Nat
  PROVE  IsFiniteSet(1 .. m) /\ Cardinality(1 .. m) = m
<1>1. IsFiniteSet(1 .. m) /\ Cardinality(1 .. m) = IF 1 > m THEN 0 ELSE m - 1 + 1
  BY FS_Interval
<1> QED BY <1>1

\* What flows into a vertex less what flows out of it is what the model demands.
LEMMA FlowIsConserved ==
  ASSUME NEW I, IsInstance(I), NEW D, IsDiagram(I, D), D.root # One,
         NEW m \in Nat, NEW y \in [1 .. m -> Sequences(I)], NEW v \in Nodes(D) \cup {One}
  PROVE  SumFunctionOnSet(Projected(I, D, y), Into(D, MipArcs(D), v))
           - SumFunctionOnSet(Projected(I, D, y), OutOf(MipArcs(D), v))
           = CASE v = D.root -> -m [] v = One -> m [] OTHER -> 0
<1> DEFINE x == Projected(I, D, y)
           i == [k \in 1 .. m |-> Cardinality(Into(D, Walk(I, D, y[k]).arcs, v))]
           o == [k \in 1 .. m |-> Cardinality(OutOf(Walk(I, D, y[k]).arcs, v))]
           In == SumFunctionOnSet(x, Into(D, MipArcs(D), v))
           Out == SumFunctionOnSet(x, OutOf(MipArcs(D), v))
<1>1. D.root \in Nodes(D) /\ One \notin Nodes(D)
  BY NodeFacts DEF IsDiagram, Vertices
<1>2. ASSUME NEW k \in 1 .. m
      PROVE  /\ i[k] = Cardinality(Into(D, MipArcs(D), v) \cap Walk(I, D, y[k]).arcs)
             /\ o[k] = Cardinality(OutOf(MipArcs(D), v) \cap Walk(I, D, y[k]).arcs)
             /\ v = D.root => i[k] = 0 /\ o[k] = 1
             /\ v = One => i[k] = 1 /\ o[k] = 0
             /\ v # D.root /\ v # One => i[k] = o[k]
             /\ i[k] \in Int /\ o[k] \in Int
  <2> DEFINE A == Walk(I, D, y[k]).arcs
  <2>1. IsRoute(D, D.root, A)
    BY WalkIsRoute
  <2> HIDE DEF A
  <2>2. A \subseteq MipArcs(D)
    BY <2>1 DEF IsRoute
  <2>3. Into(D, MipArcs(D), v) \cap A = Into(D, A, v) /\ OutOf(MipArcs(D), v) \cap A = OutOf(A, v)
    BY <2>2 DEF Into, OutOf
  <2>4. /\ v = D.root => Cardinality(Into(D, A, v)) = 0 /\ Cardinality(OutOf(A, v)) = 1
        /\ v = One => Cardinality(Into(D, A, v)) = 1 /\ Cardinality(OutOf(A, v)) = 0
        /\ v # D.root /\ v # One => Cardinality(Into(D, A, v)) = Cardinality(OutOf(A, v))
    BY <1>1, <2>1, RouteCounts
  <2>5. IsFiniteSet(Into(D, A, v)) /\ IsFiniteSet(OutOf(A, v))
    BY <2>2, ArcsAreFinite, FS_Subset DEF Into, OutOf
  <2>6. i[k] = Cardinality(Into(D, A, v)) /\ o[k] = Cardinality(OutOf(A, v))
    BY DEF A
  <2>7. Cardinality(Into(D, A, v)) \in Nat /\ Cardinality(OutOf(A, v)) \in Nat
    BY <2>5, FS_CardinalityType
  <2> DEFINE ci == Cardinality(Into(D, A, v))
             co == Cardinality(OutOf(A, v))
  <2>8. i[k] = ci /\ o[k] = co /\ ci \in Int /\ co \in Int
    BY <2>6, <2>7
  <2>9. ci = Cardinality(Into(D, MipArcs(D), v) \cap A) /\ co = Cardinality(OutOf(MipArcs(D), v) \cap A)
    BY <2>3
  <2>10. /\ v = D.root => ci = 0 /\ co = 1
         /\ v = One => ci = 1 /\ co = 0
         /\ v # D.root /\ v # One => ci = co
    BY <2>4
  <2> HIDE DEF i, o, ci, co
  <2>11. /\ i[k] = Cardinality(Into(D, MipArcs(D), v) \cap A)
         /\ o[k] = Cardinality(OutOf(MipArcs(D), v) \cap A)
    BY <2>8, <2>9
  <2> QED BY <2>8, <2>10, <2>11 DEF A
<1>3. DOMAIN y = 1 .. m /\ Into(D, MipArcs(D), v) \in SUBSET MipArcs(D) /\ OutOf(MipArcs(D), v) \in SUBSET MipArcs(D)
  BY DEF Into, OutOf
<1> HIDE DEF i, o
<1>4. In = SumFunctionOnSet(i, 1 .. m)
  <2> DEFINE A == Into(D, MipArcs(D), v)
  <2>1. A \in SUBSET MipArcs(D) /\ Takings(i, I, D, y, A)
    BY <1>2, <1>3 DEF Takings
  <2> HIDE DEF A
  <2>2. SumFunctionOnSet(Projected(I, D, y), A) = SumFunctionOnSet(i, 1 .. m)
    BY <1>3, <2>1, ProjectedSum
  <2> QED BY <2>2 DEF A
<1>5. Out = SumFunctionOnSet(o, 1 .. m)
  <2> DEFINE A == OutOf(MipArcs(D), v)
  <2>1. A \in SUBSET MipArcs(D) /\ Takings(o, I, D, y, A)
    BY <1>2, <1>3 DEF Takings
  <2> HIDE DEF A
  <2>2. SumFunctionOnSet(Projected(I, D, y), A) = SumFunctionOnSet(o, 1 .. m)
    BY <1>3, <2>1, ProjectedSum
  <2> QED BY <2>2 DEF A
<1>6. IsFiniteSet(1 .. m) /\ Cardinality(1 .. m) = m
  BY MachinesAreFinite
<1> HIDE DEF In, Out
<1>7. ASSUME NEW w, \A k \in 1 .. m : w[k] = 0 PROVE SumFunctionOnSet(w, 1 .. m) = 0
  <2>1. SumFunctionOnSet(w, 1 .. m) = Cardinality(1 .. m) * 0
    BY <1>6, <1>7, SumOfConstant
  <2> QED BY <1>6, <2>1
<1>8. ASSUME NEW w, \A k \in 1 .. m : w[k] = 1 PROVE SumFunctionOnSet(w, 1 .. m) = m
  <2>1. SumFunctionOnSet(w, 1 .. m) = Cardinality(1 .. m) * 1
    BY <1>6, <1>8, SumOfConstant
  <2> QED BY <1>6, <2>1
<1>9. CASE v = D.root
  <2>1. (\A k \in 1 .. m : i[k] = 0) /\ (\A k \in 1 .. m : o[k] = 1)
    BY <1>2, <1>9
  <2>2. In = 0 /\ Out = m
    BY <1>4, <1>5, <1>7, <1>8, <2>1
  <2>3. In - Out = -m
    BY <2>2
  <2> QED BY <1>1, <1>9, <2>3 DEF In, Out
<1>10. CASE v = One
  <2>1. (\A k \in 1 .. m : i[k] = 1) /\ (\A k \in 1 .. m : o[k] = 0)
    BY <1>2, <1>10
  <2>2. In = m /\ Out = 0
    BY <1>4, <1>5, <1>7, <1>8, <2>1
  <2>3. In - Out = m
    BY <2>2
  <2>4. v # D.root
    BY <1>1, <1>10
  <2> QED BY <1>10, <2>3, <2>4 DEF In, Out
<1>11. CASE v # D.root /\ v # One
  <2>1. SumFunctionOnSet(i, 1 .. m) = SumFunctionOnSet(o, 1 .. m)
    BY <1>2, <1>6, <1>11, SumAgree
  <2>2. SumFunctionOnSet(i, 1 .. m) \in Int
    BY <1>2, <1>6, SumType
  <2>3. In - Out = 0
    BY <1>4, <1>5, <2>1, <2>2
  <2> QED BY <1>11, <2>3 DEF In, Out
<1> QED BY <1>9, <1>10, <1>11

\* A machine of a plan does each of its jobs once.
LEMMA ElementaryCovers ==
  ASSUME NEW I, NEW p \in Sequences(I), IsElementary(p), NEW j
  PROVE  Covers(p, j) = IF j \in JobsOf(p) THEN 1 ELSE 0
<1> DEFINE S == {i \in DOMAIN p : p[i] = j}
<1>1. DOMAIN p = 1 .. Len(p) /\ \A i, k \in 1 .. Len(p) : p[i] = p[k] => i = k
  BY SequenceFacts, ElementaryFacts DEF Sequences
<1>2. \A i, k \in S : i = k
  BY <1>1
<1>3. S = {} <=> j \notin JobsOf(p)
  BY DEF JobsOf
<1>4. Covers(p, j) = Cardinality(S)
  BY DEF Covers
<1> HIDE DEF S
<1> QED BY <1>2, <1>3, <1>4, AtMostOne

JobArcs(I, D, j) == {a \in MipArcs(D) : a[2] /\ JobAt(I, a[1]) = j}

\* A path takes as many 1-arcs of a job as it does the job.
LEMMA CoversAreArcs ==
  ASSUME NEW I, IsInstance(I), NEW D, IsDiagram(I, D), NEW p \in PathsOf(I, D), NEW j
  PROVE  Cardinality(JobArcs(I, D, j) \cap Walk(I, D, p).arcs) = Covers(p, j)
<1> DEFINE N == {n \in Nodes(D) : JobAt(I, n) = j /\ n \in Starts(I, D, p)}
           f == [n \in N |-> <<n, TRUE>>]
           A == Walk(I, D, p).arcs
           X == JobArcs(I, D, j) \cap A
<1>1. IsFiniteSet(N)
  BY NodesAreFinite, FS_Subset
<1>2. \A n, u \in N : f[n] = f[u] => n = u
  OBVIOUS
<1>3. {f[n] : n \in N} = X
  <2>1. ASSUME NEW n \in N PROVE f[n] \in X
    <3>1. <<n, TRUE>> \in A /\ JobAt(I, n) = j /\ n \in Nodes(D)
      BY DEF Starts
    <3>2. f[n] = <<n, TRUE>>
      OBVIOUS
    <3> DEFINE a == <<n, TRUE>>
    <3>3. a \in MipArcs(D) /\ a[1] = n /\ a[2] = TRUE
      BY DEF MipArcs
    <3>4. f[n] = a /\ a \in A
      BY <3>1, <3>2
    <3> HIDE DEF f, A, a
    <3> QED BY <3>1, <3>3, <3>4 DEF JobArcs
  <2>2. ASSUME NEW a \in X PROVE a \in {f[n] : n \in N}
    <3>1. PICK n \in Nodes(D), b \in BOOLEAN : a = <<n, b>>
      BY DEF JobArcs, MipArcs
    <3>2. b = TRUE /\ JobAt(I, n) = j /\ a \in A
      BY <3>1 DEF JobArcs
    <3>3. a = <<n, TRUE>>
      BY <3>1, <3>2
    <3>4. n \in N
      BY <3>2, <3>3 DEF Starts
    <3> QED BY <3>3, <3>4
  <2> HIDE DEF f, X, N
  <2> QED BY <2>1, <2>2
<1>4. Covers(p, j) = Cardinality(N)
  BY CoversAreStarts
<1> HIDE DEF N, f, X
<1>5. Cardinality(X) = Cardinality(N)
  BY <1>1, <1>2, <1>3, CardinalityOfImage
<1> QED BY <1>4, <1>5 DEF X

\* The machines of a plan that are paths take one 1-arc of each job.
LEMMA JobIsStartedOnce ==
  ASSUME NEW I, IsInstance(I), NEW D, IsDiagram(I, D), NEW y, IsPlan(I, y),
         \A k \in 1 .. I.m : y[k] \in PathsOf(I, D), NEW j \in DOMAIN I.jobs
  PROVE  SumFunctionOnSet(Projected(I, D, y), JobArcs(I, D, j)) = 1
<1> DEFINE m == I.m
           h == [k \in 1 .. m |-> Covers(y[k], j)]
<1>1. m \in Nat /\ DOMAIN y = 1 .. m /\ IsFiniteSet(1 .. m)
  <2>1. I.m \in Nat /\ DOMAIN y = 1 .. I.m
    BY DEF IsInstance, IsPlan
  <2> QED BY <2>1, MachinesAreFinite
<1>2. \A k \in 1 .. m : h[k] = IF j \in JobsOf(y[k]) THEN 1 ELSE 0
  BY ElementaryCovers DEF IsPlan
<1>3. PICK k0 \in 1 .. m : j \in JobsOf(y[k0]) /\ \A k \in 1 .. m : k # k0 => j \notin JobsOf(y[k])
  <2>1. j \in UNION {JobsOf(y[k]) : k \in 1 .. m}
    BY DEF IsPlan
  <2>2. \A k, l \in 1 .. m : k # l => JobsOf(y[k]) \cap JobsOf(y[l]) = {}
    BY DEF IsPlan
  <2> HIDE DEF m
  <2> QED BY <2>1, <2>2
<1>4. Takings(h, I, D, y, JobArcs(I, D, j))
  BY <1>1, CoversAreArcs DEF Takings
<1>5. JobArcs(I, D, j) \in SUBSET MipArcs(D)
  BY DEF JobArcs
<1> HIDE DEF h, m
<1>6. SumFunctionOnSet(Projected(I, D, y), JobArcs(I, D, j)) = SumFunctionOnSet(h, 1 .. m)
  BY <1>1, <1>4, <1>5, ProjectedSum
<1>7. (\A k \in 1 .. m : h[k] \in Int) /\ h[k0] = 1 /\ \A k \in (1 .. m) \ {k0} : h[k] = 0
  BY <1>2, <1>3
<1>8. SumFunctionOnSet(h, 1 .. m) = SumFunctionOnSet(h, {k0})
  BY <1>1, <1>3, <1>7, ZerosAddNothing
<1>9. SumFunctionOnSet(h, {k0}) = 1
  BY <1>7, SumOfOne
<1> QED BY <1>6, <1>8, <1>9

\* No arc is taken by more machines than there are, and a 1-arc only by the one that has
\* the job.
LEMMA ArcCapacity ==
  ASSUME NEW I, IsInstance(I), NEW D, IsDiagram(I, D), NEW y, IsPlan(I, y), NEW a \in MipArcs(D)
  PROVE  Projected(I, D, y)[a] \in 0 .. (IF a[2] THEN 1 ELSE I.m)
<1> DEFINE m == I.m
           K == {k \in 1 .. m : a \in Walk(I, D, y[k]).arcs}
<1>1. m \in Nat \ {0} /\ DOMAIN y = 1 .. m
  BY DEF IsInstance, IsPlan
<1>2. Projected(I, D, y)[a] = Cardinality(K)
  BY <1>1 DEF Projected
<1>3. IsFiniteSet(1 .. m) /\ Cardinality(1 .. m) = m
  BY <1>1, MachinesAreFinite
<1>4. Cardinality(K) \in Nat /\ Cardinality(K) <= m
  <2> HIDE DEF m
  <2>1. IsFiniteSet(K) /\ Cardinality(K) <= Cardinality(1 .. m)
    BY <1>3, FS_Subset
  <2> QED BY <1>3, <2>1, FS_CardinalityType
<1>5. CASE a[2]
  <2>1. ASSUME NEW k \in K PROVE JobAt(I, a[1]) \in JobsOf(y[k])
    <3>1. a = <<a[1], TRUE>> /\ a[1] \in Nodes(D)
      <4>1. PICK n \in Nodes(D), b \in BOOLEAN : a = <<n, b>>
        BY DEF MipArcs
      <4>2. b = TRUE /\ a[1] = n
        BY <1>5, <4>1
      <4> QED BY <4>1, <4>2
    <3>2. a[1] \in Starts(I, D, y[k])
      BY <3>1 DEF Starts
    <3>3. y[k] \in Sequences(I)
      BY DEF IsPlan
    <3>4. PICK i \in 1 .. Len(y[k]) : RunsAt(I, y[k], a[1], i)
      BY <3>2, <3>3, StartIsRun
    <3>5. DOMAIN y[k] = 1 .. Len(y[k])
      BY <3>3, SequenceFacts DEF Sequences
    <3> QED BY <3>4, <3>5 DEF RunsAt, JobsOf
  <2>2. \A k, l \in K : k = l
    <3>1. \A k, l \in 1 .. m : k # l => JobsOf(y[k]) \cap JobsOf(y[l]) = {}
      BY DEF IsPlan
    <3> QED BY <2>1, <3>1
  <2> HIDE DEF K
  <2>3. Cardinality(K) \in 0 .. 1
    BY <2>2, AtMostOne
  <2> QED BY <1>2, <1>5, <2>3
<1>6. CASE ~a[2]
  <2> HIDE DEF K, m
  <2>1. Cardinality(K) \in 0 .. m
    BY <1>1, <1>4
  <2> QED BY <1>2, <1>6, <2>1 DEF m
<1> QED BY <1>5, <1>6

\* A plan whose machines are paths is a solution of the model.
LEMMA PlanIsAccepted ==
  ASSUME NEW I, IsInstance(I), NEW D, IsDiagram(I, D), NEW y, IsPlan(I, y),
         \A k \in 1 .. I.m : y[k] \in PathsOf(I, D)
  PROVE  MipAccepts(I, D, Projected(I, D, y))
<1> DEFINE x == Projected(I, D, y)
           m == I.m
           sum(A) == MapThenSumSet(LAMBDA a : x[a], A)
           gain(v) == sum({a \in MipArcs(D) : Target(D, a) = v}) - sum({a \in MipArcs(D) : a[1] = v})
<1>1. \A a \in MipArcs(D) : x[a] \in 0 .. (IF a[2] THEN 1 ELSE m)
  BY ArcCapacity
<1>2. ASSUME NEW A PROVE sum(A) = SumFunctionOnSet(x, A)
  <2> HIDE DEF x
  <2> QED BY SumIsSum
<1>3. ASSUME NEW j \in DOMAIN I.jobs PROVE sum({a \in MipArcs(D) : a[2] /\ JobAt(I, a[1]) = j}) = 1
  <2> DEFINE A == {a \in MipArcs(D) : a[2] /\ JobAt(I, a[1]) = j}
  <2>1. A = JobArcs(I, D, j)
    BY DEF JobArcs
  <2>2. SumFunctionOnSet(x, JobArcs(I, D, j)) = 1
    BY JobIsStartedOnce
  <2> HIDE DEF A, sum
  <2>3. sum(A) = 1
    BY <1>2, <2>1, <2>2
  <2> QED BY <2>3 DEF A
<1>4. D.root # One /\ m \in Nat /\ y \in [1 .. m -> Sequences(I)]
  <2>1. I.m \in Nat /\ y \in [1 .. I.m -> Sequences(I)]
    BY DEF IsInstance, IsPlan
  <2>2. PICK j : j \in DOMAIN I.jobs
    <3>1. 1 \in DOMAIN I.layers
      BY InstanceFacts
    <3> QED BY <3>1, InstanceFacts
  <2>3. JobArcs(I, D, j) # {}
    <3> SUFFICES ASSUME JobArcs(I, D, j) = {} PROVE FALSE
      OBVIOUS
    <3>1. SumFunctionOnSet(Projected(I, D, y), {}) = 1
      BY <2>2, JobIsStartedOnce
    <3> QED BY <3>1, SumOfNone
  <2>4. PICK a \in MipArcs(D) : TRUE
    BY <2>3 DEF JobArcs
  <2>5. a[1] \in Nodes(D)
    BY <2>4 DEF MipArcs
  <2> QED BY <2>1, <2>5 DEF IsDiagram
<1>5. ASSUME NEW v \in Nodes(D) \cup {One}
      PROVE  gain(v) = CASE v = D.root -> -m [] v = One -> m [] OTHER -> 0
  <2> DEFINE A == {a \in MipArcs(D) : Target(D, a) = v}
             B == {a \in MipArcs(D) : a[1] = v}
  <2>1. SumFunctionOnSet(x, Into(D, MipArcs(D), v)) - SumFunctionOnSet(x, OutOf(MipArcs(D), v))
          = CASE v = D.root -> -m [] v = One -> m [] OTHER -> 0
    <3> HIDE DEF m
    <3> QED BY <1>4, FlowIsConserved
  <2>2. A = Into(D, MipArcs(D), v) /\ B = OutOf(MipArcs(D), v)
    BY DEF Into, OutOf
  <2>3. gain(v) = sum(A) - sum(B)
    OBVIOUS
  <2> HIDE DEF A, B, sum, gain, x
  <2> QED BY <1>2, <2>1, <2>2, <2>3
<1>6. MipAccepts(I, D, x)
  <2> HIDE DEF x
  <2> QED BY <1>1, <1>3, <1>5 DEF MipAccepts
<1> QED BY <1>6

\* What a path's jobs cost, one after the other, is what it costs.
LEMMA CostAddsUp ==
  ASSUME NEW I, IsInstance(I), NEW p \in Sequences(I), NEW w, \A k \in 1 .. Len(p) : w[k] = CostAt(I, p, k)
  PROVE  SumFunctionOnSet(w, 1 .. Len(p)) = SequenceCost(I.jobs, p)
<1> DEFINE n == Len(p)
<1>1. PICK C : IsCostUpTo(I, p, C) /\ SequenceCost(I.jobs, p) = C[n]
  BY CostFacts
<1> DEFINE G == {i \in 0 .. n : SumFunctionOnSet(w, 1 .. i) = C[i]}
<1>2. n \in Nat /\ \A k \in 1 .. n : w[k] \in Int
  <2>1. Len(p) \in Nat
    BY SequenceFacts DEF Sequences
  <2> QED BY <2>1, CostType
<1>3. C[0] = 0 /\ \A i \in 1 .. n : C[i] = w[i] + C[i - 1]
  <2>1. C[0] = 0 /\ \A i \in 1 .. n : C[i] = C[i - 1] + w[i]
    BY <1>1 DEF IsCostUpTo
  <2>2. \A i \in 1 .. n : i - 1 \in 0 .. n
    BY <1>2
  <2>3. \A i \in 0 .. n : C[i] \in Int
    BY <1>1 DEF IsCostUpTo
  <2> HIDE DEF n
  <2> QED BY <1>2, <2>1, <2>2, <2>3
<1> HIDE DEF n
<1>4. 0 \in G
  <2>1. 1 .. 0 = {}
    OBVIOUS
  <2> QED BY <1>2, <1>3, <2>1, SumOfNone
<1>5. ASSUME NEW i \in 1 .. n, i - 1 \in G PROVE i \in G
  <2> DEFINE S == 1 .. i
  <2>1. i \in 0 .. n /\ i \in S /\ S \ {i} = 1 .. i - 1 /\ \A k \in S : k \in 1 .. n
    BY <1>2
  <2>2. IsFiniteSet(S)
    BY <1>2, FS_Interval
  <2>3. \A k \in S : w[k] \in Int
    BY <1>2, <2>1
  <2> HIDE DEF S
  <2>4. SumFunctionOnSet(w, S) = w[i] + SumFunctionOnSet(w, 1 .. i - 1)
    BY <2>1, <2>2, <2>3, SumRemove
  <2>5. SumFunctionOnSet(w, 1 .. i - 1) = C[i - 1]
    BY <1>5
  <2> QED BY <1>3, <2>1, <2>4, <2>5 DEF S
<1> HIDE DEF G
<1>6. \A i \in 0 .. n : i \in G
  BY <1>2, <1>4, <1>5, IntervalInduction
<1>7. n \in G
  BY <1>2, <1>6
<1> QED BY <1>1, <1>7 DEF G, n

\* What running a node's job there costs.
NodeCost(I, D) == [n \in Nodes(D) |-> WeightedTardinessStart(I.jobs[JobAt(I, n)], n[2])]

\* What a node's job costs there is an integer.
LEMMA NodeCostType ==
  ASSUME NEW I, IsInstance(I), NEW D, IsDiagram(I, D)
  PROVE  \A n \in Nodes(D) : NodeCost(I, D)[n] \in Int
<1> SUFFICES ASSUME NEW n \in Nodes(D) PROVE NodeCost(I, D)[n] \in Int
  OBVIOUS
<1>1. JobAt(I, n) \in DOMAIN I.jobs /\ n[2] \in Nat
  BY NodeFacts
<1> DEFINE job == I.jobs[JobAt(I, n)]
<1>2. job.p \in Nat /\ job.d \in Nat /\ job.w \in Nat
  BY <1>1, InstanceFacts
<1> DEFINE a == job.p
           b == job.d
           c == job.w
           t == n[2]
           late == Late(t + a, b)
<1>3. NodeCost(I, D)[n] = c * late
  BY DEF NodeCost, WeightedTardinessStart
<1>4. a \in Nat /\ b \in Nat /\ c \in Nat /\ t \in Nat
  BY <1>1, <1>2
<1> HIDE DEF a, b, c, t
<1>5. late \in Int
  BY <1>4 DEF Late
<1> HIDE DEF late
<1>6. c * late \in Int
  BY <1>4, <1>5
<1> QED BY <1>3, <1>6

\* The nodes at which a path's jobs are started cost what it costs.
LEMMA StartsCost ==
  ASSUME NEW I, IsInstance(I), NEW D, IsDiagram(I, D), NEW p \in PathsOf(I, D)
  PROVE  SumFunctionOnSet(NodeCost(I, D), Starts(I, D, p)) = SequenceCost(I.jobs, p)
<1> DEFINE v == NodeCost(I, D)
<1>1. PICK f : IsStart(I, D, p, f)
  BY PathStarts
<1>2. p \in Sequences(I) /\ Len(p) \in Nat
  BY PathIsShort, SequenceFacts DEF Sequences
<1> DEFINE w == [k \in 1 .. Len(p) |-> CostAt(I, p, k)]
<1>3. ASSUME NEW k \in 1 .. Len(p) PROVE w[k] = v[f[k]] /\ v[f[k]] \in Int
  <2> DEFINE n == f[k]
  <2>1. n \in Nodes(D) /\ p[k] = JobAt(I, n) /\ EndOf(I, p, k) = n[2] + Length(I, n)
    BY <1>1 DEF IsStart, RunsAt
  <2> HIDE DEF n
  <2>2. CostAt(I, p, k) = WeightedTardinessStart(I.jobs[JobAt(I, n)], n[2])
    BY <2>1 DEF CostAt, WeightedTardiness, WeightedTardinessStart, Length
  <2>3. v[n] = WeightedTardinessStart(I.jobs[JobAt(I, n)], n[2])
    BY <2>1 DEF NodeCost
  <2>4. v[n] \in Int
    BY <2>1, NodeCostType
  <2>5. w[k] = CostAt(I, p, k)
    OBVIOUS
  <2> HIDE DEF v, w
  <2> QED BY <2>2, <2>3, <2>4, <2>5 DEF n
<1>4. \A k \in 1 .. Len(p) : w[k] = CostAt(I, p, k)
  OBVIOUS
<1> HIDE DEF v, w
<1>5. SumFunctionOnSet(w, 1 .. Len(p)) = SequenceCost(I.jobs, p)
  BY <1>2, <1>4, CostAddsUp
<1>6. \A k, l \in 1 .. Len(p) : f[k] = f[l] => k = l
  BY <1>1 DEF IsStart
<1>7. IsFiniteSet(1 .. Len(p))
  BY <1>2, FS_Interval
<1>8. SumFunctionOnSet(w, 1 .. Len(p)) = SumFunctionOnSet(v, {f[k] : k \in 1 .. Len(p)})
  <2> DEFINE K == 1 .. Len(p)
  <2>1. \A k \in K : v[f[k]] \in Int
    BY <1>3
  <2>2. \A k \in K : w[k] = v[f[k]]
    BY <1>3
  <2>3. IsFiniteSet(K) /\ \A k, l \in K : f[k] = f[l] => k = l
    BY <1>6, <1>7
  <2> HIDE DEF K
  <2>4. SumFunctionOnSet(w, K) = SumFunctionOnSet(v, {f[k] : k \in K})
    BY <2>1, <2>2, <2>3, SumOfImage
  <2> QED BY <2>4 DEF K
<1>9. Starts(I, D, p) = {f[k] : k \in 1 .. Len(p)}
  BY <1>1 DEF IsStart
<1> QED BY <1>5, <1>8, <1>9 DEF v

\* h is what the flow x makes each node add to the model's objective.
IsShare(h, I, D, x) ==
  \A n \in Nodes(D) : /\ h[n] \in Int
                       /\ h[n] = x[<<n, TRUE>>] * WeightedTardinessStart(I.jobs[JobAt(I, n)], n[2])

\* The objective is the sum over it.
LEMMA MipCostIsSum ==
  ASSUME NEW I, NEW D, IsFiniteSet(Nodes(D)), NEW x,
         NEW h, IsShare(h, I, D, x)
  PROVE  MipCost(I, D, x) = SumFunctionOnSet(h, Nodes(D))
<1> DEFINE S == Nodes(D)
           e(n) == x[<<n, TRUE>>] * WeightedTardinessStart(I.jobs[JobAt(I, n)], n[2])
           IsCost(f) == f = [T \in SUBSET S |-> IF T = {} THEN 0
                              ELSE e(CHOOSE n \in T : TRUE) + f[T \ {CHOOSE n \in T : TRUE}]]
           iter == CHOOSE f : IsCost(f)
<1>1. PICK f : IsSum(f, h, S) /\ SumFunctionOnSet(h, S) = f[S]
  <2>1. \A n \in S : h[n] \in Int
    BY DEF IsShare
  <2> HIDE DEF S
  <2>2. IsFiniteSet(S)
    BY DEF S
  <2> QED BY <2>1, <2>2, SumOnSetIsSum
<1>2. ASSUME NEW T \in SUBSET S, T # {} PROVE h[CHOOSE n \in T : TRUE] = e(CHOOSE n \in T : TRUE)
  <2>1. (CHOOSE n \in T : TRUE) \in S
    BY <1>2
  <2> DEFINE n == CHOOSE n \in T : TRUE
  <2> HIDE DEF n
  <2>2. n \in S
    BY <2>1 DEF n
  <2>3. h[n] = e(n)
    BY <2>2 DEF IsShare
  <2> QED BY <2>3 DEF n
<1>3. MipCost(I, D, x) = iter[S]
  BY DEF MipCost, MapThenSumSet, MapThenFoldSet
<1> HIDE DEF e
<1>4. IsCost(f)
  <2> HIDE DEF S
  <2> QED BY <1>1, <1>2 DEF IsSum
<1>5. IsCost(iter)
  BY <1>4
<1>6. IsSum(iter, h, S)
  <2> HIDE DEF S, iter
  <2> QED BY <1>2, <1>5 DEF IsSum
<1> HIDE DEF iter
<1>7. iter[S] = f[S]
  <2>1. \A n \in S : h[n] \in Int
    BY DEF IsShare
  <2> HIDE DEF S
  <2>2. IsFiniteSet(S)
    BY DEF S
  <2> QED BY <1>1, <1>6, <2>1, <2>2, SumsAgree
<1> QED BY <1>1, <1>3, <1>7

\* Paths have their cost by the model's objective.
LEMMA PathsArePriced ==
  ASSUME NEW I, IsInstance(I), NEW D, IsDiagram(I, D), NEW m \in Nat, NEW y \in [1 .. m -> PathsOf(I, D)],
         NEW c, \A k \in 1 .. m : c[k] = SequenceCost(I.jobs, y[k])
  PROVE  MipCost(I, D, Projected(I, D, y)) = SumFunctionOnSet(c, 1 .. m)
<1> DEFINE x == Projected(I, D, y)
           A == Nodes(D)
           B == 1 .. m
           R == {r \in A \X B : r[1] \in Starts(I, D, y[r[2]])}
           v == NodeCost(I, D)
           w == [n \in A |-> x[<<n, TRUE>>] * v[n]]
           h == c
<1>1. m \in Nat /\ DOMAIN y = B /\ IsFiniteSet(B) /\ IsFiniteSet(A)
  <2>1. IsFiniteSet(1 .. m)
    BY FS_Interval
  <2> QED BY <2>1, NodesAreFinite
<1>2. \A n \in A : v[n] \in Int /\ v[n] = WeightedTardinessStart(I.jobs[JobAt(I, n)], n[2])
  BY NodeCostType DEF NodeCost
<1>3. ASSUME NEW n \in A
      PROVE  /\ w[n] = Cardinality(SecondsOf(R, B, n)) * v[n] /\ w[n] \in Int
             /\ w[n] = x[<<n, TRUE>>] * WeightedTardinessStart(I.jobs[JobAt(I, n)], n[2])
  <2> DEFINE X == SecondsOf(R, B, n)
             a == <<n, TRUE>>
  <2>1. a \in MipArcs(D)
    BY DEF MipArcs
  <2>2. X = {k \in DOMAIN y : a \in Walk(I, D, y[k]).arcs}
    <3>1. \A k \in B : <<n, k>> \in R <=> n \in Starts(I, D, y[k])
      OBVIOUS
    <3>2. \A k \in B : n \in Starts(I, D, y[k]) <=> a \in Walk(I, D, y[k]).arcs
      BY DEF Starts
    <3> HIDE DEF R, a, A, B
    <3> QED BY <1>1, <3>1, <3>2 DEF SecondsOf
  <2>3. x[a] = Cardinality(X)
    <3>1. x[a] = Cardinality({k \in DOMAIN y : a \in Walk(I, D, y[k]).arcs})
      BY <2>1 DEF Projected
    <3> HIDE DEF x, X, a
    <3> QED BY <2>2, <3>1
  <2>4. IsFiniteSet(X)
    BY <1>1, FS_Subset DEF SecondsOf
  <2>5. w[n] = x[a] * v[n]
    OBVIOUS
  <2> HIDE DEF X, a, v, w, x, A
  <2>6. Cardinality(X) \in Nat
    BY <2>4, FS_CardinalityType
  <2>7. Cardinality(X) * v[n] \in Int
    BY <1>2, <2>6
  <2>8. w[n] = Cardinality(X) * v[n] /\ w[n] = x[a] * WeightedTardinessStart(I.jobs[JobAt(I, n)], n[2])
    BY <1>2, <2>3, <2>5
  <2> QED BY <2>7, <2>8 DEF X, a
<1>4. ASSUME NEW k \in B PROVE h[k] = SumFunctionOnSet(v, FirstsOf(R, A, k))
  <2>1. FirstsOf(R, A, k) = Starts(I, D, y[k])
    <3>1. \A n \in A : <<n, k>> \in R <=> n \in Starts(I, D, y[k])
      OBVIOUS
    <3>2. Starts(I, D, y[k]) \subseteq A
      BY DEF Starts
    <3> HIDE DEF R, A, B
    <3> QED BY <3>1, <3>2 DEF FirstsOf
  <2>2. SumFunctionOnSet(v, Starts(I, D, y[k])) = SequenceCost(I.jobs, y[k])
    BY StartsCost
  <2>3. h[k] = SequenceCost(I.jobs, y[k])
    OBVIOUS
  <2> HIDE DEF h, v, R, A
  <2> QED BY <2>1, <2>2, <2>3
<1>5. R \in SUBSET (A \X B)
  OBVIOUS
<1> HIDE DEF R, v, w, h, x, A, B
<1>7. SumFunctionOnSet(w, A) = SumFunctionOnSet(h, B)
  <2>1. ByFirst(w, v, R, A, B)
    BY <1>3 DEF ByFirst
  <2>2. BySecond(h, v, R, A, B)
    BY <1>4 DEF BySecond
  <2> QED BY <1>1, <1>2, <1>5, <2>1, <2>2, SumOfPairs
<1>8. MipCost(I, D, x) = SumFunctionOnSet(w, A)
  <2>1. IsShare(w, I, D, x)
    BY <1>3 DEF A, IsShare
  <2>2. IsFiniteSet(Nodes(D))
    BY NodesAreFinite
  <2>3. MipCost(I, D, x) = SumFunctionOnSet(w, Nodes(D))
    BY <2>1, <2>2, MipCostIsSum
  <2> QED BY <2>3 DEF A
<1> QED BY <1>7, <1>8 DEF x, h, B

\* A plan whose machines are paths has its cost by the model's objective.
LEMMA PlanIsPriced ==
  ASSUME NEW I, IsInstance(I), NEW D, IsDiagram(I, D), NEW y, IsPlan(I, y),
         \A k \in 1 .. I.m : y[k] \in PathsOf(I, D)
  PROVE  MipCost(I, D, Projected(I, D, y)) = Planned(I, y).cost
<1> DEFINE h == [k \in 1 .. I.m |-> SequenceCost(I.jobs, y[k])]
<1>1. I.m \in Nat /\ y \in [1 .. I.m -> PathsOf(I, D)]
  BY DEF IsInstance, IsPlan
<1>2. \A k \in 1 .. I.m : h[k] = SequenceCost(I.jobs, y[k])
  OBVIOUS
<1>3. Planned(I, y).cost = SumFunctionOnSet(h, 1 .. I.m)
  BY DEF Planned, SumFunction
<1> HIDE DEF h
<1> QED BY <1>1, <1>2, <1>3, PathsArePriced

\* The machines that have something to do, each of which has a path of its own.
Working(I, x) == {k \in 1 .. I.m : x[k] # <<>>}

\* The paths of a plan are what its machines do.
LEMMA PlanPaths ==
  ASSUME NEW I, IsInstance(I), NEW x, IsPlan(I, x)
  PROVE  /\ Planned(I, x).paths = {x[k] : k \in Working(I, x)}
         /\ \A k, l \in Working(I, x) : x[k] = x[l] => k = l
<1> DEFINE P == Planned(I, x).paths
           K == Working(I, x)
<1>1. P = {x[k] : k \in K}
  <2>1. P = {x[k] : k \in 1 .. I.m} \ {<<>>}
    BY DEF Planned
  <2> HIDE DEF P
  <2> QED BY <2>1 DEF Working
<1>2. ASSUME NEW k \in K, NEW l \in K, x[k] = x[l], k # l PROVE FALSE
  <2>1. k \in 1 .. I.m /\ l \in 1 .. I.m /\ x[k] # <<>>
    BY DEF Working
  <2>2. JobsOf(x[k]) \cap JobsOf(x[l]) = {} /\ x[k] \in Sequences(I)
    BY <1>2, <2>1 DEF IsPlan
  <2>3. JobsOf(x[k]) = {}
    BY <1>2, <2>2
  <2>4. DOMAIN x[k] = 1 .. Len(x[k]) /\ Len(x[k]) \in Nat \ {0}
    BY <2>1, <2>2 DEF Sequences
  <2>5. 1 \in DOMAIN x[k]
    BY <2>4
  <2> QED BY <2>3, <2>5 DEF JobsOf
<1> QED BY <1>1, <1>2

\* The cost of a plan is that of its paths, whatever their order.
LEMMA PlanCost ==
  ASSUME NEW I, IsInstance(I), NEW x, IsPlan(I, x),
         NEW c, \A p \in Planned(I, x).paths : c[p] = SequenceCost(I.jobs, p) /\ c[p] \in Int
  PROVE  Planned(I, x).cost = SumFunctionOnSet(c, Planned(I, x).paths)
<1> DEFINE m == I.m
           P == Planned(I, x).paths
           K == {k \in 1 .. m : x[k] # <<>>}
           v == [k \in 1 .. m |-> SequenceCost(I.jobs, x[k])]
<1>1. m \in Nat /\ IsFiniteSet(1 .. m) /\ \A k \in 1 .. m : x[k] \in Sequences(I)
  <2>1. I.m \in Nat
    BY DEF IsInstance
  <2>2. IsFiniteSet(1 .. m)
    BY <2>1, MachinesAreFinite
  <2> QED BY <2>1, <2>2 DEF IsPlan
<1>2. P = {x[k] : k \in K} /\ Planned(I, x).cost = SumFunctionOnSet(v, 1 .. m)
  BY PlanPaths DEF Planned, SumFunction, Working
<1>3. \A k, l \in K : x[k] = x[l] => k = l
  BY PlanPaths DEF Working
<1>4. ASSUME NEW k \in 1 .. m PROVE v[k] \in Int /\ (x[k] = <<>> => v[k] = 0)
  <2>1. PICK C : IsCostUpTo(I, x[k], C) /\ SequenceCost(I.jobs, x[k]) = C[Len(x[k])]
    BY <1>1, CostFacts
  <2>2. Len(x[k]) \in Nat /\ (x[k] = <<>> => Len(x[k]) = 0)
    BY <1>1, SequenceFacts DEF Sequences
  <2>3. C[Len(x[k])] \in Int /\ C[0] = 0
    <3>1. Len(x[k]) \in 0 .. Len(x[k])
      BY <2>2
    <3> QED BY <2>1, <3>1 DEF IsCostUpTo
  <2>4. v[k] = SequenceCost(I.jobs, x[k])
    OBVIOUS
  <2> HIDE DEF v
  <2> QED BY <2>1, <2>2, <2>3, <2>4
<1>5. \A k \in K : k \in 1 .. m /\ v[k] = SequenceCost(I.jobs, x[k])
  OBVIOUS
<1>6. K \in SUBSET (1 .. m) /\ (\A k \in (1 .. m) \ K : v[k] = 0) /\ (\A k \in 1 .. m : v[k] \in Int)
  BY <1>4
<1> HIDE DEF v, K, P, m
<1>7. SumFunctionOnSet(v, 1 .. m) = SumFunctionOnSet(v, K)
  BY <1>1, <1>6, ZerosAddNothing
<1>8. SumFunctionOnSet(v, K) = SumFunctionOnSet(c, {x[k] : k \in K})
  <2>1. IsFiniteSet(K)
    BY <1>1, <1>6, FS_Subset
  <2>2. \A k \in K : x[k] \in P
    BY <1>2
  <2>3. \A k \in K : c[x[k]] = SequenceCost(I.jobs, x[k]) /\ c[x[k]] \in Int
    BY <2>2 DEF P
  <2>4. (\A k \in K : c[x[k]] \in Int) /\ (\A k \in K : v[k] = c[x[k]])
    BY <1>5, <2>3
  <2> QED BY <1>3, <2>1, <2>4, SumOfImage
<1> QED BY <1>2, <1>7, <1>8 DEF P

\* Idle machines have an empty sequence.
LEMMA EmptyFacts ==
  ASSUME NEW I
  PROVE  <<>> \in Sequences(I) /\ IsElementary(<<>>) /\ JobsOf(<<>>) = {}
<1>1. <<>> \in Sequences(I)
  BY DEF Sequences
<1>2. JobsOf(<<>>) = {} /\ Len(<<>>) = 0
  BY DEF JobsOf
<1>3. Cardinality({}) = 0
  BY FS_EmptySet
<1> QED BY <1>1, <1>2, <1>3 DEF IsElementary

\* y gives each path in P a machine of its own, and the other machines nothing.
Assigns(y, m, P) ==
  /\ y \in [1 .. m -> P \cup {<<>>}]
  /\ \A p \in P : \E k \in 1 .. m : y[k] = p
  /\ \A k, l \in 1 .. m : y[k] = y[l] /\ y[k] # <<>> => k = l

\* A plan's paths on other machines are a plan, at the same cost.
LEMMA PlanReordered ==
  ASSUME NEW I, IsInstance(I), NEW x, IsPlan(I, x), NEW y, Assigns(y, I.m, Planned(I, x).paths)
  PROVE  IsPlan(I, y) /\ Planned(I, y) = Planned(I, x)
<1> DEFINE m == I.m
           P == Planned(I, x).paths
<1>1. P = {x[k] : k \in Working(I, x)} /\ \A k, l \in Working(I, x) : x[k] = x[l] => k = l
  BY PlanPaths
<1>2. \A k \in Working(I, x) : k \in 1 .. m /\ x[k] # <<>>
  BY DEF Working
<1>3. /\ \A k \in 1 .. m : x[k] \in Sequences(I) /\ IsElementary(x[k]) /\ (x[k] # <<>> => Heavy(I, x[k]))
      /\ UNION {JobsOf(x[k]) : k \in 1 .. m} = DOMAIN I.jobs
      /\ \A k, l \in 1 .. m : k # l => JobsOf(x[k]) \cap JobsOf(x[l]) = {}
  BY DEF IsPlan
<1>4. /\ y \in [1 .. m -> P \cup {<<>>}] /\ \A p \in P : \E k \in 1 .. m : y[k] = p
      /\ \A k, l \in 1 .. m : y[k] = y[l] /\ y[k] # <<>> => k = l
  BY DEF Assigns
<1> HIDE DEF P, m
<1>5. \A p \in P : p # <<>> /\ p \in Sequences(I) /\ IsElementary(p) /\ Heavy(I, p)
  BY <1>1, <1>2, <1>3
<1>6. \A p, q \in P : p # q => JobsOf(p) \cap JobsOf(q) = {}
  <2> SUFFICES ASSUME NEW p \in P, NEW q \in P, p # q PROVE JobsOf(p) \cap JobsOf(q) = {}
    OBVIOUS
  <2>1. PICK k \in Working(I, x) : p = x[k]
    BY <1>1
  <2>2. PICK l \in Working(I, x) : q = x[l]
    BY <1>1
  <2>3. k # l /\ k \in 1 .. m /\ l \in 1 .. m
    BY <1>2, <2>1, <2>2
  <2> QED BY <1>3, <2>1, <2>2, <2>3
<1>7. UNION {JobsOf(p) : p \in P} = DOMAIN I.jobs
  <2>1. ASSUME NEW j \in DOMAIN I.jobs PROVE \E p \in P : j \in JobsOf(p)
    <3>1. PICK k \in 1 .. m : j \in JobsOf(x[k])
      BY <1>3
    <3>2. x[k] # <<>>
      BY <3>1, EmptyFacts
    <3>3. k \in Working(I, x)
      BY <3>2 DEF Working, m
    <3> QED BY <1>1, <3>1, <3>3
  <2>2. ASSUME NEW p \in P PROVE JobsOf(p) \subseteq DOMAIN I.jobs
    <3>1. PICK k \in 1 .. m : p = x[k]
      BY <1>1, <1>2
    <3> QED BY <1>3, <3>1
  <2> QED BY <2>1, <2>2
<1>8. \A k \in 1 .. m : y[k] \in P \/ y[k] = <<>>
  BY <1>4
<1>9. y \in [1 .. m -> Sequences(I)]
  <2>1. \A k \in 1 .. m : y[k] \in Sequences(I)
    BY <1>5, <1>8, EmptyFacts
  <2> QED BY <1>4, <2>1
<1>10. \A k \in 1 .. m : IsElementary(y[k]) /\ (y[k] # <<>> => Heavy(I, y[k]))
  BY <1>5, <1>8, EmptyFacts
<1>11. UNION {JobsOf(y[k]) : k \in 1 .. m} = DOMAIN I.jobs
  <2>1. ASSUME NEW j \in DOMAIN I.jobs PROVE \E k \in 1 .. m : j \in JobsOf(y[k])
    <3>1. PICK p \in P : j \in JobsOf(p)
      BY <1>7
    <3> QED BY <1>4, <3>1
  <2>2. ASSUME NEW k \in 1 .. m PROVE JobsOf(y[k]) \subseteq DOMAIN I.jobs
    BY <1>7, <1>8, EmptyFacts
  <2> QED BY <2>1, <2>2
<1>12. \A k, l \in 1 .. m : k # l => JobsOf(y[k]) \cap JobsOf(y[l]) = {}
  <2> SUFFICES ASSUME NEW k \in 1 .. m, NEW l \in 1 .. m, k # l PROVE JobsOf(y[k]) \cap JobsOf(y[l]) = {}
    OBVIOUS
  <2>1. CASE y[k] = <<>> \/ y[l] = <<>>
    BY <2>1, EmptyFacts
  <2>2. CASE y[k] # <<>> /\ y[l] # <<>>
    <3>1. y[k] # y[l] /\ y[k] \in P /\ y[l] \in P
      BY <1>4, <1>8, <2>2
    <3> QED BY <1>6, <3>1
  <2> QED BY <2>1, <2>2
<1>13. IsPlan(I, y)
  BY <1>9, <1>10, <1>11, <1>12 DEF IsPlan, m
<1>14. Planned(I, y).paths = P
  <2>1. Planned(I, y).paths = {y[k] : k \in 1 .. m} \ {<<>>}
    BY DEF Planned, m
  <2>2. ASSUME NEW p \in P PROVE p \in {y[k] : k \in 1 .. m} \ {<<>>}
    BY <1>4, <1>5
  <2>3. {y[k] : k \in 1 .. m} \ {<<>>} \subseteq P
    BY <1>8
  <2> QED BY <2>1, <2>2, <2>3
<1> DEFINE c == [p \in P |-> SequenceCost(I.jobs, p)]
<1>15. \A p \in P : c[p] = SequenceCost(I.jobs, p) /\ c[p] \in Int
  <2> SUFFICES ASSUME NEW p \in P PROVE SequenceCost(I.jobs, p) \in Int
    OBVIOUS
  <2>1. p \in Sequences(I)
    BY <1>5
  <2>2. PICK C : IsCostUpTo(I, p, C) /\ SequenceCost(I.jobs, p) = C[Len(p)]
    BY <2>1, CostFacts
  <2>3. Len(p) \in 0 .. Len(p)
    <3>1. Len(p) \in Nat
      BY <2>1, SequenceFacts DEF Sequences
    <3> QED BY <3>1
  <2> QED BY <2>2, <2>3 DEF IsCostUpTo
<1> HIDE DEF c
<1>16. Planned(I, x).cost = SumFunctionOnSet(c, P)
  BY <1>15, PlanCost DEF P
<1>17. Planned(I, y).cost = SumFunctionOnSet(c, P)
  BY <1>13, <1>14, <1>15, PlanCost
<1>18. Planned(I, y) = Planned(I, x)
  <2>1. /\ Planned(I, y) = [paths |-> Planned(I, y).paths, cost |-> Planned(I, y).cost]
        /\ Planned(I, x) = [paths |-> Planned(I, x).paths, cost |-> Planned(I, x).cost]
    BY DEF Planned
  <2> QED BY <1>14, <1>16, <1>17, <2>1 DEF P
<1> QED BY <1>13, <1>18

\* The elements of a finite set in some order.
LEMMA SetInOrder ==
  ASSUME NEW P, IsFiniteSet(P)
  PROVE  /\ SetToSeq(P) \in [1 .. Cardinality(P) -> P] /\ Cardinality(P) \in Nat
         /\ \A i, k \in 1 .. Cardinality(P) : SetToSeq(P)[i] = SetToSeq(P)[k] => i = k
         /\ \A p \in P : \E i \in 1 .. Cardinality(P) : SetToSeq(P)[i] = p
<1> DEFINE q == Cardinality(P)
           f == SetToSeq(P)
<1>1. q \in Nat /\ ExistsBijection(1 .. q, P)
  BY FS_CardinalityType
<1>2. \E g \in [1 .. q -> P] : IsInjective(g)
  BY <1>1 DEF ExistsBijection, Bijection, Injection
<1>3. f \in [1 .. q -> P] /\ IsInjective(f)
  BY <1>2 DEF SetToSeq
<1> HIDE DEF q, f
<1>4. f \in Injection(1 .. q, P)
  BY <1>3 DEF Injection
<1>5. Cardinality(1 .. q) = q
  BY <1>1, MachinesAreFinite
<1>6. f \in Surjection(1 .. q, P)
  BY <1>4, <1>5, FS_Injection DEF q
<1>7. \A p \in P : \E i \in 1 .. q : f[i] = p
  BY <1>6 DEF Surjection
<1> QED BY <1>1, <1>3, <1>7 DEF IsInjective, q, f

\* The machines of a schedule serve its paths.
LEMMA MachinesServe ==
  ASSUME IsInstance(inst), NEW x, IsPlan(inst, x), NEW s, s = Planned(inst, x)
  PROVE  Assigns(Machines(s), inst.m, s.paths)
<1> DEFINE m == inst.m
           P == s.paths
           q == Cardinality(P)
           f == SetToSeq(P)
           e == [k \in 1 .. m - q |-> <<>>]
           T == P \cup {<<>>}
<1>1. m \in Nat /\ IsFiniteSet(1 .. m) /\ Cardinality(1 .. m) = m
  <2>1. inst.m \in Nat
    BY DEF IsInstance
  <2> QED BY <2>1, MachinesAreFinite
<1>2. P = {x[k] : k \in Working(inst, x)} /\ <<>> \notin P
  BY PlanPaths DEF Planned, Working
<1>3. IsFiniteSet(P) /\ q <= m
  <2> DEFINE K == Working(inst, x)
  <2>1. K \in SUBSET (1 .. m)
    BY DEF Working
  <2> HIDE DEF K, m, P
  <2>2. IsFiniteSet(K) /\ Cardinality(K) <= m
    BY <1>1, <2>1, FS_Subset
  <2>3. IsFiniteSet({x[k] : k \in K}) /\ Cardinality({x[k] : k \in K}) = Cardinality(K)
    <3>1. \A k, l \in K : x[k] = x[l] => k = l
      BY PlanPaths DEF K
    <3> QED BY <2>2, <3>1, CardinalityOfImage
  <2>4. P = {x[k] : k \in K}
    BY <1>2 DEF K
  <2> QED BY <2>2, <2>3, <2>4
<1>4. /\ f \in [1 .. q -> P] /\ q \in Nat /\ \A i, k \in 1 .. q : f[i] = f[k] => i = k
      /\ \A p \in P : \E i \in 1 .. q : f[i] = p
  <2> HIDE DEF P
  <2> QED BY <1>3, SetInOrder
<1>5. Machines(s) = f \o e
  BY DEF Machines
<1> HIDE DEF m, P, q, f
<1>6. f \in Seq(T) /\ Len(f) = q
  BY <1>4
<1>7. m - q \in Nat
  BY <1>1, <1>3, <1>4
<1>8. e \in Seq(T) /\ Len(e) = m - q
  BY <1>7
<1> DEFINE y == f \o e
<1> HIDE DEF e, T
<1>9. y \in [1 .. m -> T] /\ \A k \in 1 .. m : y[k] = IF k <= q THEN f[k] ELSE e[k - q]
  <2>1. y \in Seq(T) /\ Len(y) = q + (m - q)
    BY <1>6, <1>8
  <2>2. \A k \in 1 .. q + (m - q) : y[k] = IF k <= q THEN f[k] ELSE e[k - q]
    BY <1>6, <1>8
  <2>3. q + (m - q) = m
    BY <1>1, <1>4
  <2> HIDE DEF y
  <2>4. DOMAIN y = 1 .. m /\ y \in [1 .. m -> T]
    BY <2>1, <2>3
  <2> QED BY <2>2, <2>3, <2>4
<1> HIDE DEF y
<1>10. \A k \in 1 .. m : k <= q => k \in 1 .. q /\ y[k] = f[k] /\ y[k] \in P
  BY <1>1, <1>4, <1>9
<1>11. \A k \in 1 .. m : ~(k <= q) => y[k] = <<>>
  <2> SUFFICES ASSUME NEW k \in 1 .. m, ~(k <= q) PROVE e[k - q] = <<>>
    BY <1>9
  <2>1. k - q \in 1 .. m - q
    BY <1>1, <1>4
  <2> QED BY <2>1 DEF e
<1>12. \A p \in P : \E k \in 1 .. m : y[k] = p
  <2> SUFFICES ASSUME NEW p \in P PROVE \E k \in 1 .. m : y[k] = p
    OBVIOUS
  <2>1. PICK i \in 1 .. q : f[i] = p
    BY <1>4
  <2>2. i \in 1 .. m /\ i <= q
    BY <1>1, <1>3, <1>4
  <2> QED BY <1>9, <2>1, <2>2
<1>13. \A k, l \in 1 .. m : y[k] = y[l] /\ y[k] # <<>> => k = l
  BY <1>4, <1>10, <1>11
<1>14. Assigns(y, m, P)
  BY <1>9, <1>12, <1>13 DEF Assigns, T
<1> QED BY <1>5, <1>14 DEF y, m, P

\* build_mip loses nothing: a schedule better than the incumbent that is still to be found is a
\* solution of the mixed-integer model over the diagram, whatever was fixed in it, and
\* the model's objective gives it its cost.
THEOREM ModelAdmitsAll == Spec => []ModelAdmitsImproving
<1>1. PricingInv => ModelAdmitsImproving
  <2> SUFFICES ASSUME PricingInv, NEW s \in targets, s.cost < UB
               PROVE  LET x == Projected(inst, dd, Machines(s))
                      IN  MipAccepts(inst, dd, x) /\ MipCost(inst, dd, x) = s.cost
    BY DEF ModelAdmitsImproving
  <2>1. IsInstance(inst) /\ IsDiagram(inst, dd)
    BY DiagramAssumption DEF PricingInv, DiagramInv
  <2>2. PICK x : IsPlan(inst, x) /\ s = Planned(inst, x)
    BY DEF PricingInv, IsSchedule
  <2>3. s.paths \subseteq PathsOf(inst, dd)
    BY DEF PricingInv, ImprovingSchedulesStay
  <2> DEFINE y == Machines(s)
  <2>4. Assigns(y, inst.m, s.paths)
    BY <2>1, <2>2, MachinesServe
  <2>5. IsPlan(inst, y) /\ Planned(inst, y) = s
    BY <2>1, <2>2, <2>4, PlanReordered
  <2>6. \A k \in 1 .. inst.m : y[k] \in PathsOf(inst, dd)
    BY <2>1, <2>3, <2>4, EmptyIsPath DEF Assigns
  <2> HIDE DEF y
  <2>7. MipAccepts(inst, dd, Projected(inst, dd, y)) /\ MipCost(inst, dd, Projected(inst, dd, y)) = s.cost
    BY <2>1, <2>5, <2>6, PlanIsAccepted, PlanIsPriced
  <2> QED BY <2>7 DEF y
<1> QED BY <1>1, PricingCorrect, PTL

--------------------------------------------------------------------------------
(* Flows over the diagram. *)
SourceOf(D) == [a \in MipArcs(D) |-> a[1]]
TargetOf(D) == [a \in MipArcs(D) |-> Target(D, a)]

\* What f brings into v less what it takes out of it, and f carries m from the root to
\* the terminal.
Inflow(D, f, v) == Balance(MipArcs(D), SourceOf(D), TargetOf(D), f, v)
IsFlow(D, f, m) ==
  /\ \A a \in MipArcs(D) : f[a] \in Nat
  /\ \A v \in Vertices(D) : Inflow(D, f, v) = IF v = D.root THEN -m ELSE IF v = One THEN m ELSE 0

\* The balance is the sum over the arcs into a vertex less that over those out of it.
LEMMA InflowIsDifference ==
  ASSUME NEW I, IsInstance(I), NEW D, IsDiagram(I, D), NEW f, \A a \in MipArcs(D) : f[a] \in Int, NEW v
  PROVE  /\ Inflow(D, f, v) = SumFunctionOnSet(f, Into(D, MipArcs(D), v)) - SumFunctionOnSet(f, OutOf(MipArcs(D), v))
         /\ SumFunctionOnSet(f, Into(D, MipArcs(D), v)) \in Int /\ SumFunctionOnSet(f, OutOf(MipArcs(D), v)) \in Int
<1> DEFINE E == MipArcs(D)
           In == Into(D, E, v)
           Out == OutOf(E, v)
           b == [a \in E |-> f[a] * Gain(SourceOf(D), TargetOf(D), v, a)]
           p == [a \in E |-> IF a \in In THEN f[a] ELSE 0]
           q == [a \in E |-> IF a \in Out THEN f[a] ELSE 0]
<1>1. IsFiniteSet(E) /\ In \in SUBSET E /\ Out \in SUBSET E /\ IsFiniteSet(In) /\ IsFiniteSet(Out)
  <2>1. In \in SUBSET E /\ Out \in SUBSET E
    BY DEF Into, OutOf
  <2>2. IsFiniteSet(E)
    BY ArcsAreFinite
  <2> HIDE DEF In, Out, E
  <2> QED BY <2>1, <2>2, FS_Subset
<1>2. \A a \in E : p[a] = b[a] + q[a] /\ b[a] \in Int /\ q[a] \in Int /\ p[a] \in Int
  <2> SUFFICES ASSUME NEW a \in E PROVE p[a] = b[a] + q[a] /\ b[a] \in Int /\ q[a] \in Int /\ p[a] \in Int
    OBVIOUS
  <2> DEFINE g == Gain(SourceOf(D), TargetOf(D), v, a)
  <2>1. g = (IF a \in In THEN 1 ELSE 0) - (IF a \in Out THEN 1 ELSE 0)
    BY DEF Gain, SourceOf, TargetOf, Into, OutOf
  <2>2. b[a] = f[a] * g /\ p[a] = (IF a \in In THEN f[a] ELSE 0) /\ q[a] = (IF a \in Out THEN f[a] ELSE 0) /\ f[a] \in Int
    OBVIOUS
  <2> HIDE DEF g, b, p, q, In, Out
  <2>3. g \in {-1, 0, 1}
    BY <2>1
  <2>4. CASE a \in In /\ a \in Out
    <3>1. g = 0
      BY <2>1, <2>4
    <3> QED BY <2>2, <2>4, <3>1
  <2>5. CASE a \in In /\ a \notin Out
    <3>1. g = 1
      BY <2>1, <2>5
    <3> QED BY <2>2, <2>5, <3>1
  <2>6. CASE a \notin In /\ a \in Out
    <3>1. g = -1
      BY <2>1, <2>6
    <3> QED BY <2>2, <2>6, <3>1
  <2>7. CASE a \notin In /\ a \notin Out
    <3>1. g = 0
      BY <2>1, <2>7
    <3> QED BY <2>2, <2>7, <3>1
  <2> QED BY <2>4, <2>5, <2>6, <2>7
<1>3. \A a \in E : f[a] \in Int
  OBVIOUS
<1>4. /\ \A a \in In : f[a] \in Int /\ f[a] = p[a]
      /\ \A a \in Out : f[a] \in Int /\ f[a] = q[a]
      /\ \A a \in E \ In : p[a] = 0
      /\ \A a \in E \ Out : q[a] = 0
  <2>1. \A a \in E : p[a] = (IF a \in In THEN f[a] ELSE 0) /\ q[a] = (IF a \in Out THEN f[a] ELSE 0)
    OBVIOUS
  <2> HIDE DEF p, q, In, Out, E
  <2> QED BY <1>1, <1>3, <2>1
<1>5. Inflow(D, f, v) = SumFunctionOnSet(b, E)
  BY DEF Inflow, Balance
<1> HIDE DEF E, In, Out, b, p, q
<1>6. SumFunctionOnSet(p, E) = SumFunctionOnSet(b, E) + SumFunctionOnSet(q, E)
  BY <1>1, <1>2, SumOfSums
<1>7. SumFunctionOnSet(p, E) = SumFunctionOnSet(p, In) /\ SumFunctionOnSet(q, E) = SumFunctionOnSet(q, Out)
  BY <1>1, <1>2, <1>4, ZerosAddNothing
<1>8. SumFunctionOnSet(f, In) = SumFunctionOnSet(p, In) /\ SumFunctionOnSet(f, Out) = SumFunctionOnSet(q, Out)
  BY <1>1, <1>4, SumAgree
<1>9. SumFunctionOnSet(f, In) \in Int /\ SumFunctionOnSet(f, Out) \in Int /\ SumFunctionOnSet(b, E) \in Int
  BY <1>1, <1>2, <1>4, SumType
<1>10. Inflow(D, f, v) = SumFunctionOnSet(f, In) - SumFunctionOnSet(f, Out)
  BY <1>5, <1>6, <1>7, <1>8, <1>9
<1> QED BY <1>9, <1>10 DEF In, Out, E

\* m paths are a flow of m.
LEMMA PathsAreFlow ==
  ASSUME NEW I, IsInstance(I), NEW D, IsDiagram(I, D), D.root # One, NEW m \in Nat,
         NEW y \in [1 .. m -> PathsOf(I, D)]
  PROVE  IsFlow(D, Projected(I, D, y), m)
<1> DEFINE x == Projected(I, D, y)
<1>1. y \in [1 .. m -> Sequences(I)]
  BY PathIsShort
<1>2. \A a \in MipArcs(D) : x[a] \in Nat
  <2> SUFFICES ASSUME NEW a \in MipArcs(D) PROVE x[a] \in Nat
    OBVIOUS
  <2> DEFINE K == {k \in 1 .. m : a \in Walk(I, D, y[k]).arcs}
  <2>1. x[a] = Cardinality(K)
    BY DEF Projected
  <2>2. IsFiniteSet(K)
    BY MachinesAreFinite, FS_Subset
  <2> HIDE DEF K, x
  <2> QED BY <2>1, <2>2, FS_CardinalityType
<1>3. ASSUME NEW v \in Vertices(D)
      PROVE  Inflow(D, x, v) = IF v = D.root THEN -m ELSE IF v = One THEN m ELSE 0
  <2>1. v \in Nodes(D) \cup {One}
    BY DEF Vertices
  <2>2. SumFunctionOnSet(x, Into(D, MipArcs(D), v)) - SumFunctionOnSet(x, OutOf(MipArcs(D), v))
          = CASE v = D.root -> -m [] v = One -> m [] OTHER -> 0
    BY <1>1, <2>1, FlowIsConserved
  <2>3. \A a \in MipArcs(D) : x[a] \in Int
    BY <1>2
  <2> HIDE DEF x
  <2>4. Inflow(D, x, v) = SumFunctionOnSet(x, Into(D, MipArcs(D), v)) - SumFunctionOnSet(x, OutOf(MipArcs(D), v))
    BY <2>3, InflowIsDifference
  <2> QED BY <2>2, <2>4
<1> QED BY <1>2, <1>3 DEF IsFlow

\* Where flow comes in it goes out.
LEMMA FlowGoesOn ==
  ASSUME NEW I, IsInstance(I), NEW D, IsDiagram(I, D), NEW m \in Nat, NEW f, IsFlow(D, f, m),
         NEW v \in Nodes(D), v # One
  PROVE  /\ (\A a \in OutOf(MipArcs(D), v) : f[a] = 0) => \A a \in Into(D, MipArcs(D), v) : f[a] = 0
         /\ v = D.root /\ m # 0 => \E a \in OutOf(MipArcs(D), v) : f[a] # 0
<1> DEFINE In == Into(D, MipArcs(D), v)
           Out == OutOf(MipArcs(D), v)
<1>1. IsFiniteSet(In) /\ IsFiniteSet(Out) /\ In \subseteq MipArcs(D) /\ Out \subseteq MipArcs(D)
  BY ArcsAreFinite, FS_Subset DEF Into, OutOf
<1>2. \A a \in MipArcs(D) : f[a] \in Nat /\ f[a] \in Int
  BY DEF IsFlow
<1>3. /\ Inflow(D, f, v) = SumFunctionOnSet(f, In) - SumFunctionOnSet(f, Out)
      /\ SumFunctionOnSet(f, In) \in Int /\ SumFunctionOnSet(f, Out) \in Int
  BY <1>2, InflowIsDifference
<1>4. Inflow(D, f, v) = IF v = D.root THEN -m ELSE 0
  BY DEF IsFlow, Vertices
<1> HIDE DEF In, Out
<1>5. SumFunctionOnSet(f, In) >= 0
  <2>1. CASE In = {}
    BY <2>1, SumOfNone
  <2>2. CASE In # {}
    <3>1. PICK a \in In : TRUE
      BY <2>2
    <3>2. SumFunctionOnSet(f, In) >= f[a] /\ f[a] \in Nat
      BY <1>1, <1>2, SumAtLeast
    <3> QED BY <1>3, <3>2
  <2> QED BY <2>1, <2>2
<1>6. ASSUME \A a \in Out : f[a] = 0 PROVE SumFunctionOnSet(f, Out) = 0
  <2>1. 0 \in Int /\ Cardinality(Out) \in Nat
    BY <1>1, FS_CardinalityType
  <2>2. SumFunctionOnSet(f, Out) = Cardinality(Out) * 0
    BY <1>1, <1>6, <2>1, SumOfConstant
  <2> QED BY <2>1, <2>2
<1>7. ASSUME \A a \in Out : f[a] = 0, NEW a \in In PROVE f[a] = 0
  <2>1. SumFunctionOnSet(f, In) >= f[a] /\ f[a] \in Nat
    BY <1>1, <1>2, SumAtLeast
  <2>2. SumFunctionOnSet(f, In) <= 0
    BY <1>3, <1>4, <1>6, <1>7
  <2> QED BY <1>3, <2>1, <2>2
<1>8. ASSUME v = D.root, m # 0, \A a \in Out : f[a] = 0 PROVE FALSE
  <2>1. SumFunctionOnSet(f, In) = -m
    BY <1>3, <1>4, <1>6, <1>8
  <2> QED BY <1>5, <1>8, <2>1
<1> QED BY <1>7, <1>8 DEF In, Out

\* Of a path with positive flow below n, every column that goes on with it takes only
\* arcs with positive flow.
Follows(I, D, f, n, p) ==
  \A q \in Sequences(I) : \A W : IsWalk(I, D, q, W) =>
    \A i \in 0 .. Len(q) : Rest(q, i) = p =>
      \A a \in W[n][i + 1].arcs : a \in MipArcs(D) /\ f[a] # 0

\* A 1-arc with flow can be put before such a path, ...
LEMMA FollowsHigh ==
  ASSUME NEW I, IsInstance(I), NEW D, IsDiagram(I, D), NEW f, NEW n \in Nodes(D), f[<<n, TRUE>>] # 0,
         NEW p \in PathsBelow(I, D)[D.hi[n]], Follows(I, D, f, D.hi[n], p)
  PROVE  /\ <<JobAt(I, n)>> \o p \in PathsBelow(I, D)[n]
         /\ Follows(I, D, f, n, <<JobAt(I, n)>> \o p)
<1> DEFINE j == JobAt(I, n)
<1>1. <<j>> \o p \in PathsBelow(I, D)[n] /\ p \in Sequences(I)
  <2>1. D.hi[n] \in Vertices(D)
    BY NodeFacts
  <2>2. p \in Sequences(I)
    BY <2>1, PathsFacts
  <2>3. <<j>> \o p \in Headed(j, PathsBelow(I, D)[D.hi[n]])
    BY DEF Headed
  <2>4. PathsBelow(I, D)[n] = PathsBelow(I, D)[D.lo[n]] \cup Headed(j, PathsBelow(I, D)[D.hi[n]])
    BY PathsFacts
  <2> QED BY <2>2, <2>3, <2>4
<1>2. ASSUME NEW q \in Sequences(I), NEW W, IsWalk(I, D, q, W), NEW i \in 0 .. Len(q), Rest(q, i) = <<j>> \o p
      PROVE  \A a \in W[n][i + 1].arcs : a \in MipArcs(D) /\ f[a] # 0
  <2>1. i < Len(q) /\ j = q[i + 1] /\ p = Rest(q, i + 1)
    <3> DEFINE T == DOMAIN I.jobs
    <3>1. q \in Seq(T) /\ p \in Seq(T)
      BY <1>1 DEF Sequences
    <3> HIDE DEF T, j
    <3> QED BY <1>2, <3>1, RestHeaded
  <2>2. i # Len(q) /\ i + 1 \in 0 .. Len(q) /\ (i + 1) + 1 = i + 2
    <3>1. Len(q) \in Nat
      BY SequenceFacts DEF Sequences
    <3> QED BY <2>1, <3>1
  <2>3. WalksOn(I, D, q, W, n, i)
    BY <1>2, WalkSteps
  <2>4. W[n][i + 1].arcs = W[D.hi[n]][i + 2].arcs \cup {<<n, TRUE>>}
    BY <2>1, <2>2, <2>3 DEF WalksOn
  <2>5. \A a \in W[D.hi[n]][i + 2].arcs : a \in MipArcs(D) /\ f[a] # 0
    BY <1>2, <2>1, <2>2 DEF Follows
  <2>6. <<n, TRUE>> \in MipArcs(D)
    BY DEF MipArcs
  <2> QED BY <2>4, <2>5, <2>6
<1> QED BY <1>1, <1>2 DEF Follows

\* ... and so can a 0-arc.
LEMMA FollowsLow ==
  ASSUME NEW I, IsInstance(I), NEW D, IsDiagram(I, D), NEW f, NEW n \in Nodes(D), f[<<n, FALSE>>] # 0,
         NEW p \in PathsBelow(I, D)[D.lo[n]], Follows(I, D, f, D.lo[n], p)
  PROVE  p \in PathsBelow(I, D)[n] /\ Follows(I, D, f, n, p)
<1>1. p \in PathsBelow(I, D)[n]
  BY PathsFacts
<1>2. ASSUME NEW q \in Sequences(I), NEW W, IsWalk(I, D, q, W), NEW i \in 0 .. Len(q), Rest(q, i) = p
      PROVE  \A a \in W[n][i + 1].arcs : a \in MipArcs(D) /\ f[a] # 0
  <2>1. ~(i # Len(q) /\ q[i + 1] = JobAt(I, n))
    BY <1>2, NotWaited
  <2>2. WalksOn(I, D, q, W, n, i)
    BY <1>2, WalkSteps
  <2>3. W[n][i + 1].arcs = W[D.lo[n]][i + 1].arcs \cup {<<n, FALSE>>}
    BY <2>1, <2>2 DEF WalksOn
  <2>4. \A a \in W[D.lo[n]][i + 1].arcs : a \in MipArcs(D) /\ f[a] # 0
    BY <1>2 DEF Follows
  <2>5. <<n, FALSE>> \in MipArcs(D)
    BY DEF MipArcs
  <2> QED BY <2>3, <2>4, <2>5
<1> QED BY <1>1, <1>2 DEF Follows

\* The arcs into and out of a node, and by what they come.
LEMMA ArcsOut ==
  ASSUME NEW D, NEW n \in Nodes(D)
  PROVE  /\ OutOf(MipArcs(D), n) = {<<n, TRUE>>, <<n, FALSE>>}
         /\ <<n, TRUE>> \in Into(D, MipArcs(D), D.hi[n]) /\ <<n, FALSE>> \in Into(D, MipArcs(D), D.lo[n])
<1>1. ASSUME NEW a \in MipArcs(D), a[1] = n PROVE a = <<n, TRUE>> \/ a = <<n, FALSE>>
  <2>1. a = <<n, a[2]>> /\ a[2] \in BOOLEAN
    BY <1>1 DEF MipArcs
  <2>2. a[2] = TRUE \/ a[2] = FALSE
    BY <2>1
  <2> QED BY <2>1, <2>2
<1>2. <<n, TRUE>> \in MipArcs(D) /\ <<n, FALSE>> \in MipArcs(D)
  BY DEF MipArcs
<1>3. OutOf(MipArcs(D), n) = {<<n, TRUE>>, <<n, FALSE>>}
  <2>1. <<n, TRUE>>[1] = n /\ <<n, FALSE>>[1] = n
    OBVIOUS
  <2> QED BY <1>1, <1>2, <2>1 DEF OutOf
<1>4. Target(D, <<n, TRUE>>) = D.hi[n] /\ Target(D, <<n, FALSE>>) = D.lo[n]
  BY DEF Target
<1> QED BY <1>2, <1>3, <1>4 DEF Into

\* A flow that is not nothing has a path all of whose arcs have some.
LEMMA FlowHasPath ==
  ASSUME NEW I, IsInstance(I), NEW D, IsDiagram(I, D), D.root # One, NEW m \in Nat \ {0}, NEW f, IsFlow(D, f, m)
  PROVE  \E p \in PathsOf(I, D) : \A a \in Walk(I, D, p).arcs : a \in MipArcs(D) /\ f[a] # 0
<1> DEFINE P == PathsBelow(I, D)
           Active(n) == n = One \/ \E a \in OutOf(MipArcs(D), n) : f[a] # 0
           F == {n \in Vertices(D) : Active(n) => \E p \in P[n] : Follows(I, D, f, n, p)}
<1>1. One \in F
  <2>1. Follows(I, D, f, One, <<>>)
    <3>1. ASSUME NEW q \in Sequences(I), NEW W, IsWalk(I, D, q, W), NEW i \in 0 .. Len(q)
          PROVE  W[One][i + 1].arcs = {}
      BY <3>1, WalkSteps DEF WalkEnds
    <3> QED BY <3>1 DEF Follows
  <2>2. <<>> \in P[One]
    BY PathsFacts
  <2> QED BY <2>1, <2>2 DEF Vertices
<1>2. ASSUME NEW n \in Nodes(D), D.lo[n] \in F, D.hi[n] \in F PROVE n \in F
  <2>0. n \in Vertices(D) /\ n # One
    BY NodeFacts DEF Vertices
  <2>1. ASSUME NEW v \in Vertices(D), \E a \in Into(D, MipArcs(D), v) : f[a] # 0 PROVE Active(v)
    <3>1. CASE v = One
      BY <3>1
    <3>2. CASE v # One
      <4>1. v \in Nodes(D)
        BY <3>2 DEF Vertices
      <4> QED BY <2>1, <3>2, <4>1, FlowGoesOn
    <3> QED BY <3>1, <3>2
  <2> HIDE DEF P
  <2>2. CASE f[<<n, TRUE>>] # 0
    <3>1. Active(D.hi[n])
      <4>1. D.hi[n] \in Vertices(D)
        BY NodeFacts
      <4> HIDE DEF Active
      <4> QED BY <2>1, <2>2, <4>1, ArcsOut
    <3>2. PICK p \in P[D.hi[n]] : Follows(I, D, f, D.hi[n], p)
      BY <1>2, <3>1
    <3> QED BY <2>0, <2>2, <3>2, FollowsHigh DEF P
  <2>3. CASE f[<<n, FALSE>>] # 0
    <3>1. Active(D.lo[n])
      <4>1. D.lo[n] \in Vertices(D)
        BY NodeFacts
      <4> HIDE DEF Active
      <4> QED BY <2>1, <2>3, <4>1, ArcsOut
    <3>2. PICK p \in P[D.lo[n]] : Follows(I, D, f, D.lo[n], p)
      BY <1>2, <3>1
    <3> QED BY <2>0, <2>3, <3>2, FollowsLow DEF P
  <2>4. CASE f[<<n, TRUE>>] = 0 /\ f[<<n, FALSE>>] = 0
    <3>1. ~Active(n)
      BY <2>0, <2>4, ArcsOut
    <3> HIDE DEF Active
    <3> QED BY <2>0, <3>1
  <2> QED BY <2>2, <2>3, <2>4
<1>3. \A n \in Vertices(D) : n \in F
  <2> HIDE DEF F
  <2> QED BY <1>1, <1>2, DiagramInduction
<1>4. D.root \in Nodes(D) /\ D.root \in Vertices(D)
  BY DEF IsDiagram, Vertices
<1>5. Active(D.root)
  BY <1>4, FlowGoesOn
<1>6. PICK p \in P[D.root] : Follows(I, D, f, D.root, p)
  <2> HIDE DEF Active, P
  <2> QED BY <1>3, <1>4, <1>5
<1>7. p \in PathsOf(I, D) /\ p \in Sequences(I) /\ Rest(p, 0) = p /\ 0 \in 0 .. Len(p) /\ 0 + 1 = 1
  BY PathIsShort, RestFacts, SequenceFacts DEF PathsOf, Sequences
<1>8. PICK W : IsWalk(I, D, p, W) /\ Walk(I, D, p) = W[D.root][1]
  BY <1>7, WalkFacts
<1>9. \A a \in W[D.root][1].arcs : a \in MipArcs(D) /\ f[a] # 0
  <2>1. \A a \in W[D.root][0 + 1].arcs : a \in MipArcs(D) /\ f[a] # 0
    BY <1>6, <1>7, <1>8 DEF Follows
  <2> QED BY <1>7, <2>1
<1> QED BY <1>7, <1>8, <1>9

\* A flow of nothing is none.
LEMMA NoFlowIsZero ==
  ASSUME NEW I, IsInstance(I), NEW D, IsDiagram(I, D), D.root # One, NEW f, IsFlow(D, f, 0)
  PROVE  \A a \in MipArcs(D) : f[a] = 0
<1> DEFINE F == {v \in Vertices(D) : \A a \in Into(D, MipArcs(D), v) : f[a] = 0}
<1>1. One \in F
  <2> DEFINE In == Into(D, MipArcs(D), One)
  <2>1. One \in Vertices(D) /\ Inflow(D, f, One) = 0
    BY DEF IsFlow, Vertices
  <2>2. OutOf(MipArcs(D), One) = {}
    <3>1. \A a \in MipArcs(D) : a[1] # One
      BY NodeFacts DEF MipArcs
    <3> QED BY <3>1 DEF OutOf
  <2>3. (\A a \in MipArcs(D) : f[a] \in Int) /\ \A a \in In : f[a] \in Nat
    BY DEF IsFlow, Into
  <2>4. Inflow(D, f, One) = SumFunctionOnSet(f, In) - SumFunctionOnSet(f, OutOf(MipArcs(D), One)) /\ SumFunctionOnSet(f, In) \in Int
    BY <2>3, InflowIsDifference
  <2>5. SumFunctionOnSet(f, In) = 0
    BY <2>1, <2>2, <2>4, SumOfNone
  <2>6. IsFiniteSet(In)
    BY ArcsAreFinite, FS_Subset DEF Into
  <2> HIDE DEF In
  <2>7. ASSUME NEW a \in In PROVE f[a] = 0
    <3>1. SumFunctionOnSet(f, In) >= f[a]
      BY <2>3, <2>6, SumAtLeast
    <3>2. f[a] \in Nat
      BY <2>3
    <3> QED BY <2>5, <3>1, <3>2
  <2> QED BY <2>1, <2>7 DEF In
<1>2. ASSUME NEW n \in Nodes(D), D.lo[n] \in F, D.hi[n] \in F PROVE n \in F
  <2>1. n \in Vertices(D) /\ n # One
    BY NodeFacts DEF Vertices
  <2>2. \A a \in OutOf(MipArcs(D), n) : f[a] = 0
    <3>1. f[<<n, TRUE>>] = 0 /\ f[<<n, FALSE>>] = 0
      <4>1. (\A a \in Into(D, MipArcs(D), D.hi[n]) : f[a] = 0) /\ \A a \in Into(D, MipArcs(D), D.lo[n]) : f[a] = 0
        BY <1>2
      <4>2. <<n, TRUE>> \in Into(D, MipArcs(D), D.hi[n]) /\ <<n, FALSE>> \in Into(D, MipArcs(D), D.lo[n])
        BY ArcsOut
      <4> QED BY <4>1, <4>2
    <3>2. OutOf(MipArcs(D), n) = {<<n, TRUE>>, <<n, FALSE>>}
      BY ArcsOut
    <3> QED BY <3>1, <3>2
  <2> QED BY <2>1, <2>2, FlowGoesOn
<1>3. \A v \in Vertices(D) : v \in F
  <2> HIDE DEF F
  <2> QED BY <1>1, <1>2, DiagramInduction
<1> SUFFICES ASSUME NEW a \in MipArcs(D) PROVE f[a] = 0
  OBVIOUS
<1>4. Target(D, a) \in Vertices(D)
  BY ArcsLeadDown
<1>5. a \in Into(D, MipArcs(D), Target(D, a))
  BY DEF Into
<1> QED BY <1>3, <1>4, <1>5

\* f is g and h together.
IsSumOf(D, f, g, h) == \A a \in MipArcs(D) : g[a] \in Int /\ h[a] \in Int /\ f[a] = g[a] + h[a]

\* What a sum of flows brings in.
LEMMA InflowOfSum ==
  ASSUME NEW I, IsInstance(I), NEW D, IsDiagram(I, D), NEW g, NEW h, NEW f, IsSumOf(D, f, g, h), NEW v
  PROVE  Inflow(D, f, v) = Inflow(D, g, v) + Inflow(D, h, v) /\ Inflow(D, g, v) \in Int /\ Inflow(D, h, v) \in Int
<1> DEFINE E == MipArcs(D)
           bf == [a \in E |-> f[a] * Gain(SourceOf(D), TargetOf(D), v, a)]
           bg == [a \in E |-> g[a] * Gain(SourceOf(D), TargetOf(D), v, a)]
           bh == [a \in E |-> h[a] * Gain(SourceOf(D), TargetOf(D), v, a)]
<1>1. IsFiniteSet(E)
  BY ArcsAreFinite
<1>2. \A a \in E : bg[a] \in Int /\ bh[a] \in Int /\ bf[a] = bg[a] + bh[a]
  <2> SUFFICES ASSUME NEW a \in E, NEW y, y = Gain(SourceOf(D), TargetOf(D), v, a)
               PROVE  g[a] * y \in Int /\ h[a] * y \in Int /\ f[a] * y = g[a] * y + h[a] * y
    OBVIOUS
  <2>1. y = -1 \/ y = 0 \/ y = 1
    BY EndsType
  <2>2. g[a] \in Int /\ h[a] \in Int /\ f[a] = g[a] + h[a]
    BY DEF IsSumOf
  <2> QED BY <2>1, <2>2
<1>3. Inflow(D, f, v) = SumFunctionOnSet(bf, E) /\ Inflow(D, g, v) = SumFunctionOnSet(bg, E) /\ Inflow(D, h, v) = SumFunctionOnSet(bh, E)
  BY DEF Inflow, Balance
<1> HIDE DEF E, bf, bg, bh
<1>4. SumFunctionOnSet(bf, E) = SumFunctionOnSet(bg, E) + SumFunctionOnSet(bh, E)
  BY <1>1, <1>2, SumOfSums
<1>5. SumFunctionOnSet(bg, E) \in Int /\ SumFunctionOnSet(bh, E) \in Int
  BY <1>1, <1>2, SumType
<1> QED BY <1>3, <1>4, <1>5

\* Which arcs a path takes.
TakenBy(I, D, p) == [a \in MipArcs(D) |-> IF a \in Walk(I, D, p).arcs THEN 1 ELSE 0]

\* A path is a flow of one, ...
LEMMA PathIsFlow ==
  ASSUME NEW I, IsInstance(I), NEW D, IsDiagram(I, D), D.root # One, NEW p \in PathsOf(I, D)
  PROVE  IsFlow(D, TakenBy(I, D, p), 1)
<1> DEFINE y == [k \in 1 .. 1 |-> p]
<1>1. y \in [1 .. 1 -> PathsOf(I, D)] /\ DOMAIN y = {1} /\ y[1] = p
  OBVIOUS
<1> HIDE DEF y
<1>2. IsFlow(D, Projected(I, D, y), 1)
  BY <1>1, PathsAreFlow
<1>3. Projected(I, D, y) = TakenBy(I, D, p)
  <2>1. ASSUME NEW a \in MipArcs(D)
        PROVE  Cardinality({k \in DOMAIN y : a \in Walk(I, D, y[k]).arcs}) = IF a \in Walk(I, D, p).arcs THEN 1 ELSE 0
    <3>1. CASE a \in Walk(I, D, p).arcs
      <4>1. {k \in DOMAIN y : a \in Walk(I, D, y[k]).arcs} = {1}
        BY <1>1, <3>1
      <4> QED BY <3>1, <4>1, FS_Singleton
    <3>2. CASE a \notin Walk(I, D, p).arcs
      <4>1. {k \in DOMAIN y : a \in Walk(I, D, y[k]).arcs} = {}
        BY <1>1, <3>2
      <4> QED BY <3>2, <4>1, FS_EmptySet
    <3> QED BY <3>1, <3>2
  <2> QED BY <2>1 DEF Projected, TakenBy
<1> QED BY <1>2, <1>3

\* ... which can be taken out of one that has it.
LEMMA FlowWithout ==
  ASSUME NEW I, IsInstance(I), NEW D, IsDiagram(I, D), D.root # One, NEW m \in Nat, NEW f, IsFlow(D, f, m + 1),
         NEW p \in PathsOf(I, D), \A a \in Walk(I, D, p).arcs : f[a] # 0
  PROVE  IsFlow(D, [a \in MipArcs(D) |-> f[a] - TakenBy(I, D, p)[a]], m)
<1> DEFINE u == TakenBy(I, D, p)
           g == [a \in MipArcs(D) |-> f[a] - u[a]]
<1>1. \A a \in MipArcs(D) : f[a] \in Nat /\ u[a] = IF a \in Walk(I, D, p).arcs THEN 1 ELSE 0
  BY DEF IsFlow, TakenBy
<1>2. IsFlow(D, u, 1)
  BY PathIsFlow
<1>3. \A a \in MipArcs(D) : g[a] = f[a] - u[a]
  OBVIOUS
<1> HIDE DEF g, u
<1>4. \A a \in MipArcs(D) : g[a] \in Nat /\ g[a] \in Int /\ u[a] \in Int /\ f[a] = g[a] + u[a]
  <2> SUFFICES ASSUME NEW a \in MipArcs(D) PROVE g[a] \in Nat /\ g[a] \in Int /\ u[a] \in Int /\ f[a] = g[a] + u[a]
    OBVIOUS
  <2>1. f[a] \in Nat /\ g[a] = f[a] - u[a]
    BY <1>1, <1>3
  <2>2. u[a] = 0 \/ (u[a] = 1 /\ f[a] # 0)
    <3>1. CASE a \in Walk(I, D, p).arcs
      BY <1>1, <3>1
    <3>2. CASE a \notin Walk(I, D, p).arcs
      BY <1>1, <3>2
    <3> QED BY <3>1, <3>2
  <2> QED BY <2>1, <2>2
<1>5. ASSUME NEW v \in Vertices(D)
      PROVE  Inflow(D, g, v) = IF v = D.root THEN -m ELSE IF v = One THEN m ELSE 0
  <2>1. Inflow(D, f, v) = Inflow(D, g, v) + Inflow(D, u, v) /\ Inflow(D, g, v) \in Int
    BY <1>4, InflowOfSum DEF IsSumOf
  <2>2. /\ Inflow(D, f, v) = IF v = D.root THEN -(m + 1) ELSE IF v = One THEN m + 1 ELSE 0
        /\ Inflow(D, u, v) = IF v = D.root THEN -1 ELSE IF v = One THEN 1 ELSE 0
    BY <1>2 DEF IsFlow
  <2> QED BY <2>1, <2>2
<1>6. IsFlow(D, g, m)
  BY <1>4, <1>5 DEF IsFlow
<1> QED BY <1>6 DEF g, u

\* Another path adds what it takes.
LEMMA ProjectedGrows ==
  ASSUME NEW I, IsInstance(I), NEW D, IsDiagram(I, D), NEW m \in Nat, NEW P, NEW y \in [1 .. m -> P], NEW p,
         NEW a \in MipArcs(D)
  PROVE  Projected(I, D, [k \in 1 .. m + 1 |-> IF k = m + 1 THEN p ELSE y[k]])[a]
           = Projected(I, D, y)[a] + TakenBy(I, D, p)[a]
<1> DEFINE z == [k \in 1 .. m + 1 |-> IF k = m + 1 THEN p ELSE y[k]]
           K == {k \in 1 .. m : a \in Walk(I, D, y[k]).arcs}
           L == {k \in 1 .. m + 1 : a \in Walk(I, D, z[k]).arcs}
<1>1. Projected(I, D, y)[a] = Cardinality(K) /\ Projected(I, D, z)[a] = Cardinality(L)
  BY DEF Projected
<1>2. TakenBy(I, D, p)[a] = IF a \in Walk(I, D, p).arcs THEN 1 ELSE 0
  BY DEF TakenBy
<1>3. z[m + 1] = p /\ (\A k \in 1 .. m : k \in 1 .. m + 1 /\ z[k] = y[k] /\ k # m + 1) /\ 1 .. m + 1 = 1 .. m \cup {m + 1}
  OBVIOUS
<1> HIDE DEF z
<1>4. L = IF a \in Walk(I, D, p).arcs THEN K \cup {m + 1} ELSE K
  BY <1>3
<1>5. m + 1 \notin K /\ IsFiniteSet(K)
  <2>1. IsFiniteSet(1 .. m)
    BY FS_Interval
  <2>2. K \subseteq 1 .. m
    OBVIOUS
  <2>3. m + 1 \notin 1 .. m
    OBVIOUS
  <2> QED BY <2>1, <2>2, <2>3, FS_Subset
<1> HIDE DEF K, L
<1>6. Cardinality(K) \in Nat /\ Cardinality(K \cup {m + 1}) = Cardinality(K) + 1
  BY <1>5, FS_AddElement, FS_CardinalityType
<1>7. Cardinality(L) = Cardinality(K) + TakenBy(I, D, p)[a]
  <2>1. CASE a \in Walk(I, D, p).arcs
    BY <1>2, <1>4, <1>6, <2>1
  <2>2. CASE a \notin Walk(I, D, p).arcs
    BY <1>2, <1>4, <1>6, <2>2
  <2> QED BY <2>1, <2>2
<1> QED BY <1>1, <1>7 DEF z

\* A flow of m is m paths.
LEMMA FlowIsPaths ==
  ASSUME NEW I, IsInstance(I), NEW D, IsDiagram(I, D), D.root # One, NEW m \in Nat, NEW f, IsFlow(D, f, m)
  PROVE  \E y \in [1 .. m -> PathsOf(I, D)] : \A a \in MipArcs(D) : Projected(I, D, y)[a] = f[a]
<1> DEFINE IsPaths(n, g) == \E y \in [1 .. n -> PathsOf(I, D)] : \A a \in MipArcs(D) : Projected(I, D, y)[a] = g[a]
           S == {n \in Nat : \A g : IsFlow(D, g, n) => IsPaths(n, g)}
<1>1. 0 \in S
  <2> SUFFICES ASSUME NEW g, IsFlow(D, g, 0) PROVE IsPaths(0, g)
    OBVIOUS
  <2> DEFINE y == [k \in 1 .. 0 |-> <<>>]
  <2>1. y \in [1 .. 0 -> PathsOf(I, D)] /\ DOMAIN y = {}
    OBVIOUS
  <2> HIDE DEF y
  <2>2. \A a \in MipArcs(D) : Projected(I, D, y)[a] = 0
    <3>1. ASSUME NEW a \in MipArcs(D) PROVE Projected(I, D, y)[a] = 0
      <4>1. {k \in DOMAIN y : a \in Walk(I, D, y[k]).arcs} = {}
        BY <2>1
      <4>2. Projected(I, D, y)[a] = Cardinality({k \in DOMAIN y : a \in Walk(I, D, y[k]).arcs})
        BY DEF Projected
      <4> QED BY <4>1, <4>2, FS_EmptySet
    <3> QED BY <3>1
  <2>3. \A a \in MipArcs(D) : g[a] = 0
    BY NoFlowIsZero
  <2> QED BY <2>1, <2>2, <2>3
<1>2. ASSUME NEW n \in S, n \in Nat PROVE n + 1 \in S
  <2> SUFFICES ASSUME NEW g, IsFlow(D, g, n + 1) PROVE IsPaths(n + 1, g)
    BY <1>2
  <2>0. n + 1 \in Nat \ {0}
    BY <1>2
  <2>1. PICK p \in PathsOf(I, D) : \A a \in Walk(I, D, p).arcs : a \in MipArcs(D) /\ g[a] # 0
    BY <2>0, FlowHasPath
  <2> DEFINE h == [a \in MipArcs(D) |-> g[a] - TakenBy(I, D, p)[a]]
  <2>2. IsFlow(D, h, n)
    BY <1>2, <2>1, FlowWithout
  <2>3. \A a \in MipArcs(D) : h[a] + TakenBy(I, D, p)[a] = g[a]
    BY DEF IsFlow, TakenBy
  <2> HIDE DEF h
  <2>4. PICK y \in [1 .. n -> PathsOf(I, D)] : \A a \in MipArcs(D) : Projected(I, D, y)[a] = h[a]
    BY <2>2
  <2> DEFINE z == [k \in 1 .. n + 1 |-> IF k = n + 1 THEN p ELSE y[k]]
  <2>5. z \in [1 .. n + 1 -> PathsOf(I, D)]
    <3>1. \A k \in 1 .. n + 1 : k # n + 1 => k \in 1 .. n
      BY <1>2
    <3> QED BY <2>1, <2>4, <3>1
  <2>6. \A a \in MipArcs(D) : Projected(I, D, z)[a] = Projected(I, D, y)[a] + TakenBy(I, D, p)[a]
    BY <1>2, <2>4, ProjectedGrows, SMTT(30)
  <2>7. \A a \in MipArcs(D) : Projected(I, D, z)[a] = g[a]
    <3> HIDE DEF z
    <3> QED BY <2>3, <2>4, <2>6
  <2> QED BY <2>5, <2>7
<1>3. m \in S
  <2> HIDE DEF S
  <2>1. \A n \in Nat : n \in S
    BY <1>1, <1>2, NatSetInduction
  <2> QED BY <2>1
<1> QED BY <1>3

\* A sequence costs an integer, and nothing when it is empty.
LEMMA SequenceCostType ==
  ASSUME NEW I, IsInstance(I), NEW p \in Sequences(I)
  PROVE  SequenceCost(I.jobs, p) \in Int /\ (p = <<>> => SequenceCost(I.jobs, p) = 0)
<1>1. PICK C : IsCostUpTo(I, p, C) /\ SequenceCost(I.jobs, p) = C[Len(p)]
  BY CostFacts
<1>2. Len(p) \in Nat /\ (p = <<>> => Len(p) = 0)
  BY SequenceFacts DEF Sequences
<1>3. Len(p) \in 0 .. Len(p)
  BY <1>2
<1> QED BY <1>1, <1>2, <1>3 DEF IsCostUpTo

\* c, with enough empty columns for twice the machines there are.
Padded(I, c) == [i \in 1 .. 2 * I.m |-> IF i \in DOMAIN c THEN c[i] ELSE <<>>]

\* f starts each node's job as often as w says.
StartsAs(D, f, w) == \A n \in Nodes(D) : f[<<n, TRUE>>] = w[n]

\* The empty columns add no flow to any job ...
LEMMA PaddedFlow ==
  ASSUME NEW I, IsInstance(I), NEW D, IsDiagram(I, D), NEW x, NEW c, IsSolution(I, D, x, c)
  PROVE  /\ Padded(I, c) \in [1 .. 2 * I.m -> PathsOf(I, D)] /\ DOMAIN c \subseteq 1 .. 2 * I.m
         /\ StartsAs(D, Projected(I, D, Padded(I, c)), Flow(I, D, x))
<1> DEFINE z == Padded(I, c)
<1>1. PICK k \in Nat : k <= 2 * I.m /\ c \in [1 .. k -> PathsOf(I, D)]
  BY DEF IsSolution, Unit
<1>2. I.m \in Nat /\ DOMAIN c = 1 .. k
  BY <1>1 DEF IsInstance
<1>3. DOMAIN c \subseteq 1 .. 2 * I.m
  BY <1>1, <1>2
<1>4. z \in [1 .. 2 * I.m -> PathsOf(I, D)]
  BY <1>1, <1>2, EmptyIsPath DEF Padded
<1>5. DOMAIN z = 1 .. 2 * I.m /\ \A i \in 1 .. 2 * I.m : z[i] = IF i \in DOMAIN c THEN c[i] ELSE <<>>
  BY DEF Padded
<1> HIDE DEF z
<1>6. ASSUME NEW n \in Nodes(D) PROVE Projected(I, D, z)[<<n, TRUE>>] = Flow(I, D, x)[n]
  <2> DEFINE a == <<n, TRUE>>
             K == {i \in DOMAIN c : n \in Starts(I, D, c[i])}
             L == {i \in DOMAIN z : a \in Walk(I, D, z[i]).arcs}
  <2>1. Projected(I, D, z)[a] = Cardinality(L)
    BY DEF Projected, MipArcs
  <2>2. Flow(I, D, x)[n] = Cardinality(K)
    BY FlowCounts
  <2>3. n \notin Starts(I, D, <<>>)
    <3>1. <<>> \in Sequences(I) /\ 1 .. Len(<<>>) = {}
      BY EmptyFacts
    <3> QED BY <3>1, StartIsRun
  <2>4. \A p : n \in Starts(I, D, p) <=> a \in Walk(I, D, p).arcs
    BY DEF Starts
  <2> HIDE DEF a
  <2>5. ASSUME NEW i PROVE i \in L <=> i \in K
    <3>1. CASE i \in DOMAIN c
      BY <1>3, <1>5, <2>4, <3>1
    <3>2. CASE i \notin DOMAIN c
      BY <1>5, <2>3, <2>4, <3>2
    <3> QED BY <3>1, <3>2
  <2>6. K = L
    <3> HIDE DEF K, L
    <3> QED BY <2>5
  <2> QED BY <2>1, <2>2, <2>6 DEF a
<1>7. StartsAs(D, Projected(I, D, z), Flow(I, D, x))
  BY <1>6 DEF StartsAs
<1> QED BY <1>3, <1>4, <1>7 DEF z

\* ... and no cost.
LEMMA PaddedCost ==
  ASSUME NEW I, IsInstance(I), NEW D, IsDiagram(I, D), NEW x, NEW c, IsSolution(I, D, x, c),
         NEW w, \A s \in DOMAIN x : w[s] = x[s] * SequenceCost(I.jobs, s)
  PROVE  MipCost(I, D, Projected(I, D, Padded(I, c))) = SumFunctionOnSet(w, DOMAIN x)
<1> DEFINE z == Padded(I, c)
           C == 1 .. 2 * I.m
           cz == [i \in C |-> SequenceCost(I.jobs, z[i])]
           A == DOMAIN x
           B == DOMAIN c
           R == {r \in A \X B : r[1] = c[r[2]]}
           v == [s \in A |-> SequenceCost(I.jobs, s)]
<1>1. I.m \in Nat /\ IsFiniteSet(C) /\ 2 * I.m \in Nat
  <2>1. I.m \in Nat
    BY DEF IsInstance
  <2>2. 2 * I.m \in Nat
    BY <2>1
  <2> QED BY <2>1, <2>2, MachinesAreFinite
<1>2. z \in [C -> PathsOf(I, D)] /\ B \subseteq C
  BY PaddedFlow
<1>3. \A i \in C : z[i] = IF i \in B THEN c[i] ELSE <<>>
  BY DEF Padded
<1>4. IsFiniteSet(B)
  BY <1>1, <1>2, FS_Subset
<1>5. A = {c[i] : i \in B} /\ \A s \in A : x[s] = Cardinality({i \in B : c[i] = s})
  BY DEF IsSolution
<1>6. IsFiniteSet(A)
  <2> DEFINE X == {c[i] : i \in B}
  <2>1. IsFiniteSet(X)
    BY <1>4, FiniteImage
  <2>2. A = X
    BY <1>5
  <2> HIDE DEF A, X
  <2> QED BY <2>1, <2>2
<1>7. \A i \in C : cz[i] = SequenceCost(I.jobs, z[i])
  OBVIOUS
<1> HIDE DEF z, cz, C
<1>8. \A i \in C : cz[i] \in Int /\ (z[i] = <<>> => cz[i] = 0)
  BY <1>2, <1>7, PathIsShort, SequenceCostType
<1>9. MipCost(I, D, Projected(I, D, z)) = SumFunctionOnSet(cz, C)
  BY <1>1, <1>2, <1>7, PathsArePriced DEF C
<1>10. SumFunctionOnSet(cz, C) = SumFunctionOnSet(cz, B)
  BY <1>1, <1>2, <1>3, <1>8, ZerosAddNothing
<1>11. \A s \in A : s \in Sequences(I)
  BY <1>2, <1>3, <1>5, PathIsShort
<1>12. \A s \in A : v[s] = SequenceCost(I.jobs, s) /\ v[s] \in Int
  BY <1>11, SequenceCostType
<1>13. \A s \in A : \A i \in B : <<s, i>> \in R <=> s = c[i]
  OBVIOUS
<1>14. R \in SUBSET (A \X B)
  OBVIOUS
<1> HIDE DEF R, v, A, B
<1>15. ByFirst(w, v, R, A, B)
  <2>1. ASSUME NEW s \in A PROVE w[s] = Cardinality(SecondsOf(R, B, s)) * v[s]
    <3>1. SecondsOf(R, B, s) = {i \in B : c[i] = s}
      BY <1>13 DEF SecondsOf
    <3>2. w[s] = x[s] * v[s]
      BY <1>12 DEF A
    <3> QED BY <1>5, <3>1, <3>2
  <2> QED BY <2>1 DEF ByFirst
<1>16. BySecond(cz, v, R, A, B)
  <2>1. ASSUME NEW i \in B PROVE cz[i] = SumFunctionOnSet(v, FirstsOf(R, A, i))
    <3>1. c[i] \in A
      BY <1>5
    <3>2. FirstsOf(R, A, i) = {c[i]}
      BY <1>13, <3>1 DEF FirstsOf
    <3>3. SumFunctionOnSet(v, {c[i]}) = v[c[i]]
      BY <1>12, <3>1, SumOfOne
    <3>4. cz[i] = SequenceCost(I.jobs, c[i])
      BY <1>2, <1>3, <1>7
    <3> QED BY <1>12, <3>1, <3>2, <3>3, <3>4
  <2> QED BY <2>1 DEF BySecond
<1>17. SumFunctionOnSet(w, A) = SumFunctionOnSet(cz, B)
  BY <1>4, <1>6, <1>12, <1>14, <1>15, <1>16, SumOfPairs
<1> QED BY <1>9, <1>10, <1>17 DEF z, A

\* Half the units, of two flows the cheaper one.
LEMMA HalfTheFlow ==
  ASSUME NEW I, IsInstance(I), NEW D, IsDiagram(I, D), D.root # One, NEW m \in Nat, NEW f, IsFlow(D, f, 2 * m)
  PROVE  \E g : /\ IsFlow(D, g, m)
                /\ \A a \in MipArcs(D) : (f[a] = 0 => g[a] = 0) /\ (f[a] >= 2 => g[a] # 0)
                /\ 2 * MipCost(I, D, g) <= MipCost(I, D, f) /\ MipCost(I, D, g) \in Int
<1> DEFINE E == MipArcs(D)
           V == Vertices(D)
           s == SourceOf(D)
           t == TargetOf(D)
<1>1. \A a \in E : s[a] \in V /\ t[a] \in V
  <2>1. ASSUME NEW a \in E PROVE s[a] \in V /\ t[a] \in V
    <3>1. a[1] \in V /\ Target(D, a) \in V
      BY ArcsLeadDown DEF Vertices
    <3>2. s[a] = a[1] /\ t[a] = Target(D, a)
      BY DEF SourceOf, TargetOf
    <3> QED BY <3>1, <3>2
  <2> QED BY <2>1
<1>2. \A v \in V : Balance(E, s, t, f, v) = IF v = D.root THEN -(2 * m) ELSE IF v = One THEN 2 * m ELSE 0
  BY DEF IsFlow, Inflow
<1>3. \A v \in V : Even(Balance(E, s, t, f, v))
  <2> SUFFICES ASSUME NEW v \in V PROVE Even(Balance(E, s, t, f, v))
    OBVIOUS
  <2>1. CASE v = D.root
    <3>1. -m \in Int /\ Balance(E, s, t, f, v) = 2 * (-m)
      BY <1>2, <2>1
    <3> QED BY <3>1 DEF Even
  <2>2. CASE v # D.root /\ v = One
    <3>1. m \in Int /\ Balance(E, s, t, f, v) = 2 * m
      BY <1>2, <2>2
    <3> QED BY <3>1 DEF Even
  <2>3. CASE v # D.root /\ v # One
    <3>1. 0 \in Int /\ Balance(E, s, t, f, v) = 2 * 0
      BY <1>2, <2>3
    <3> QED BY <3>1 DEF Even
  <2> QED BY <2>1, <2>2, <2>3
<1>4. IsFiniteSet(E) /\ \A a \in E : f[a] \in Nat
  BY ArcsAreFinite DEF IsFlow
<1> HIDE DEF s, t, E, V
<1>5. PICK g, h : IsHalved(E, f, g, h) /\ \A v \in V : Balance(E, s, t, g, v) = Balance(E, s, t, h, v)
  <2>1. Connects(E, s, t, V) /\ IsEvenFlow(E, s, t, V, f)
    BY <1>1, <1>3, <1>4 DEF Connects, IsEvenFlow
  <2>2. \E g, h : IsHalved(E, f, g, h) /\ AreAlike(E, s, t, V, g, h)
    BY <1>4, <2>1, FlowHalves
  <2> QED BY <2>2 DEF AreAlike
<1>6. \A a \in E : g[a] \in Nat /\ h[a] \in Nat /\ g[a] \in Int /\ h[a] \in Int /\ f[a] = g[a] + h[a] /\ g[a] - h[a] \in {-1, 0, 1}
  BY <1>5 DEF IsHalved
<1>7. \A v \in V : Inflow(D, g, v) = Inflow(D, h, v)
  BY <1>5 DEF Inflow, s, t, E
<1>8. ASSUME NEW v \in V
      PROVE  /\ Inflow(D, g, v) = IF v = D.root THEN -m ELSE IF v = One THEN m ELSE 0
             /\ Inflow(D, h, v) = IF v = D.root THEN -m ELSE IF v = One THEN m ELSE 0
  <2>0. IsSumOf(D, f, g, h)
    BY <1>6 DEF E, IsSumOf
  <2>1. Inflow(D, f, v) = Inflow(D, g, v) + Inflow(D, h, v) /\ Inflow(D, g, v) \in Int
    BY <2>0, InflowOfSum
  <2>2. Inflow(D, f, v) = IF v = D.root THEN -(2 * m) ELSE IF v = One THEN 2 * m ELSE 0
    BY DEF IsFlow, V
  <2>3. Inflow(D, g, v) = Inflow(D, h, v)
    BY <1>7
  <2> QED BY <2>1, <2>2, <2>3
<1>9. IsFlow(D, g, m) /\ IsFlow(D, h, m)
  BY <1>6, <1>8 DEF IsFlow, E, V
<1>10. \A a \in E : (f[a] = 0 => g[a] = 0 /\ h[a] = 0) /\ (f[a] >= 2 => g[a] # 0 /\ h[a] # 0)
  <2> SUFFICES ASSUME NEW a \in E
               PROVE  (f[a] = 0 => g[a] = 0 /\ h[a] = 0) /\ (f[a] >= 2 => g[a] # 0 /\ h[a] # 0)
    OBVIOUS
  <2>1. g[a] \in Nat /\ h[a] \in Nat /\ f[a] = g[a] + h[a] /\ (g[a] - h[a] = -1 \/ g[a] - h[a] = 0 \/ g[a] - h[a] = 1)
    BY <1>6
  <2> QED BY <2>1
<1>11. MipCost(I, D, f) = MipCost(I, D, g) + MipCost(I, D, h) /\ MipCost(I, D, g) \in Int /\ MipCost(I, D, h) \in Int
  <2> DEFINE N == Nodes(D)
             share(x) == [n \in N |-> x[<<n, TRUE>>] * NodeCost(I, D)[n]]
  <2>1. IsFiniteSet(N)
    BY NodesAreFinite
  <2>2. ASSUME NEW n \in N
        PROVE  /\ share(g)[n] \in Int /\ share(h)[n] \in Int /\ share(f)[n] \in Int
               /\ share(f)[n] = share(g)[n] + share(h)[n]
    <3> DEFINE a == <<n, TRUE>>
               y == NodeCost(I, D)[n]
    <3>1. a \in E
      BY DEF E, MipArcs
    <3>2. y \in Int
      BY NodeCostType
    <3>3. share(f)[n] = f[a] * y /\ share(g)[n] = g[a] * y /\ share(h)[n] = h[a] * y
      OBVIOUS
    <3> HIDE DEF y, a, share
    <3>4. g[a] \in Int /\ h[a] \in Int /\ f[a] = g[a] + h[a]
      BY <1>6, <3>1
    <3>5. ASSUME NEW p \in Int, NEW q \in Int PROVE (p + q) * y = p * y + q * y /\ p * y \in Int /\ q * y \in Int /\ (p + q) * y \in Int
      BY <3>2
    <3>6. (g[a] + h[a]) * y = g[a] * y + h[a] * y /\ g[a] * y \in Int /\ h[a] * y \in Int /\ (g[a] + h[a]) * y \in Int
      BY <3>4, <3>5
    <3> QED BY <3>3, <3>4, <3>6
  <2>3. \A x : \A n \in N : share(x)[n] = x[<<n, TRUE>>] * WeightedTardinessStart(I.jobs[JobAt(I, n)], n[2])
    BY DEF NodeCost
  <2> HIDE DEF N, share
  <2>4. IsShare(share(f), I, D, f) /\ IsShare(share(g), I, D, g) /\ IsShare(share(h), I, D, h)
    BY <2>2, <2>3 DEF IsShare, N
  <2>5. /\ MipCost(I, D, f) = SumFunctionOnSet(share(f), N) /\ MipCost(I, D, g) = SumFunctionOnSet(share(g), N)
        /\ MipCost(I, D, h) = SumFunctionOnSet(share(h), N)
    BY <2>1, <2>4, MipCostIsSum DEF N
  <2>6. SumFunctionOnSet(share(f), N) = SumFunctionOnSet(share(g), N) + SumFunctionOnSet(share(h), N)
    BY <2>1, <2>2, SumOfSums
  <2>7. SumFunctionOnSet(share(g), N) \in Int /\ SumFunctionOnSet(share(h), N) \in Int
    BY <2>1, <2>2, SumType
  <2> QED BY <2>5, <2>6, <2>7
<1>12. CASE MipCost(I, D, g) <= MipCost(I, D, h)
  <2>1. 2 * MipCost(I, D, g) <= MipCost(I, D, f)
    BY <1>11, <1>12
  <2> QED BY <1>9, <1>10, <1>11, <2>1 DEF E
<1>13. CASE ~(MipCost(I, D, g) <= MipCost(I, D, h))
  <2>1. 2 * MipCost(I, D, h) <= MipCost(I, D, f)
    BY <1>11, <1>13
  <2> QED BY <1>9, <1>10, <1>11, <2>1 DEF E
<1> QED BY <1>12, <1>13

\* A job that a solution covers is started with a whole unit somewhere when it is integer.
LEMMA JobHasUnit ==
  ASSUME NEW I, IsInstance(I), NEW D, IsDiagram(I, D), NEW x, NEW c, IsSolution(I, D, x, c),
         IsInteger(I, D, x), NEW j \in DOMAIN I.jobs
  PROVE  \E n \in Nodes(D) : JobAt(I, n) = j /\ Flow(I, D, x)[n] >= Unit
<1> DEFINE N == {n \in Nodes(D) : JobAt(I, n) = j}
           w == Flow(I, D, x)
<1>1. SumFunctionOnSet(w, N) >= 2
  BY FlowCovers DEF Unit
<1>2. IsFiniteSet(N)
  BY NodesAreFinite, FS_Subset
<1>3. \A n \in N : w[n] \in Nat /\ (w[n] = 0 \/ w[n] >= Unit)
  BY FlowIsNat DEF IsInteger, Whole
<1>4. PICK n \in N : w[n] # 0
  <2> SUFFICES ASSUME \A n \in N : w[n] = 0 PROVE FALSE
    OBVIOUS
  <2> HIDE DEF N, w
  <2>1. 0 \in Int /\ Cardinality(N) \in Nat
    BY <1>2, FS_CardinalityType
  <2>2. SumFunctionOnSet(w, N) = Cardinality(N) * 0
    BY <1>2, <2>1, SumOfConstant
  <2> QED BY <1>1, <2>1, <2>2
<1> QED BY <1>3, <1>4

\* Where a node has flow its job is started, so that the diagram is not without nodes.
LEMMA RootHasNode ==
  ASSUME NEW I, IsInstance(I), NEW D, IsDiagram(I, D), NEW x, NEW c, IsSolution(I, D, x, c),
         NEW n \in Nodes(D), Flow(I, D, x)[n] >= Unit
  PROVE  D.root # One
<1> SUFFICES ASSUME D.root = One PROVE FALSE
  OBVIOUS
<1>1. PathsOf(I, D) = {<<>>}
  BY PathsFacts DEF PathsOf
<1>2. \A i \in DOMAIN c : c[i] = <<>>
  BY <1>1 DEF IsSolution
<1>3. n \notin Starts(I, D, <<>>)
  <2>1. <<>> \in Sequences(I) /\ 1 .. Len(<<>>) = {}
    BY EmptyFacts
  <2> QED BY <2>1, StartIsRun
<1>4. {i \in DOMAIN c : n \in Starts(I, D, c[i])} = {}
  BY <1>2, <1>3
<1>5. Flow(I, D, x)[n] = 0
  BY <1>4, FlowCounts, FS_EmptySet
<1> QED BY <1>5 DEF Unit

\* y is a schedule within the nodes that x uses, of what the columns w cost at the most.
IsScheduleOf(I, D, x, w, y) ==
  /\ y \in [1 .. I.m -> PathsOf(I, D)]
  /\ \A k \in 1 .. I.m : \A n \in Starts(I, D, y[k]) : Flow(I, D, x)[n] >= Unit
  /\ DOMAIN I.jobs = UNION {JobsOf(y[k]) : k \in 1 .. I.m}
  /\ Unit * SumFunctionOnSet([k \in 1 .. I.m |-> SequenceCost(I.jobs, y[k])], 1 .. I.m)
       <= SumFunctionOnSet(w, DOMAIN x)

\* Of an integer solution's flow half is a flow through the machines, each of which gets one of
\* the paths it is made of.
LEMMA ScheduleExists ==
  ASSUME NEW I, IsInstance(I), NEW D, IsDiagram(I, D), NEW x, NEW c, IsSolution(I, D, x, c), IsInteger(I, D, x),
         NEW w, \A s \in DOMAIN x : w[s] = x[s] * SequenceCost(I.jobs, s)
  PROVE  \E y : IsScheduleOf(I, D, x, w, y)
<1> DEFINE m == I.m
           f == Projected(I, D, Padded(I, c))
<1>1. m \in Nat /\ 2 * m \in Nat
  <2>1. I.m \in Nat
    BY DEF IsInstance
  <2> QED BY <2>1
<1>2. D.root # One
  <2>1. I.layers[1].job \in DOMAIN I.jobs
    <3>1. 1 \in DOMAIN I.layers
      BY InstanceFacts
    <3> QED BY <3>1, InstanceFacts
  <2>2. PICK n \in Nodes(D) : Flow(I, D, x)[n] >= Unit
    BY <2>1, JobHasUnit
  <2> QED BY <2>2, RootHasNode
<1>3. Padded(I, c) \in [1 .. 2 * m -> PathsOf(I, D)] /\ \A n \in Nodes(D) : f[<<n, TRUE>>] = Flow(I, D, x)[n]
  <2>1. Padded(I, c) \in [1 .. 2 * I.m -> PathsOf(I, D)] /\ StartsAs(D, f, Flow(I, D, x))
    BY PaddedFlow
  <2> HIDE DEF f
  <2> QED BY <2>1 DEF StartsAs
<1>4. IsFlow(D, f, 2 * m)
  BY <1>1, <1>2, <1>3, PathsAreFlow
<1>5. MipCost(I, D, f) = SumFunctionOnSet(w, DOMAIN x)
  BY PaddedCost
<1> HIDE DEF f
<1>6. PICK g : /\ IsFlow(D, g, m)
               /\ \A a \in MipArcs(D) : (f[a] = 0 => g[a] = 0) /\ (f[a] >= 2 => g[a] # 0)
               /\ 2 * MipCost(I, D, g) <= MipCost(I, D, f) /\ MipCost(I, D, g) \in Int
  BY <1>1, <1>2, <1>4, HalfTheFlow
<1>7. PICK y \in [1 .. m -> PathsOf(I, D)] : \A a \in MipArcs(D) : Projected(I, D, y)[a] = g[a]
  BY <1>1, <1>2, <1>6, FlowIsPaths
<1>8. ASSUME NEW n \in Nodes(D)
      PROVE  /\ (\E k \in 1 .. m : n \in Starts(I, D, y[k])) <=> g[<<n, TRUE>>] # 0
             /\ Flow(I, D, x)[n] >= Unit => g[<<n, TRUE>>] # 0
             /\ g[<<n, TRUE>>] # 0 => Flow(I, D, x)[n] >= Unit
  <2> DEFINE a == <<n, TRUE>>
             K == {k \in DOMAIN y : a \in Walk(I, D, y[k]).arcs}
  <2>1. a \in MipArcs(D)
    BY DEF MipArcs
  <2>2. g[a] = Cardinality(K)
    BY <1>7, <2>1 DEF Projected
  <2>3. IsFiniteSet(K) /\ DOMAIN y = 1 .. m
    BY <1>1, MachinesAreFinite, FS_Subset
  <2>4. \A k \in 1 .. m : n \in Starts(I, D, y[k]) <=> k \in K
    BY <2>3 DEF Starts
  <2>5. K = {} <=> Cardinality(K) = 0
    <3> HIDE DEF K
    <3> QED BY <2>3, FS_EmptySet
  <2>6. \A k \in K : k \in 1 .. m
    BY <2>3
  <2>7. (\E k \in 1 .. m : n \in Starts(I, D, y[k])) <=> g[a] # 0
    <3> HIDE DEF K
    <3> QED BY <2>2, <2>4, <2>5, <2>6
  <2>8. Flow(I, D, x)[n] = f[a] /\ f[a] \in Nat /\ (f[a] = 0 \/ f[a] >= 2)
    <3>1. Whole(Flow(I, D, x)[n])
      BY DEF IsInteger
    <3>2. f[a] \in Nat
      BY <1>4, <2>1 DEF IsFlow
    <3> QED BY <1>3, <3>1, <3>2 DEF Whole, Unit
  <2> HIDE DEF a
  <2>9. (f[a] = 0 => g[a] = 0) /\ (f[a] >= 2 => g[a] # 0)
    BY <1>6, <2>1
  <2> QED BY <2>7, <2>8, <2>9 DEF a, Unit
<1>9. \A k \in 1 .. m : \A n \in Starts(I, D, y[k]) : Flow(I, D, x)[n] >= Unit
  BY <1>8 DEF Starts
<1>10. ASSUME NEW j \in DOMAIN I.jobs PROVE \E k \in 1 .. m : j \in JobsOf(y[k])
  <2>1. PICK n \in Nodes(D) : JobAt(I, n) = j /\ Flow(I, D, x)[n] >= Unit
    BY JobHasUnit
  <2>2. PICK k \in 1 .. m : n \in Starts(I, D, y[k])
    BY <1>8, <2>1
  <2>3. y[k] \in Sequences(I)
    BY <1>7, PathIsShort
  <2>4. PICK i \in 1 .. Len(y[k]) : RunsAt(I, y[k], n, i)
    BY <2>2, <2>3, StartIsRun
  <2>5. i \in DOMAIN y[k]
    BY <2>3, SequenceFacts DEF Sequences
  <2> QED BY <2>1, <2>4, <2>5 DEF RunsAt, JobsOf
<1>11. ASSUME NEW k \in 1 .. m PROVE JobsOf(y[k]) \subseteq DOMAIN I.jobs
  <2>1. y[k] \in Sequences(I)
    BY <1>7, PathIsShort
  <2> QED BY <2>1, SequenceFacts DEF Sequences, JobsOf
<1>12. DOMAIN I.jobs = UNION {JobsOf(y[k]) : k \in 1 .. m}
  BY <1>10, <1>11
<1> DEFINE e == [k \in 1 .. m |-> SequenceCost(I.jobs, y[k])]
<1>13. SumFunctionOnSet(e, 1 .. m) = MipCost(I, D, g)
  <2> DEFINE N == Nodes(D)
             h == [n \in N |-> g[<<n, TRUE>>] * NodeCost(I, D)[n]]
  <2>1. \A k \in 1 .. m : e[k] = SequenceCost(I.jobs, y[k])
    OBVIOUS
  <2> HIDE DEF e
  <2>2. MipCost(I, D, Projected(I, D, y)) = SumFunctionOnSet(e, 1 .. m)
    BY <1>1, <1>7, <2>1, PathsArePriced
  <2>3. IsFiniteSet(N)
    BY NodesAreFinite
  <2>4. ASSUME NEW n \in N
        PROVE  /\ h[n] \in Int /\ h[n] = g[<<n, TRUE>>] * WeightedTardinessStart(I.jobs[JobAt(I, n)], n[2])
               /\ h[n] = Projected(I, D, y)[<<n, TRUE>>] * WeightedTardinessStart(I.jobs[JobAt(I, n)], n[2])
    <3> DEFINE a == <<n, TRUE>>
               v == NodeCost(I, D)[n]
    <3>1. a \in MipArcs(D)
      BY DEF MipArcs
    <3>2. g[a] \in Nat /\ Projected(I, D, y)[a] = g[a]
      BY <1>6, <1>7, <3>1 DEF IsFlow
    <3>3. v \in Int /\ v = WeightedTardinessStart(I.jobs[JobAt(I, n)], n[2])
      BY NodeCostType DEF NodeCost
    <3>4. h[n] = g[a] * v
      OBVIOUS
    <3> HIDE DEF a, v, h
    <3>5. g[a] * v \in Int
      BY <3>2, <3>3
    <3> QED BY <3>2, <3>3, <3>4, <3>5 DEF a
  <2> HIDE DEF h
  <2>5. IsShare(h, I, D, g) /\ IsShare(h, I, D, Projected(I, D, y))
    BY <2>4 DEF IsShare
  <2>6. MipCost(I, D, g) = SumFunctionOnSet(h, N) /\ MipCost(I, D, Projected(I, D, y)) = SumFunctionOnSet(h, N)
    BY <2>3, <2>5, MipCostIsSum
  <2> QED BY <2>2, <2>6
<1>14. Unit * SumFunctionOnSet(e, 1 .. m) <= SumFunctionOnSet(w, DOMAIN x)
  <2> HIDE DEF e
  <2> QED BY <1>5, <1>6, <1>13 DEF Unit
<1>15. IsScheduleOf(I, D, x, w, y)
  BY <1>7, <1>9, <1>12, <1>14 DEF IsScheduleOf
<1> QED BY <1>15

\* When each node has nothing or a whole unit of the LP solution, the nodes it uses hold a
\* schedule of all jobs that costs no more than it does: the node is done with, whether or
\* not the columns themselves are whole.
THEOREM IntegerIsSchedule == Spec => []IntegerHasSchedule
<1>1. SolutionInv => IntegerHasSchedule
  <2> SUFFICES ASSUME SolutionInv, lp # NoLP, IsInteger(inst, dd, lp) PROVE IntegerHasSchedule
    BY DEF IntegerHasSchedule
  <2>1. IsInstance(inst) /\ IsDiagram(inst, dd)
    BY DiagramAssumption DEF SolutionInv, DiagramInv
  <2>2. PICK c : IsSolution(inst, dd, lp, c)
    BY DEF SolutionInv
  <2> DEFINE w == [s \in DOMAIN lp |-> lp[s] * SequenceCost(inst.jobs, s)]
             flow == Flow(inst, dd, lp)
             within == {s \in PathsOf(inst, dd) \cup {<<>>} :
                          \A n \in Nodes(dd) : <<n, TRUE>> \in Walk(inst, dd, s).arcs => flow[n] >= Unit}
  <2>3. \A s \in DOMAIN lp : w[s] = lp[s] * SequenceCost(inst.jobs, s)
    OBVIOUS
  <2>4. SumFunctionOnSet(w, DOMAIN lp) = SumFunction(w)
    BY DEF SumFunction
  <2> HIDE DEF w
  <2>5. PICK y : IsScheduleOf(inst, dd, lp, w, y)
    BY <2>1, <2>2, <2>3, ScheduleExists
  <2>6. y \in [1 .. inst.m -> within]
    <3>1. ASSUME NEW k \in 1 .. inst.m PROVE y[k] \in within
      BY <2>5 DEF IsScheduleOf, Starts
    <3> HIDE DEF within
    <3> QED BY <2>5, <3>1 DEF IsScheduleOf
  <2>7. DOMAIN inst.jobs = UNION {JobsOf(y[k]) : k \in 1 .. inst.m}
    BY <2>5 DEF IsScheduleOf
  <2>8. Unit * SumFunction([k \in 1 .. inst.m |-> SequenceCost(inst.jobs, y[k])]) <= SumFunction(w)
    BY <2>4, <2>5 DEF IsScheduleOf, SumFunction
  <2> HIDE DEF within
  <2> QED BY <2>6, <2>7, <2>8 DEF IntegerHasSchedule, within, w
<1> QED BY <1>1, SolutionCorrect, PTL
================================================================================
