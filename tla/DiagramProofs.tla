----------------------------- MODULE DiagramProofs -----------------------------
(***************************************************************************)
(* What the filters of the decision diagram keep, for every instance.      *)
(***************************************************************************)
EXTENDS DecisionDiagram, FiniteSums

\* What a sequence is.
LEMMA SequenceFacts ==
  ASSUME NEW T, NEW s \in Seq(T)
  PROVE  /\ Len(s) \in Nat /\ DOMAIN s = 1 .. Len(s) /\ (s # <<>> => Len(s) # 0)
         /\ \A i \in DOMAIN s : s[i] \in T
OBVIOUS

LEMMA EqualSequences ==
  ASSUME NEW T, NEW s \in Seq(T), NEW r \in Seq(T), Len(s) = Len(r),
         \A i \in 1 .. Len(s) : s[i] = r[i]
  PROVE  s = r
OBVIOUS

LEMMA HeadedSequence ==
  ASSUME NEW T, NEW j \in T, NEW s \in Seq(T)
  PROVE  /\ <<j>> \o s \in Seq(T) /\ Len(<<j>> \o s) = Len(s) + 1
         /\ (<<j>> \o s)[1] = j /\ \A i \in 1 .. Len(s) : (<<j>> \o s)[i + 1] = s[i]
OBVIOUS

\* What is left of a sequence after i elements.
Rest(p, i) == SubSeq(p, i + 1, Len(p))

LEMMA RestFacts ==
  ASSUME NEW T, NEW p \in Seq(T)
  PROVE  /\ Rest(p, 0) = p
         /\ \A i \in 0 .. Len(p) : /\ Rest(p, i) \in Seq(T) /\ Len(Rest(p, i)) = Len(p) - i
                                   /\ \A k \in 1 .. Len(p) - i : Rest(p, i)[k] = p[i + k]
         /\ Rest(p, Len(p)) = <<>>
<1>1. ASSUME NEW i \in 0 .. Len(p)
      PROVE  /\ Rest(p, i) \in Seq(T) /\ Len(Rest(p, i)) = Len(p) - i
             /\ \A k \in 1 .. Len(p) - i : Rest(p, i)[k] = p[i + k]
  BY DEF Rest
<1>2. Rest(p, 0) = p
  <2>1. Len(p) \in Nat /\ Len(p) - 0 = Len(p) /\ \A k \in 1 .. Len(p) : 0 + k = k
    OBVIOUS
  <2>2. 0 \in 0 .. Len(p)
    BY <2>1, SMTT(30)
  <2>3. /\ Rest(p, 0) \in Seq(T) /\ Len(Rest(p, 0)) = Len(p)
        /\ \A k \in 1 .. Len(p) : Rest(p, 0)[k] = p[k]
    BY <1>1, <2>1, <2>2
  <2> QED BY <2>3, EqualSequences
<1> QED BY <1>1, <1>2

\* What is left begins with the next element.
LEMMA RestHeaded ==
  ASSUME NEW T, NEW p \in Seq(T), NEW i \in 0 .. Len(p), NEW j, NEW s \in Seq(T),
         Rest(p, i) = <<j>> \o s
  PROVE  i < Len(p) /\ j = p[i + 1] /\ s = Rest(p, i + 1)
<1>1. /\ Len(p) \in Nat /\ Len(Rest(p, i)) = Len(p) - i
      /\ \A k \in 1 .. Len(p) - i : Rest(p, i)[k] = p[i + k]
  BY RestFacts, SequenceFacts
<1>2. /\ Len(<<j>> \o s) = Len(s) + 1 /\ Len(s) \in Nat
      /\ (<<j>> \o s)[1] = j /\ \A k \in 1 .. Len(s) : (<<j>> \o s)[k + 1] = s[k]
  OBVIOUS
<1>3. i < Len(p) /\ Len(s) = Len(p) - (i + 1) /\ j = p[i + 1]
  <2>1. i \in Int /\ Len(p) - i = Len(s) + 1
    BY <1>1, <1>2
  <2>2. i < Len(p) /\ Len(s) = Len(p) - (i + 1) /\ 1 \in 1 .. Len(p) - i
    BY <1>1, <1>2, <2>1
  <2>3. Rest(p, i)[1] = p[i + 1]
    BY <1>1, <2>2
  <2> QED BY <1>2, <2>2, <2>3
<1>4. /\ Rest(p, i + 1) \in Seq(T) /\ Len(Rest(p, i + 1)) = Len(p) - (i + 1)
      /\ \A k \in 1 .. Len(p) - (i + 1) : Rest(p, i + 1)[k] = p[(i + 1) + k]
  <2>1. i + 1 \in 0 .. Len(p)
    BY <1>1, <1>3
  <2> QED BY <2>1, RestFacts
<1>5. ASSUME NEW k \in 1 .. Len(s) PROVE s[k] = Rest(p, i + 1)[k]
  <2>1. k + 1 \in 1 .. Len(p) - i /\ i + (k + 1) = (i + 1) + k
    BY <1>1, <1>2, <1>3
  <2>2. s[k] = p[i + (k + 1)]
    BY <1>1, <1>2, <2>1
  <2> QED BY <1>3, <1>4, <2>1, <2>2
<1> QED BY <1>2, <1>3, <1>4, <1>5, EqualSequences

LEMMA RestUnfolds ==
  ASSUME NEW T, NEW p \in Seq(T), NEW i \in 0 .. Len(p), i # Len(p)
  PROVE  Rest(p, i) = <<p[i + 1]>> \o Rest(p, i + 1) /\ p[i + 1] \in T
<1>1. /\ Len(p) \in Nat /\ Rest(p, i) \in Seq(T) /\ Len(Rest(p, i)) = Len(p) - i
      /\ \A k \in 1 .. Len(p) - i : Rest(p, i)[k] = p[i + k]
  BY RestFacts
<1>2. i + 1 \in 0 .. Len(p) /\ i + 1 \in 1 .. Len(p) /\ p[i + 1] \in T
  BY <1>1
<1>3. /\ Rest(p, i + 1) \in Seq(T) /\ Len(Rest(p, i + 1)) = Len(p) - (i + 1)
      /\ \A k \in 1 .. Len(p) - (i + 1) : Rest(p, i + 1)[k] = p[(i + 1) + k]
  BY <1>2, RestFacts
<1> DEFINE r == <<p[i + 1]>> \o Rest(p, i + 1)
<1>4. /\ r \in Seq(T) /\ Len(r) = Len(p) - i /\ r[1] = p[i + 1]
      /\ \A k \in 1 .. Len(p) - (i + 1) : r[k + 1] = p[(i + 1) + k]
  <2>1. /\ r \in Seq(T) /\ Len(r) = Len(Rest(p, i + 1)) + 1 /\ r[1] = p[i + 1]
        /\ \A k \in 1 .. Len(Rest(p, i + 1)) : r[k + 1] = Rest(p, i + 1)[k]
    BY <1>2, <1>3, HeadedSequence
  <2>2. i \in Int /\ Len(Rest(p, i + 1)) + 1 = Len(p) - i
    <3>1. \A a, b \in Int : (a - (b + 1)) + 1 = a - b
      OBVIOUS
    <3>2. i \in Int /\ Len(p) \in Int
      BY <1>1
    <3> HIDE DEF r
    <3> QED BY <1>3, <3>1, <3>2
  <2> HIDE DEF r
  <2>3. \A k \in 1 .. Len(p) - (i + 1) : r[k + 1] = p[(i + 1) + k]
    BY <1>3, <2>1
  <2> QED BY <2>1, <2>2, <2>3
<1>5. ASSUME NEW k \in 1 .. Len(p) - i PROVE r[k] = p[i + k]
  <2> HIDE DEF r
  <2>1. CASE k = 1
    BY <1>4, <2>1
  <2>2. CASE k # 1
    <3>1. k - 1 \in 1 .. Len(p) - (i + 1) /\ (k - 1) + 1 = k /\ (i + 1) + (k - 1) = i + k
      BY <1>1, <2>2
    <3>2. r[(k - 1) + 1] = p[(i + 1) + (k - 1)]
      BY <1>4, <3>1
    <3> QED BY <3>1, <3>2
  <2> QED BY <2>1, <2>2
<1>6. Rest(p, i) = r
  <2> HIDE DEF r
  <2>1. \A k \in 1 .. Len(Rest(p, i)) : Rest(p, i)[k] = r[k]
    BY <1>1, <1>5
  <2>2. Len(Rest(p, i)) = Len(r)
    BY <1>1, <1>4
  <2> QED BY <1>1, <1>4, <2>1, <2>2, EqualSequences
<1> QED BY <1>2, <1>6

(* Nodes and rows. *)

Vertices(D) == Nodes(D) \cup {One}

\* The arcs of a diagram lead down: a 0-arc keeps the time, a 1-arc adds the job's
\* length; every node's job fits the layer.
IsDiagram(I, D) ==
  /\ Nodes(D) \subseteq (DOMAIN I.layers) \X (0 .. Horizon(I))
  /\ D.lo \in [Nodes(D) -> Vertices(D)] /\ D.hi \in [Nodes(D) -> Vertices(D)]
  /\ D.root \in Vertices(D) /\ (D.root # One => D.root[2] = 0)
  /\ \A n \in Nodes(D) :
       /\ D.root # One /\ D.root[1] <= n[1]
       /\ Fits(I.jobs, I.layers[n[1]], n[2])
       /\ D.lo[n] # One => n[1] < D.lo[n][1] /\ D.lo[n][2] = n[2]
       /\ D.hi[n] # One => n[1] < D.hi[n][1] /\ D.hi[n][2] = n[2] + Length(I, n)

\* What an instance consists of.
LEMMA InstanceFacts ==
  ASSUME NEW I, IsInstance(I)
  PROVE  /\ Len(I.layers) \in Nat \ {0} /\ DOMAIN I.layers = 1 .. Len(I.layers)
         /\ \A l \in DOMAIN I.layers :
              /\ I.layers[l].job \in DOMAIN I.jobs
              /\ I.layers[l].a \in Nat /\ I.layers[l].b \in Nat /\ I.layers[l].b <= Horizon(I)
         /\ \A j \in DOMAIN I.jobs :
              I.jobs[j].p \in Nat \ {0} /\ I.jobs[j].d \in Nat /\ I.jobs[j].w \in Nat
         /\ DOMAIN I.jobs = 1 .. Len(I.jobs) /\ Len(I.jobs) \in Nat
         /\ Horizon(I) \in Nat
<1>1. /\ Len(I.layers) \in Nat \ {0} /\ DOMAIN I.layers = 1 .. Len(I.layers)
      /\ \A l \in DOMAIN I.layers :
              I.layers[l].job \in DOMAIN I.jobs /\ I.layers[l].a \in Nat /\ I.layers[l].b \in Nat
  <2> DEFINE T == [job : DOMAIN I.jobs, a : Nat, b : Nat]
  <2>1. I.layers \in Seq(T) /\ I.layers # <<>>
    BY DEF IsInstance
  <2>2. \A x \in T : x.job \in DOMAIN I.jobs /\ x.a \in Nat /\ x.b \in Nat
    OBVIOUS
  <2> HIDE DEF T
  <2>3. /\ Len(I.layers) \in Nat /\ DOMAIN I.layers = 1 .. Len(I.layers) /\ Len(I.layers) # 0
        /\ \A i \in DOMAIN I.layers : I.layers[i] \in T
    BY <2>1, SequenceFacts
  <2> QED BY <2>1, <2>2, <2>3
<1>2. /\ DOMAIN I.jobs = 1 .. Len(I.jobs) /\ Len(I.jobs) \in Nat
      /\ \A j \in DOMAIN I.jobs :
              I.jobs[j].p \in Nat \ {0} /\ I.jobs[j].d \in Nat /\ I.jobs[j].w \in Nat
  <2> DEFINE T == [p : Nat \ {0}, d : Nat, w : Nat]
  <2>1. I.jobs \in Seq(T)
    BY DEF IsInstance
  <2>2. \A x \in T : x.p \in Nat \ {0} /\ x.d \in Nat /\ x.w \in Nat
    OBVIOUS
  <2> HIDE DEF T
  <2>3. /\ Len(I.jobs) \in Nat /\ DOMAIN I.jobs = 1 .. Len(I.jobs)
        /\ \A i \in DOMAIN I.jobs : I.jobs[i] \in T
    BY <2>1, SequenceFacts
  <2> QED BY <2>1, <2>2, <2>3
<1> DEFINE f == [l \in DOMAIN I.layers |-> I.layers[l].b]
           S == {f[l] : l \in DOMAIN I.layers}
<1>3. S = {I.layers[l].b : l \in DOMAIN I.layers}
  OBVIOUS
<1>4. IsFiniteSet(S)
  <2>1. IsFiniteSet(DOMAIN I.layers) /\ DOMAIN f = DOMAIN I.layers
    BY <1>1, FS_Interval
  <2> HIDE DEF f
  <2> QED BY <2>1, FiniteImage
<1>5. S \in SUBSET Nat /\ S # {}
  <2>1. f[1] \in S /\ \A l \in DOMAIN I.layers : f[l] \in Nat
    BY <1>1
  <2> QED BY <2>1
<1>6. Max(S) \in S /\ \A b \in S : Max(S) >= b
  <2>1. S \in SUBSET Int
    BY <1>5
  <2> HIDE DEF S
  <2> QED BY <1>4, <1>5, <2>1, MaxIsGreatest
<1>7. Horizon(I) = Max(S)
  BY <1>3 DEF Horizon
<1>8. Horizon(I) \in Nat /\ \A l \in DOMAIN I.layers : I.layers[l].b <= Horizon(I)
  <2>1. \A l \in DOMAIN I.layers : I.layers[l].b \in S
    OBVIOUS
  <2> HIDE DEF S
  <2> QED BY <1>5, <1>6, <1>7, <2>1
<1> QED BY <1>1, <1>2, <1>8

\* What a node is.
LEMMA NodeFacts ==
  ASSUME NEW I, IsInstance(I), NEW D, IsDiagram(I, D), NEW n \in Nodes(D)
  PROVE  /\ n = <<n[1], n[2]>> /\ n[1] \in 1 .. Len(I.layers) /\ n[1] \in DOMAIN I.layers
         /\ n[2] \in 0 .. Horizon(I) /\ n # One
         /\ JobAt(I, n) \in DOMAIN I.jobs /\ Length(I, n) \in Nat \ {0}
         /\ n[2] + Length(I, n) <= Horizon(I)
         /\ D.lo[n] \in Vertices(D) /\ D.hi[n] \in Vertices(D)
<1>1. n \in (DOMAIN I.layers) \X (0 .. Horizon(I))
  BY DEF IsDiagram
<1>2. n = <<n[1], n[2]>> /\ n[1] \in DOMAIN I.layers /\ n[2] \in 0 .. Horizon(I)
  BY <1>1
<1>3. n[1] \in 1 .. Len(I.layers) /\ n # One
  BY <1>2, InstanceFacts DEF One
<1>4. JobAt(I, n) \in DOMAIN I.jobs /\ Length(I, n) \in Nat \ {0}
  BY <1>2, InstanceFacts DEF JobAt, Length
<1>5. n[2] + Length(I, n) <= I.layers[n[1]].b
  BY DEF IsDiagram, Fits, Length, JobAt
<1>6. n[2] + Length(I, n) <= Horizon(I)
  <2>1. I.layers[n[1]].b <= Horizon(I) /\ I.layers[n[1]].b \in Nat /\ Horizon(I) \in Nat
    BY <1>2, InstanceFacts
  <2> QED BY <1>2, <1>4, <1>5, <2>1
<1> QED BY <1>2, <1>3, <1>4, <1>6 DEF IsDiagram

\* How far a vertex is from the terminal.
Depth(I, n) == IF n = One THEN 0 ELSE Len(I.layers) + 1 - n[1]

LEMMA DepthFalls ==
  ASSUME NEW I, IsInstance(I), NEW D, IsDiagram(I, D)
  PROVE  /\ \A n \in Vertices(D) : Depth(I, n) \in 0 .. Len(I.layers)
         /\ \A n \in Nodes(D) : /\ Depth(I, D.lo[n]) < Depth(I, n)
                                /\ Depth(I, D.hi[n]) < Depth(I, n)
<1>1. ASSUME NEW n \in Nodes(D) PROVE Depth(I, n) = Len(I.layers) + 1 - n[1] /\ n[1] \in 1 .. Len(I.layers)
  BY NodeFacts DEF Depth
<1>2. Len(I.layers) \in Nat
  BY InstanceFacts
<1>3. \A n \in Vertices(D) : Depth(I, n) \in 0 .. Len(I.layers)
  <2>1. Depth(I, One) = 0
    BY DEF Depth
  <2> QED BY <1>1, <1>2, <2>1 DEF Vertices
<1>4. ASSUME NEW n \in Nodes(D), NEW c \in {D.lo[n], D.hi[n]} PROVE Depth(I, c) < Depth(I, n)
  <2>1. c \in Vertices(D) /\ (c # One => n[1] < c[1])
    BY NodeFacts DEF IsDiagram
  <2>2. CASE c = One
    BY <1>1, <1>2, <2>2 DEF Depth
  <2>3. CASE c # One
    <3>1. c \in Nodes(D)
      BY <2>1, <2>3 DEF Vertices
    <3> QED BY <1>1, <1>2, <2>1, <2>3, <3>1
  <2> QED BY <2>2, <2>3
<1> QED BY <1>3, <1>4

\* A set of vertices holds all if it holds the terminal and each node whose arcs lead
\* into it.
LEMMA DiagramInduction ==
  ASSUME NEW I, IsInstance(I), NEW D, IsDiagram(I, D), NEW F, One \in F,
         \A n \in Nodes(D) : D.lo[n] \in F /\ D.hi[n] \in F => n \in F
  PROVE  \A n \in Vertices(D) : n \in F
<1> DEFINE S == {k \in Nat : \A n \in Vertices(D) : Depth(I, n) <= k => n \in F}
<1>0. /\ \A n \in Vertices(D) : Depth(I, n) \in 0 .. Len(I.layers)
      /\ \A n \in Nodes(D) : Depth(I, D.lo[n]) < Depth(I, n) /\ Depth(I, D.hi[n]) < Depth(I, n)
      /\ \A n \in Nodes(D) : D.lo[n] \in Vertices(D) /\ D.hi[n] \in Vertices(D)
      /\ Len(I.layers) \in Nat
  BY DepthFalls, NodeFacts, InstanceFacts
<1>1. 0 \in S
  <2> SUFFICES ASSUME NEW n \in Vertices(D), Depth(I, n) <= 0 PROVE n \in F
    OBVIOUS
  <2>1. CASE n = One
    BY <2>1
  <2>2. CASE n \in Nodes(D)
    <3>1. Depth(I, D.lo[n]) < Depth(I, n) /\ Depth(I, D.lo[n]) \in 0 .. Len(I.layers)
          /\ Depth(I, n) \in 0 .. Len(I.layers)
      BY <1>0, <2>2
    <3> QED BY <3>1, <1>0
  <2> QED BY <2>1, <2>2 DEF Vertices
<1>2. ASSUME NEW k \in S, k \in Nat PROVE k + 1 \in S
  <2> SUFFICES ASSUME NEW n \in Vertices(D), Depth(I, n) <= k + 1 PROVE n \in F
    OBVIOUS
  <2>1. CASE n = One
    BY <2>1
  <2>2. CASE n \in Nodes(D)
    <3>1. Depth(I, D.lo[n]) <= k /\ Depth(I, D.hi[n]) <= k
      <4>1. /\ Depth(I, n) \in Nat /\ Depth(I, D.lo[n]) \in Nat /\ Depth(I, D.hi[n]) \in Nat
            /\ Depth(I, D.lo[n]) < Depth(I, n) /\ Depth(I, D.hi[n]) < Depth(I, n)
        BY <1>0, <2>2
      <4>2. k \in Nat
        BY <1>2
      <4> HIDE DEF S
      <4> QED BY <4>1, <4>2
    <3>2. D.lo[n] \in F /\ D.hi[n] \in F
      BY <1>0, <1>2, <2>2, <3>1
    <3> QED BY <2>2, <3>2
  <2> QED BY <2>1, <2>2 DEF Vertices
<1>3. Len(I.layers) \in S
  <2>1. \A k \in Nat : k \in S
    <3> HIDE DEF S
    <3> QED BY <1>1, <1>2, NatSetInduction, SMTT(30)
  <2> QED BY <2>1, <1>0
<1> QED BY <1>0, <1>3

\* A function may be defined from the terminal up: g[n][low][high] is what it is at n
\* if it is low and high where the arcs of n lead.
IsJoin(g, D, V) == g \in [Nodes(D) -> [V -> [V -> V]]]
IsRecursion(f, D, base, g) ==
  f = [n \in Nodes(D) \cup {One} |-> IF n = One THEN base ELSE g[n][f[D.lo[n]]][f[D.hi[n]]]]

LEMMA DiagramRecursion ==
  ASSUME NEW I, IsInstance(I), NEW D, IsDiagram(I, D), NEW V, NEW base \in V,
         NEW g, IsJoin(g, D, V)
  PROVE  \E f \in [Vertices(D) -> V] : IsRecursion(f, D, base, g)
<1> DEFINE N == Vertices(D)
           K == Len(I.layers)
           rank == [n \in N |-> Depth(I, n)]
           step == [n \in N |-> [h \in [N -> V] |->
                      IF n = One THEN base ELSE g[n][h[D.lo[n]]][h[D.hi[n]]]]]
<1>0. /\ \A n \in N : rank[n] \in 0 .. K
      /\ \A n \in Nodes(D) : rank[D.lo[n]] < rank[n] /\ rank[D.hi[n]] < rank[n]
      /\ \A n \in Nodes(D) : D.lo[n] \in N /\ D.hi[n] \in N
      /\ K \in Nat
  <2>1. \A n \in Nodes(D) : n \in N /\ D.lo[n] \in N /\ D.hi[n] \in N
    BY NodeFacts DEF Vertices
  <2> QED BY <2>1, DepthFalls, InstanceFacts
<1>1. rank \in [N -> 0 .. K]
  BY <1>0
<1>2. IsStep(step, N, V)
  <2> SUFFICES ASSUME NEW n \in N, NEW h \in [N -> V], n # One
               PROVE g[n][h[D.lo[n]]][h[D.hi[n]]] \in V
    BY DEF IsStep
  <2>1. n \in Nodes(D)
    BY DEF Vertices
  <2>2. h[D.lo[n]] \in V /\ h[D.hi[n]] \in V
    BY <1>0, <2>1
  <2>3. g[n] \in [V -> [V -> V]]
    BY <2>1 DEF IsJoin
  <2> HIDE DEF N
  <2>4. g[n][h[D.lo[n]]] \in [V -> V]
    BY <2>2, <2>3, SMTT(30)
  <2> QED BY <2>2, <2>4
<1>3. ASSUME NEW n \in N, NEW h \in [N -> V], NEW k \in [N -> V],
             \A x \in N : rank[x] < rank[n] => h[x] = k[x]
      PROVE  step[n][h] = step[n][k]
  <2>1. CASE n = One
    BY <2>1
  <2>2. CASE n # One
    <3>1. n \in Nodes(D)
      BY <2>2 DEF Vertices
    <3>2. h[D.lo[n]] = k[D.lo[n]] /\ h[D.hi[n]] = k[D.hi[n]]
      <4> HIDE DEF rank, N
      <4> QED BY <1>0, <1>3, <3>1
    <3> QED BY <2>2, <3>2
  <2> QED BY <2>1, <2>2
<1>4. IsLocal(step, N, V, rank)
  <2> HIDE DEF N, K, rank, step
  <2> QED BY <1>3 DEF IsLocal
<1>7. V # {} /\ K \in Nat
  BY <1>0
<1>8. \E f \in [N -> V] : \A n \in N : f[n] = step[n][f]
  <2> HIDE DEF N, K, rank, step
  <2>1. K \in Nat
    BY <1>7
  <2>2. rank \in [N -> 0 .. K]
    BY <1>1
  <2>3. V # {}
    BY <1>7
  <2>4. IsStep(step, N, V)
    BY <1>2
  <2>5. IsLocal(step, N, V, rank)
    BY <1>4, SMTT(30)
  <2> QED BY <2>1, <2>2, <2>3, <2>4, <2>5, RecursionIsDefined
<1>9. PICK f \in [N -> V] : \A n \in N : f[n] = step[n][f]
  BY <1>8
<1>5. \A n \in N : f[n] = IF n = One THEN base ELSE g[n][f[D.lo[n]]][f[D.hi[n]]]
  BY <1>9
<1>6. f = [n \in N |-> f[n]]
  OBVIOUS
<1>10. f = [n \in N |-> IF n = One THEN base ELSE g[n][f[D.lo[n]]][f[D.hi[n]]]]
  BY <1>5, <1>6, Zenon
<1> QED BY <1>10 DEF IsRecursion, Vertices

--------------------------------------------------------------------------------
(* What the recursive definitions over a diagram say. *)

Sequences(I) == Seq(DOMAIN I.jobs)
Headed(j, P) == {<<j>> \o s : s \in P}

LEMMA PathsFacts ==
  ASSUME NEW I, IsInstance(I), NEW D, IsDiagram(I, D)
  PROVE  /\ PathsBelow(I, D)[One] = {<<>>}
         /\ \A n \in Nodes(D) :
              PathsBelow(I, D)[n] = PathsBelow(I, D)[D.lo[n]] \cup Headed(JobAt(I, n), PathsBelow(I, D)[D.hi[n]])
         /\ \A n \in Vertices(D) : PathsBelow(I, D)[n] \subseteq Sequences(I)
<1> DEFINE V == SUBSET Sequences(I)
           N == Nodes(D) \cup {One}
           Is(f) == f = [n \in N |-> IF n = One THEN {<<>>}
                           ELSE f[D.lo[n]] \cup {<<JobAt(I, n)>> \o s : s \in f[D.hi[n]]}]
           g == [n \in Nodes(D) |-> [a \in V |-> [b \in V |-> a \cup Headed(JobAt(I, n), b)]]]
<1>0. \A n \in Nodes(D) : n \in N /\ n # One /\ JobAt(I, n) \in DOMAIN I.jobs
                            /\ D.lo[n] \in N /\ D.hi[n] \in N
  BY NodeFacts DEF Vertices
<1>1. {<<>>} \in V
  BY DEF Sequences
<1>2. ASSUME NEW j \in DOMAIN I.jobs, NEW b \in V PROVE Headed(j, b) \in V
  <2> DEFINE T == DOMAIN I.jobs
  <2>1. \A s \in Seq(T) : <<j>> \o s \in Seq(T)
    BY HeadedSequence
  <2> QED BY <2>1 DEF Headed, Sequences
<1>3. IsJoin(g, D, V)
  <2>1. \A n \in Nodes(D), a \in V, b \in V : a \cup Headed(JobAt(I, n), b) \in V
    BY <1>0, <1>2
  <2> HIDE DEF V
  <2> QED BY <2>1 DEF IsJoin
<1>4. \E f : Is(f)
  <2>1. PICK f \in [Vertices(D) -> V] : IsRecursion(f, D, {<<>>}, g)
    <3> HIDE DEF V, g
    <3> QED BY <1>1, <1>3, DiagramRecursion
  <2>2. \A n \in Nodes(D) : f[D.lo[n]] \in V /\ f[D.hi[n]] \in V
    BY <1>0 DEF Vertices
  <2>3. \A n \in Nodes(D) : g[n][f[D.lo[n]]][f[D.hi[n]]] = f[D.lo[n]] \cup Headed(JobAt(I, n), f[D.hi[n]])
    <3> HIDE DEF V
    <3> QED BY <2>2
  <2>4. f = [n \in N |-> IF n = One THEN {<<>>} ELSE g[n][f[D.lo[n]]][f[D.hi[n]]]]
    BY <2>1 DEF IsRecursion
  <2>5. \A n \in N : n # One => n \in Nodes(D)
    BY SMTT(30)
  <2>6. f = [n \in N |-> IF n = One THEN {<<>>} ELSE f[D.lo[n]] \cup Headed(JobAt(I, n), f[D.hi[n]])]
    <3> HIDE DEF g, N
    <3> QED BY <2>3, <2>4, <2>5, ZenonT(40)
  <2> QED BY <2>6 DEF Headed
<1>5. Is(PathsBelow(I, D))
  BY <1>4 DEF PathsBelow
<1> DEFINE f == PathsBelow(I, D)
<1>6. f[One] = {<<>>} /\ \A n \in Nodes(D) : f[n] = f[D.lo[n]] \cup Headed(JobAt(I, n), f[D.hi[n]])
  <2> HIDE DEF f
  <2>1. f = [n \in N |-> IF n = One THEN {<<>>} ELSE f[D.lo[n]] \cup Headed(JobAt(I, n), f[D.hi[n]])]
    BY <1>5 DEF Headed, f
  <2>2. One \in N
    OBVIOUS
  <2> QED BY <1>0, <2>1, <2>2
<1>7. \A n \in Vertices(D) : f[n] \in V
  <2> DEFINE F == {n \in Vertices(D) : f[n] \in V}
  <2> HIDE DEF f
  <2>1. One \in F
    BY <1>1, <1>6 DEF Vertices
  <2>2. ASSUME NEW n \in Nodes(D), D.lo[n] \in F, D.hi[n] \in F PROVE n \in F
    <3>1. Headed(JobAt(I, n), f[D.hi[n]]) \in V
      BY <1>0, <1>2, <2>2
    <3>2. f[n] \in V
      BY <1>6, <2>2, <3>1
    <3> QED BY <3>2 DEF Vertices
  <2> HIDE DEF F
  <2>3. \A n \in Vertices(D) : n \in F
    BY <2>1, <2>2, DiagramInduction
  <2> QED BY <2>3 DEF F
<1> QED BY <1>6, <1>7

--------------------------------------------------------------------------------
(* The reduction. *)

\* What points to a node of S is redirected to the first vertex along the 0-arcs that
\* keeps its 1-arc.
LEMMA RedirectFacts ==
  ASSUME NEW I, IsInstance(I), NEW D, IsDiagram(I, D), NEW S, S \subseteq Nodes(D)
  PROVE  /\ \A x \in Vertices(D) :
              /\ Redirected(D, S)[x] = IF x \in S THEN Redirected(D, S)[D.lo[x]] ELSE x
              /\ Redirected(D, S)[x] \in Vertices(D) /\ Redirected(D, S)[x] \notin S
              /\ Redirected(D, S)[x] # One =>
                   /\ x # One /\ x[1] <= Redirected(D, S)[x][1] /\ Redirected(D, S)[x][2] = x[2]
         /\ Redirected(D, S)[One] = One
<1> DEFINE V == Vertices(D)
           Is(f) == f = [x \in Nodes(D) \cup {One} |-> IF x \in S THEN f[D.lo[x]] ELSE x]
           g == [n \in Nodes(D) |-> [a \in V |-> [b \in V |-> IF n \in S THEN a ELSE n]]]
<1>0. /\ \A n \in Nodes(D) : n \in V /\ n # One /\ D.lo[n] \in V /\ D.hi[n] \in V
      /\ One \in V /\ One \notin S
  BY NodeFacts DEF Vertices
<1>1. IsJoin(g, D, V)
  BY <1>0 DEF IsJoin
<1>2. \E f : Is(f)
  <2>1. PICK f \in [Vertices(D) -> V] : IsRecursion(f, D, One, g)
    <3> HIDE DEF V, g
    <3> QED BY <1>0, <1>1, DiagramRecursion
  <2>2. \A n \in Nodes(D) : g[n][f[D.lo[n]]][f[D.hi[n]]] = IF n \in S THEN f[D.lo[n]] ELSE n
    <3>1. \A n \in Nodes(D) : f[D.lo[n]] \in V /\ f[D.hi[n]] \in V
      BY <1>0, SMTT(30)
    <3> HIDE DEF V
    <3> QED BY <3>1
  <2>3. f = [n \in Nodes(D) \cup {One} |-> IF n = One THEN One ELSE g[n][f[D.lo[n]]][f[D.hi[n]]]]
    BY <2>1 DEF IsRecursion
  <2>4. \A n \in Nodes(D) \cup {One} :
          (IF n = One THEN One ELSE g[n][f[D.lo[n]]][f[D.hi[n]]]) = IF n \in S THEN f[D.lo[n]] ELSE n
    <3> HIDE DEF g
    <3> QED BY <1>0, <2>2, SMTT(30)
  <2>5. Is(f)
    <3> HIDE DEF g
    <3> QED BY <2>3, <2>4
  <2> QED BY <2>5
<1>3. Is(Redirected(D, S))
  BY <1>2 DEF Redirected
<1> DEFINE to == Redirected(D, S)
<1>4. \A x \in V : to[x] = IF x \in S THEN to[D.lo[x]] ELSE x
  <2>1. to = [x \in V |-> IF x \in S THEN to[D.lo[x]] ELSE x]
    BY <1>3 DEF Vertices
  <2> HIDE DEF to, V
  <2> QED BY <2>1
<1> DEFINE F == {x \in V : to[x] \in V /\ to[x] \notin S /\
                           (to[x] # One => x # One /\ x[1] <= to[x][1] /\ to[x][2] = x[2])}
<1>5. to[One] = One
  <2> HIDE DEF to
  <2> QED BY <1>0, <1>4
<1>6. One \in F
  <2> HIDE DEF to
  <2> QED BY <1>0, <1>5
<1>7. ASSUME NEW n \in Nodes(D), D.lo[n] \in F, D.hi[n] \in F PROVE n \in F
  <2>1. n[1] \in Int /\ (D.lo[n] # One => n[1] < D.lo[n][1] /\ D.lo[n][2] = n[2])
    BY NodeFacts DEF IsDiagram
  <2>2. CASE n \notin S
    <3> HIDE DEF to
    <3> QED BY <1>0, <1>4, <2>1, <2>2
  <2>3. CASE n \in S
    <3>1. to[n] = to[D.lo[n]]
      <4> HIDE DEF to
      <4> QED BY <1>0, <1>4, <2>3
    <3>2. to[n] \in V /\ to[n] \notin S
      <4> HIDE DEF to
      <4> QED BY <1>7, <3>1
    <3>3. ASSUME to[n] # One PROVE n # One /\ n[1] <= to[n][1] /\ to[n][2] = n[2]
      <4>1. D.lo[n] # One /\ D.lo[n][1] <= to[n][1] /\ to[n][2] = D.lo[n][2]
        <5> HIDE DEF to
        <5> QED BY <1>7, <3>1, <3>3
      <4>2. D.lo[n] \in Nodes(D) /\ to[n] \in Nodes(D)
        <5> HIDE DEF to
        <5> QED BY <1>0, <3>2, <3>3, <4>1 DEF Vertices
      <4>3. D.lo[n][1] \in Int /\ to[n][1] \in Int
        <5> HIDE DEF to
        <5> QED BY <4>2, NodeFacts
      <4> HIDE DEF to
      <4> QED BY <1>0, <2>1, <4>1, <4>3
    <3> HIDE DEF to
    <3> QED BY <1>0, <3>2, <3>3
  <2> QED BY <2>2, <2>3
<1>8. \A n \in Vertices(D) : n \in F
  <2> HIDE DEF F
  <2> QED BY <1>6, <1>7, DiagramInduction
<1> QED BY <1>4, <1>5, <1>8

\* The nodes and arcs that are left, which are a diagram.
LEMMA CompressFacts ==
  ASSUME NEW I, IsInstance(I), NEW D, IsDiagram(I, D), NEW S, S \subseteq Nodes(D)
  PROVE  /\ Compress(D, S).root = Redirected(D, S)[D.root]
         /\ Nodes(Compress(D, S)) = {n \in Nodes(D) \ S : Compress(D, S).root # One /\ n[1] >= Compress(D, S).root[1]}
         /\ \A n \in Nodes(Compress(D, S)) :
              /\ Compress(D, S).lo[n] = Redirected(D, S)[D.lo[n]]
              /\ Compress(D, S).hi[n] = Redirected(D, S)[D.hi[n]]
         /\ IsDiagram(I, Compress(D, S))
<1> DEFINE E == Compress(D, S)
           to == Redirected(D, S)
           kept == {n \in Nodes(D) \ S : E.root # One /\ n[1] >= E.root[1]}
<1>1. /\ E.root = to[D.root]
      /\ E.lo = [n \in kept |-> to[D.lo[n]]] /\ E.hi = [n \in kept |-> to[D.hi[n]]]
  <2>1. E = [root |-> to[D.root],
             lo |-> [n \in {n \in Nodes(D) \ S : to[D.root] # One /\ n[1] >= to[D.root][1]} |-> to[D.lo[n]]],
             hi |-> [n \in {n \in Nodes(D) \ S : to[D.root] # One /\ n[1] >= to[D.root][1]} |-> to[D.hi[n]]]]
    BY DEF Compress, Root
  <2> HIDE DEF E, to
  <2>2. E.root = to[D.root]
    BY <2>1
  <2> QED BY <2>1, <2>2
<1> HIDE DEF E, to
<1>2. Nodes(E) = kept
  BY <1>1 DEF Nodes
<1>3. \A n \in kept : E.lo[n] = to[D.lo[n]] /\ E.hi[n] = to[D.hi[n]]
  BY <1>1
<1>4. /\ \A x \in Vertices(D) :
              /\ to[x] = IF x \in S THEN to[D.lo[x]] ELSE x
              /\ to[x] \in Vertices(D) /\ to[x] \notin S
              /\ to[x] # One => x # One /\ x[1] <= to[x][1] /\ to[x][2] = x[2]
      /\ to[One] = One
  BY RedirectFacts DEF to
<1>5. /\ D.root \in Vertices(D) /\ (D.root # One => D.root[2] = 0)
      /\ \A n \in Nodes(D) :
       /\ D.root # One /\ D.root[1] <= n[1]
       /\ Fits(I.jobs, I.layers[n[1]], n[2])
       /\ D.lo[n] # One => n[1] < D.lo[n][1] /\ D.lo[n][2] = n[2]
       /\ D.hi[n] # One => n[1] < D.hi[n][1] /\ D.hi[n][2] = n[2] + Length(I, n)
  BY DEF IsDiagram
<1>6. E.root # One => E.root \in kept /\ E.root[2] = 0
  <2> SUFFICES ASSUME E.root # One PROVE E.root \in kept /\ E.root[2] = 0
    OBVIOUS
  <2>1. E.root \in Nodes(D) /\ E.root \notin S /\ D.root # One /\ E.root[2] = D.root[2]
    BY <1>1, <1>4, <1>5 DEF Vertices
  <2>2. E.root[1] \in Int
    BY <2>1, NodeFacts
  <2> QED BY <1>5, <2>1, <2>2
<1>7. ASSUME NEW n \in kept, NEW c \in Vertices(D), c # One => n[1] < c[1]
      PROVE  to[c] \in kept \cup {One}
  <2> SUFFICES ASSUME to[c] # One PROVE to[c] \in kept
    OBVIOUS
  <2>1. to[c] \in Nodes(D) /\ to[c] \notin S /\ c # One /\ c[1] <= to[c][1] /\ c \in Nodes(D)
    BY <1>4 DEF Vertices
  <2>2. n \in Nodes(D) /\ E.root # One /\ n[1] >= E.root[1]
    OBVIOUS
  <2>3. to[c][1] \in Int /\ c[1] \in Int /\ n[1] \in Int /\ E.root[1] \in Int
    BY <1>6, <2>1, <2>2, NodeFacts
  <2> QED BY <1>7, <2>1, <2>2, <2>3
<1>8. ASSUME NEW n \in kept
      PROVE  /\ n \in Nodes(D) /\ D.lo[n] \in Vertices(D) /\ D.hi[n] \in Vertices(D)
             /\ to[D.lo[n]] \in kept \cup {One} /\ to[D.hi[n]] \in kept \cup {One}
  BY <1>5, <1>7, NodeFacts
<1>9. ASSUME NEW n \in kept
      PROVE  /\ E.root # One /\ E.root[1] <= n[1]
             /\ Fits(I.jobs, I.layers[n[1]], n[2])
             /\ E.lo[n] # One => n[1] < E.lo[n][1] /\ E.lo[n][2] = n[2]
             /\ E.hi[n] # One => n[1] < E.hi[n][1] /\ E.hi[n][2] = n[2] + Length(I, n)
  <2>1. n \in Nodes(D) /\ E.root # One /\ n[1] \in Int /\ n[1] >= E.root[1] /\ E.root[1] \in Int
    BY <1>6, NodeFacts
  <2>2. ASSUME NEW c \in Vertices(D), c # One => n[1] < c[1], to[c] # One
        PROVE  n[1] < to[c][1] /\ c # One /\ to[c][2] = c[2]
    <3>1. to[c] \in Nodes(D) /\ c # One /\ c[1] <= to[c][1] /\ to[c][2] = c[2] /\ c \in Nodes(D)
      BY <1>4, <2>2 DEF Vertices
    <3>2. to[c][1] \in Int /\ c[1] \in Int
      BY <3>1, NodeFacts
    <3> QED BY <2>1, <2>2, <3>1, <3>2
  <2> HIDE DEF kept
  <2>3. E.lo[n] # One => n[1] < E.lo[n][1] /\ E.lo[n][2] = n[2]
    BY <1>3, <1>5, <1>8, <2>1, <2>2
  <2>4. E.hi[n] # One => n[1] < E.hi[n][1] /\ E.hi[n][2] = n[2] + Length(I, n)
    BY <1>3, <1>5, <1>8, <2>1, <2>2
  <2> QED BY <1>5, <2>1, <2>3, <2>4
<1>10. IsDiagram(I, E)
  <2>1. Nodes(E) \subseteq (DOMAIN I.layers) \X (0 .. Horizon(I))
    BY <1>2 DEF IsDiagram
  <2>2. E.lo \in [Nodes(E) -> Vertices(E)] /\ E.hi \in [Nodes(E) -> Vertices(E)]
    <3> HIDE DEF kept
    <3> QED BY <1>1, <1>2, <1>8 DEF Vertices
  <2>3. E.root \in Vertices(E) /\ (E.root # One => E.root[2] = 0)
    <3> HIDE DEF kept
    <3> QED BY <1>2, <1>6 DEF Vertices
  <2> HIDE DEF kept
  <2> QED BY <1>2, <1>9, <2>1, <2>2, <2>3 DEF IsDiagram
<1>11. \A n \in Nodes(E) : E.lo[n] = to[D.lo[n]] /\ E.hi[n] = to[D.hi[n]]
  BY <1>2, <1>3
<1> QED BY <1>1, <1>2, <1>10, <1>11 DEF E, to

\* Where the paths of the reduced diagram come from: n is at or below its root, or
\* forwarded to it.
Live(D, S, n) ==
  \/ n = One
  \/ Redirected(D, S)[n] = Redirected(D, S)[D.root]
  \/ Redirected(D, S)[D.root] # One /\ Redirected(D, S)[D.root][1] <= n[1]

\* The paths that are left below a vertex.
Left(I, D, S) == [n \in Vertices(D) |-> PathsBelow(I, Compress(D, S))[Redirected(D, S)[n]]]

LeavesPaths(I, D, S) ==
  /\ PathsOf(I, Compress(D, S)) = Left(I, D, S)[D.root]
  /\ Live(D, S, D.root) /\ Left(I, D, S)[One] = {<<>>}
  /\ \A n \in Nodes(D) : Live(D, S, n) =>
       /\ Live(D, S, D.lo[n]) /\ (n \notin S => Live(D, S, D.hi[n]))
       /\ Left(I, D, S)[n] =
            IF n \in S THEN Left(I, D, S)[D.lo[n]]
            ELSE Left(I, D, S)[D.lo[n]] \cup Headed(JobAt(I, n), Left(I, D, S)[D.hi[n]])

LEMMA CompressPaths ==
  ASSUME NEW I, IsInstance(I), NEW D, IsDiagram(I, D), NEW S, S \subseteq Nodes(D)
  PROVE  LeavesPaths(I, D, S)
<1> DEFINE E == Compress(D, S)
           to == Redirected(D, S)
           A == Left(I, D, S)
<1>1. /\ \A x \in Vertices(D) :
              /\ to[x] = IF x \in S THEN to[D.lo[x]] ELSE x
              /\ to[x] \in Vertices(D) /\ to[x] \notin S
              /\ to[x] # One => x # One /\ x[1] <= to[x][1]
      /\ to[One] = One
  BY RedirectFacts
<1>2. /\ E.root = to[D.root] /\ IsDiagram(I, E)
      /\ Nodes(E) = {n \in Nodes(D) \ S : E.root # One /\ n[1] >= E.root[1]}
      /\ \A n \in Nodes(E) : E.lo[n] = to[D.lo[n]] /\ E.hi[n] = to[D.hi[n]]
  BY CompressFacts
<1>3. /\ D.root \in Vertices(D) /\ One \in Vertices(D)
      /\ \A n \in Nodes(D) : n \in Vertices(D) /\ n # One /\ D.lo[n] \in Vertices(D) /\ D.hi[n] \in Vertices(D)
  BY NodeFacts DEF Vertices, IsDiagram
<1>4. \A n \in Vertices(D) : A[n] = PathsBelow(I, E)[to[n]]
  BY DEF Left
<1> HIDE DEF E, to, A
<1>5. PathsOf(I, E) = A[D.root] /\ A[One] = {<<>>}
  <2>1. PathsBelow(I, E)[One] = {<<>>}
    BY <1>2, PathsFacts
  <2> QED BY <1>1, <1>2, <1>3, <1>4, <2>1 DEF PathsOf
<1>6. ASSUME NEW n \in Nodes(D), Live(D, S, n)
      PROVE  /\ Live(D, S, D.lo[n]) /\ (n \notin S => Live(D, S, D.hi[n]))
             /\ n \notin S => n \in Nodes(E)
  <2>0. /\ to[n] = to[D.root] \/ (to[D.root] # One /\ to[D.root][1] <= n[1])
        /\ \A c : c = One \/ to[c] = to[D.root] \/ (to[D.root] # One /\ to[D.root][1] <= c[1]) => Live(D, S, c)
    BY <1>3, <1>6 DEF Live, to
  <2>1. n[1] \in Int /\ \A c \in {D.lo[n], D.hi[n]} : c # One => n[1] < c[1] /\ c \in Nodes(D) /\ c[1] \in Int
    <3>1. \A c \in {D.lo[n], D.hi[n]} : c # One => n[1] < c[1] /\ c \in Nodes(D)
      BY <1>3 DEF IsDiagram, Vertices
    <3> QED BY <3>1, NodeFacts
  <2>2. ASSUME to[D.root] # One, to[D.root][1] <= n[1], NEW c \in {D.lo[n], D.hi[n]} PROVE Live(D, S, c)
    <3>1. to[D.root][1] \in Int
      <4>1. to[D.root] \in Nodes(D)
        BY <1>1, <1>3, <2>2 DEF Vertices
      <4> QED BY <4>1, NodeFacts
    <3>2. c # One => to[D.root][1] <= c[1]
      BY <2>1, <2>2, <3>1
    <3> QED BY <2>0, <2>2, <3>2
  <2>3. CASE n \in S
    <3>1. to[D.lo[n]] = to[n]
      BY <1>1, <1>3, <2>3
    <3> QED BY <2>0, <2>2, <2>3, <3>1
  <2>4. CASE n \notin S
    <3>1. to[n] = n
      BY <1>1, <1>3, <2>4
    <3>2. to[D.root] # One /\ to[D.root][1] <= n[1]
      BY <1>3, <2>0, <2>1, <3>1
    <3>3. to[D.root][1] \in Int
      <4>1. to[D.root] \in Nodes(D)
        BY <1>1, <1>3, <3>2 DEF Vertices
      <4> QED BY <4>1, NodeFacts
    <3> QED BY <1>2, <2>1, <2>2, <2>4, <3>2, <3>3
  <2> QED BY <2>3, <2>4
<1>7. ASSUME NEW n \in Nodes(D), Live(D, S, n)
      PROVE  A[n] = IF n \in S THEN A[D.lo[n]] ELSE A[D.lo[n]] \cup Headed(JobAt(I, n), A[D.hi[n]])
  <2>1. CASE n \in S
    BY <1>1, <1>3, <1>4, <2>1
  <2>2. CASE n \notin S
    <3>1. n \in Nodes(E) /\ to[n] = n
      BY <1>1, <1>3, <1>6, <1>7, <2>2
    <3>2. PathsBelow(I, E)[n] = PathsBelow(I, E)[E.lo[n]] \cup Headed(JobAt(I, n), PathsBelow(I, E)[E.hi[n]])
      BY <1>2, <3>1, PathsFacts
    <3>3. E.lo[n] = to[D.lo[n]] /\ E.hi[n] = to[D.hi[n]]
      BY <1>2, <3>1
    <3> QED BY <1>3, <1>4, <2>2, <3>1, <3>2, <3>3
  <2> QED BY <2>1, <2>2
<1>8. Live(D, S, D.root)
  BY DEF Live
<1> QED BY <1>5, <1>6, <1>7, <1>8 DEF E, A, LeavesPaths

\* The reduction adds no path.
LEMMA CompressAddsNoPath ==
  ASSUME NEW I, IsInstance(I), NEW D, IsDiagram(I, D), NEW S, S \subseteq Nodes(D)
  PROVE  PathsOf(I, Compress(D, S)) \subseteq PathsOf(I, D)
<1> DEFINE A == Left(I, D, S)
           P == PathsBelow(I, D)
           F == {n \in Vertices(D) : Live(D, S, n) => A[n] \subseteq P[n]}
<1>1. /\ PathsOf(I, Compress(D, S)) = A[D.root] /\ Live(D, S, D.root) /\ A[One] = {<<>>}
      /\ \A n \in Nodes(D) : Live(D, S, n) =>
              /\ Live(D, S, D.lo[n]) /\ (n \notin S => Live(D, S, D.hi[n]))
              /\ A[n] = IF n \in S THEN A[D.lo[n]] ELSE A[D.lo[n]] \cup Headed(JobAt(I, n), A[D.hi[n]])
  <2>1. LeavesPaths(I, D, S)
    BY CompressPaths
  <2> HIDE DEF F
  <2> QED BY <2>1 DEF LeavesPaths
<1>2. /\ P[One] = {<<>>}
      /\ \A n \in Nodes(D) : P[n] = P[D.lo[n]] \cup Headed(JobAt(I, n), P[D.hi[n]])
      /\ PathsOf(I, D) = P[D.root]
  BY PathsFacts DEF PathsOf
<1> HIDE DEF A, P
<1>3. One \in F
  BY <1>1, <1>2 DEF Vertices
<1>4. ASSUME NEW n \in Nodes(D), D.lo[n] \in F, D.hi[n] \in F PROVE n \in F
  <2> SUFFICES ASSUME Live(D, S, n) PROVE A[n] \subseteq P[n]
    BY DEF Vertices
  <2>1. A[D.lo[n]] \subseteq P[D.lo[n]] /\ (n \notin S => A[D.hi[n]] \subseteq P[D.hi[n]])
    BY <1>1, <1>4
  <2>2. n \notin S => Headed(JobAt(I, n), A[D.hi[n]]) \subseteq Headed(JobAt(I, n), P[D.hi[n]])
    BY <2>1 DEF Headed
  <2> QED BY <1>1, <1>2, <2>1, <2>2
<1>5. D.root \in F
  <2>1. D.root \in Vertices(D)
    BY DEF IsDiagram
  <2> HIDE DEF F
  <2>2. \A n \in Vertices(D) : n \in F
    BY <1>3, <1>4, DiagramInduction
  <2> QED BY <2>1, <2>2
<1> QED BY <1>1, <1>2, <1>5

\* Q holds of the vertices, and how much of p leads to them, that p may go through; it
\* meets no 1-arc of a node of S.
Avoids(I, D, S, p, Q) ==
  /\ <<D.root, 0>> \in Q
  /\ \A n \in Nodes(D), i \in 0 .. Len(p) : <<n, i>> \in Q =>
       /\ Rest(p, i) \in PathsBelow(I, D)[D.lo[n]] => <<D.lo[n], i>> \in Q
       /\ (i # Len(p) /\ p[i + 1] = JobAt(I, n) /\ Rest(p, i + 1) \in PathsBelow(I, D)[D.hi[n]])
            => n \notin S /\ <<D.hi[n], i + 1>> \in Q

\* Such a path stays.
LEMMA AvoidingPathStays ==
  ASSUME NEW I, IsInstance(I), NEW D, IsDiagram(I, D), NEW S, S \subseteq Nodes(D),
         NEW p \in PathsOf(I, D), NEW Q, Avoids(I, D, S, p, Q)
  PROVE  p \in PathsOf(I, Compress(D, S))
<1> DEFINE A == Left(I, D, S)
           P == PathsBelow(I, D)
           F == {n \in Vertices(D) : Live(D, S, n) =>
                   \A i \in 0 .. Len(p) : <<n, i>> \in Q /\ Rest(p, i) \in P[n] => Rest(p, i) \in A[n]}
<1>1. /\ PathsOf(I, Compress(D, S)) = A[D.root] /\ Live(D, S, D.root) /\ A[One] = {<<>>}
      /\ \A n \in Nodes(D) : Live(D, S, n) =>
              /\ Live(D, S, D.lo[n]) /\ (n \notin S => Live(D, S, D.hi[n]))
              /\ A[n] = IF n \in S THEN A[D.lo[n]] ELSE A[D.lo[n]] \cup Headed(JobAt(I, n), A[D.hi[n]])
  <2>1. LeavesPaths(I, D, S)
    BY CompressPaths
  <2> HIDE DEF F
  <2> QED BY <2>1 DEF LeavesPaths
<1>2. /\ P[One] = {<<>>}
      /\ \A n \in Nodes(D) : P[n] = P[D.lo[n]] \cup Headed(JobAt(I, n), P[D.hi[n]])
      /\ PathsOf(I, D) = P[D.root]
      /\ \A n \in Vertices(D) : P[n] \subseteq Sequences(I)
  BY PathsFacts DEF PathsOf
<1>3. D.root \in Vertices(D) /\ \A n \in Nodes(D) : D.hi[n] \in Vertices(D)
  BY DEF IsDiagram
<1>4. p \in Sequences(I)
  BY <1>2, <1>3
<1>5. /\ <<D.root, 0>> \in Q
      /\ \A n \in Nodes(D), i \in 0 .. Len(p) : <<n, i>> \in Q =>
       /\ Rest(p, i) \in P[D.lo[n]] => <<D.lo[n], i>> \in Q
       /\ (i # Len(p) /\ p[i + 1] = JobAt(I, n) /\ Rest(p, i + 1) \in P[D.hi[n]])
            => n \notin S /\ <<D.hi[n], i + 1>> \in Q
  BY DEF Avoids
<1> HIDE DEF A, P
<1>6. One \in F
  BY <1>1, <1>2 DEF Vertices
<1>7. ASSUME NEW n \in Nodes(D), D.lo[n] \in F, D.hi[n] \in F PROVE n \in F
  <2> SUFFICES ASSUME Live(D, S, n), NEW i \in 0 .. Len(p), <<n, i>> \in Q, Rest(p, i) \in P[n]
               PROVE  Rest(p, i) \in A[n]
    BY DEF Vertices
  <2>1. CASE Rest(p, i) \in P[D.lo[n]]
    <3>1. <<D.lo[n], i>> \in Q /\ Live(D, S, D.lo[n])
      BY <1>1, <1>5, <2>1
    <3>2. Rest(p, i) \in A[D.lo[n]]
      BY <1>7, <2>1, <3>1
    <3> QED BY <1>1, <3>2
  <2>2. CASE Rest(p, i) \in Headed(JobAt(I, n), P[D.hi[n]])
    <3>1. PICK s \in P[D.hi[n]] : Rest(p, i) = <<JobAt(I, n)>> \o s
      BY <2>2 DEF Headed
    <3>2. s \in Sequences(I)
      BY <1>2, <1>3
    <3>3. i < Len(p) /\ JobAt(I, n) = p[i + 1] /\ s = Rest(p, i + 1)
      <4> DEFINE j == JobAt(I, n)
      <4>1. Rest(p, i) = <<j>> \o s
        BY <3>1
      <4> DEFINE T == DOMAIN I.jobs
      <4>3. p \in Seq(T) /\ s \in Seq(T)
        BY <1>4, <3>2 DEF Sequences
      <4> HIDE DEF j, T, F
      <4>2. i < Len(p) /\ j = p[i + 1] /\ s = Rest(p, i + 1)
        BY <4>1, <4>3, RestHeaded, SMTT(30)
      <4> QED BY <4>2 DEF j
    <3>4. i # Len(p) /\ i + 1 \in 0 .. Len(p)
      BY <1>4, <3>3 DEF Sequences
    <3>5. n \notin S /\ <<D.hi[n], i + 1>> \in Q
      BY <1>5, <3>1, <3>3, <3>4
    <3>6. Rest(p, i + 1) \in A[D.hi[n]]
      BY <1>1, <1>7, <3>1, <3>3, <3>4, <3>5
    <3>7. Rest(p, i) \in Headed(JobAt(I, n), A[D.hi[n]])
      BY <3>1, <3>3, <3>6 DEF Headed
    <3> QED BY <1>1, <3>5, <3>7
  <2> QED BY <1>2, <2>1, <2>2
<1>8. D.root \in F
  <2> HIDE DEF F
  <2>1. \A n \in Vertices(D) : n \in F
    BY <1>6, <1>7, DiagramInduction
  <2> QED BY <1>3, <2>1
<1>9. Rest(p, 0) = p /\ 0 \in 0 .. Len(p)
  BY <1>4, RestFacts, SequenceFacts DEF Sequences
<1> QED BY <1>1, <1>2, <1>5, <1>8, <1>9

--------------------------------------------------------------------------------
(* Times and sums along a path. *)

\* An elementary sequence names no job twice.
LEMMA ElementaryFacts ==
  ASSUME NEW T, NEW p \in Seq(T), IsElementary(p)
  PROVE  \A i, k \in 1 .. Len(p) : p[i] = p[k] => i = k
<1> DEFINE S == 1 .. Len(p)
           f == [i \in S |-> p[i]]
<1>1. Len(p) \in Nat /\ DOMAIN p = S
  OBVIOUS
<1>2. f \in Surjection(S, JobsOf(p))
  BY <1>1 DEF Surjection, JobsOf
<1>3. IsFiniteSet(S) /\ Cardinality(S) = Len(p)
  BY <1>1, FS_Interval
<1>4. Cardinality(JobsOf(p)) = Cardinality(S)
  BY <1>3 DEF IsElementary
<1>5. f \in Injection(S, JobsOf(p))
  <2> HIDE DEF f, S
  <2> QED BY <1>2, <1>3, <1>4, FS_Surjection
<1>6. \A i, k \in S : f[i] = f[k] => i = k
  <2> HIDE DEF f, S
  <2> QED BY <1>5 DEF Injection, IsInjective
<1> QED BY <1>6

\* h adds v up along p.
Accumulates(h, v, p) == h[0] = 0 /\ \A i \in 1 .. Len(p) : h[i] = h[i - 1] + v[p[i]]

\* Then it ends with the sum over the jobs of p.
LEMMA AccumulatedSum ==
  ASSUME NEW T, NEW p \in Seq(T), IsElementary(p), NEW v, \A x \in T : v[x] \in Int,
         NEW h, Accumulates(h, v, p)
  PROVE  SumFunctionOnSet(v, JobsOf(p)) = h[Len(p)]
<1> DEFINE J(i) == {p[k] : k \in 1 .. i}
           F == {i \in 0 .. Len(p) : SumFunctionOnSet(v, J(i)) = h[i]}
<1>0. Len(p) \in Nat /\ DOMAIN p = 1 .. Len(p) /\ \A i \in 1 .. Len(p) : p[i] \in T
  BY SequenceFacts
<1>1. 0 \in F
  <2>1. J(0) = {}
    OBVIOUS
  <2>2. SumFunctionOnSet(v, {}) = 0
    BY SumOfNone
  <2>3. h[0] = 0 /\ 0 \in 0 .. Len(p)
    BY <1>0 DEF Accumulates
  <2>4. SumFunctionOnSet(v, J(0)) = 0
    BY <2>1, <2>2
  <2> HIDE DEF J
  <2> QED BY <2>3, <2>4
<1>2. ASSUME NEW i \in 1 .. Len(p), i - 1 \in F PROVE i \in F
  <2>1. IsFiniteSet(J(i))
    <3> DEFINE f == [k \in 1 .. i |-> p[k]]
               W == {f[k] : k \in 1 .. i}
    <3>1. IsFiniteSet(1 .. i) /\ DOMAIN f = 1 .. i
      BY FS_Interval
    <3>2. IsFiniteSet(W)
      <4> HIDE DEF f
      <4> QED BY <3>1, FiniteImage
    <3>3. W = J(i)
      OBVIOUS
    <3> HIDE DEF W, J
    <3> QED BY <3>2, <3>3
  <2>2. \A x \in J(i) : v[x] \in Int
    BY <1>0
  <2>3. p[i] \in J(i)
    BY <1>0
  <2>4. J(i) \ {p[i]} = J(i - 1)
    <3>1. ASSUME NEW k \in 1 .. i, p[k] # p[i] PROVE k \in 1 .. i - 1
      BY <3>1
    <3>2. ASSUME NEW k \in 1 .. i - 1 PROVE k \in 1 .. i /\ p[k] # p[i]
      <4>1. k \in 1 .. Len(p) /\ k # i /\ k \in 1 .. i
        BY <1>0
      <4> QED BY <4>1, ElementaryFacts
    <3> QED BY <3>1, <3>2
  <2>5. SumFunctionOnSet(v, J(i)) = v[p[i]] + SumFunctionOnSet(v, J(i) \ {p[i]})
    <3> DEFINE S == J(i)
               x == p[i]
    <3>1. IsFiniteSet(S) /\ x \in S /\ \A y \in S : v[y] \in Int
      BY <2>1, <2>2, <2>3
    <3> HIDE DEF S, x
    <3>2. SumFunctionOnSet(v, S) = v[x] + SumFunctionOnSet(v, S \ {x})
      BY <3>1, SumRemove
    <3> QED BY <3>2 DEF S, x
  <2>6. SumFunctionOnSet(v, J(i - 1)) = h[i - 1] /\ SumFunctionOnSet(v, J(i - 1)) \in Int
    <3>1. IsFiniteSet(J(i - 1)) /\ \A x \in J(i - 1) : v[x] \in Int
      <4>1. J(i - 1) \subseteq J(i)
        BY <2>4
      <4> HIDE DEF J
      <4> QED BY <2>1, <2>2, <4>1, FS_Subset
    <3> QED BY <1>2, <3>1, SumType
  <2>7. SumFunctionOnSet(v, J(i)) = h[i]
    <3>1. h[i] = h[i - 1] + v[p[i]] /\ v[p[i]] \in Int
      BY <1>0 DEF Accumulates
    <3>2. SumFunctionOnSet(v, J(i)) = v[p[i]] + h[i - 1] /\ h[i - 1] \in Int
      BY <2>4, <2>5, <2>6
    <3>3. \A a, b \in Int : a + b = b + a
      OBVIOUS
    <3> HIDE DEF J, F
    <3> QED BY <3>1, <3>2, <3>3
  <2>8. i \in 0 .. Len(p)
    BY <1>0
  <2> QED BY <2>7, <2>8
<1>3. Len(p) \in F
  <2>1. \A i \in 0 .. Len(p) : i \in F
    <3> HIDE DEF F
    <3> QED BY <1>0, <1>1, <1>2, IntervalInduction
  <2>2. Len(p) \in 0 .. Len(p)
    BY <1>0
  <2> HIDE DEF F
  <2> QED BY <2>1, <2>2
<1>4. J(Len(p)) = JobsOf(p)
  BY <1>0 DEF JobsOf
<1> QED BY <1>3, <1>4

\* The completion times along a sequence.
LEMMA EndFacts ==
  ASSUME NEW I, IsInstance(I), NEW p \in Sequences(I)
  PROVE  /\ EndOf(I, p, 0) = 0
         /\ \A i \in 1 .. Len(p) : EndOf(I, p, i) = EndOf(I, p, i - 1) + I.jobs[p[i]].p
         /\ \A i \in 0 .. Len(p) : EndOf(I, p, i) \in Nat
<1> DEFINE n == Len(p)
           g == [i \in 1 .. n |-> [t \in Nat |-> t + I.jobs[p[i]].p]]
<1>0. n \in Nat /\ \A i \in 1 .. n : p[i] \in DOMAIN I.jobs /\ I.jobs[p[i]].p \in Nat
  <2>1. n \in Nat /\ \A i \in 1 .. n : p[i] \in DOMAIN I.jobs
    BY SequenceFacts DEF Sequences
  <2> QED BY <2>1, InstanceFacts
<1>1. PICK f \in [0 .. n -> Nat] : IsIteration(f, n, 0, g)
  <2> DEFINE V == Nat
             z == 0
  <2>1. z \in V /\ IsSteps(g, n, V)
    BY <1>0 DEF IsSteps
  <2> HIDE DEF V, z, n, g
  <2>2. \E f \in [0 .. n -> V] : IsIteration(f, n, z, g)
    BY <1>0, <2>1, IterationIsDefined
  <2> QED BY <2>2 DEF V, z
<1>2. f[0] = 0 /\ \A i \in 1 .. n : f[i] = f[i - 1] + I.jobs[p[i]].p
  <2>1. \A i \in 1 .. n : i - 1 \in 0 .. n /\ f[i - 1] \in Nat
    BY <1>0, SMTT(30)
  <2> QED BY <1>1, <2>1 DEF IsIteration
<1>3. ASSUME NEW i \in 0 .. n PROVE EndOf(I, p, i) = f[i]
  <2> DEFINE Is(e) == e = [k \in 0 .. i |-> IF k = 0 THEN 0 ELSE e[k - 1] + I.jobs[p[k]].p]
             end == CHOOSE e : Is(e)
             r == [k \in 0 .. i |-> f[k]]
  <2>1. EndOf(I, p, i) = end[i]
    BY DEF EndOf
  <2>2. i \in Nat /\ i <= n
    BY <1>0
  <2>3. \A k \in 0 .. i : k # 0 => k \in 1 .. n /\ k - 1 \in 0 .. i
    BY <1>0, <2>2
  <2>4. Is(r)
    <3>1. \A k \in 0 .. i : f[k] = IF k = 0 THEN 0 ELSE r[k - 1] + I.jobs[p[k]].p
      BY <1>2, <2>3
    <3> QED BY <3>1
  <2>5. Is(end)
    <3> HIDE DEF r
    <3> QED BY <2>4
  <2>6. \A k \in 0 .. i : end[k] = IF k = 0 THEN 0 ELSE end[k - 1] + I.jobs[p[k]].p
    <3> HIDE DEF end
    <3>1. end = [k \in 0 .. i |-> IF k = 0 THEN 0 ELSE end[k - 1] + I.jobs[p[k]].p]
      BY <2>5
    <3> QED BY <3>1
  <2> DEFINE F == {k \in 0 .. i : end[k] = f[k]}
  <2> HIDE DEF end, n
  <2>7. 0 \in F
    BY <1>2, <2>2, <2>6
  <2>8. ASSUME NEW k \in 1 .. i, k - 1 \in F PROVE k \in F
    <3>1. k \in 0 .. i /\ k # 0 /\ k \in 1 .. n
      BY <2>2, <2>3
    <3> QED BY <1>2, <2>6, <2>8, <3>1
  <2>9. \A k \in 0 .. i : k \in F
    <3> HIDE DEF F
    <3> QED BY <2>2, <2>7, <2>8, IntervalInduction
  <2>10. i \in 0 .. i
    BY <2>2
  <2> QED BY <2>1, <2>9, <2>10
<1>4. \A i \in 1 .. n : i \in 0 .. n /\ i - 1 \in 0 .. n
  BY <1>0
<1>5. 0 \in 0 .. n /\ \A i \in 0 .. n : f[i] \in Nat
  BY <1>0
<1> HIDE DEF n
<1>6. EndOf(I, p, 0) = 0 /\ \A i \in 0 .. n : EndOf(I, p, i) \in Nat
  BY <1>2, <1>3, <1>5
<1>7. ASSUME NEW i \in 1 .. n PROVE EndOf(I, p, i) = EndOf(I, p, i - 1) + I.jobs[p[i]].p
  BY <1>2, <1>3, <1>4
<1> QED BY <1>6, <1>7 DEF n

\* A schedule's path that the filters must keep.
Heavy(I, p) == p \in Sequences(I) /\ IsElementary(p) /\ EndOf(I, p, Len(p)) >= I.hmin

LEMMA LoadIsEnd ==
  ASSUME NEW I, IsInstance(I), NEW p \in Sequences(I), IsElementary(p)
  PROVE  Load(I.jobs, JobsOf(p)) = EndOf(I, p, Len(p))
<1> DEFINE T == DOMAIN I.jobs
           v == [j \in T |-> I.jobs[j].p]
           w == [j \in JobsOf(p) |-> I.jobs[j].p]
           h == [i \in 0 .. Len(p) |-> EndOf(I, p, i)]
<1>1. p \in Seq(T) /\ \A x \in T : v[x] \in Int
  BY InstanceFacts DEF Sequences
<1>2. Len(p) \in Nat /\ DOMAIN p = 1 .. Len(p) /\ \A i \in 1 .. Len(p) : p[i] \in T
  BY <1>1, SequenceFacts
<1>3. Accumulates(h, v, p)
  <2>1. h[0] = 0
    BY <1>2, EndFacts
  <2>2. ASSUME NEW i \in 1 .. Len(p) PROVE h[i] = h[i - 1] + v[p[i]]
    <3>1. h[i] = EndOf(I, p, i) /\ h[i - 1] = EndOf(I, p, i - 1)
      BY <1>2
    <3>2. v[p[i]] = I.jobs[p[i]].p
      BY <1>2
    <3>3. EndOf(I, p, i) = EndOf(I, p, i - 1) + I.jobs[p[i]].p
      BY EndFacts
    <3> HIDE DEF h, v
    <3> QED BY <3>1, <3>2, <3>3
  <2> QED BY <2>1, <2>2 DEF Accumulates
<1>4. SumFunctionOnSet(v, JobsOf(p)) = h[Len(p)]
  <2> HIDE DEF T, v, h
  <2> QED BY <1>1, <1>3, AccumulatedSum
<1>5. IsFiniteSet(JobsOf(p)) /\ \A x \in JobsOf(p) : w[x] \in Int /\ w[x] = v[x]
  <2> DEFINE f == [i \in 1 .. Len(p) |-> p[i]]
             W == {f[i] : i \in 1 .. Len(p)}
  <2>1. IsFiniteSet(1 .. Len(p)) /\ DOMAIN f = 1 .. Len(p)
    BY <1>2, FS_Interval
  <2>2. IsFiniteSet(W)
    <3> HIDE DEF f
    <3> QED BY <2>1, FiniteImage
  <2>3. W = JobsOf(p)
    BY <1>2 DEF JobsOf
  <2>4. \A x \in JobsOf(p) : x \in T
    BY <1>2 DEF JobsOf
  <2>5. \A x \in JobsOf(p) : w[x] \in Int /\ w[x] = v[x]
    BY <2>4, <1>1
  <2> QED BY <2>2, <2>3, <2>5, Zenon
<1>6. SumFunctionOnSet(w, JobsOf(p)) = SumFunctionOnSet(v, JobsOf(p))
  <2> HIDE DEF w, v
  <2> QED BY <1>5, SumAgree
<1>7. Load(I.jobs, JobsOf(p)) = SumFunctionOnSet(w, JobsOf(p))
  BY DEF Load, SumFunction
<1> QED BY <1>2, <1>4, <1>6, <1>7

--------------------------------------------------------------------------------
(* The filters. *)

LEMMA FarthestFacts ==
  ASSUME NEW I, IsInstance(I), NEW D, IsDiagram(I, D)
  PROVE  /\ Farthest(I, D)[One] = 0
         /\ \A n \in Nodes(D) :
              Farthest(I, D)[n] = IF Farthest(I, D)[D.lo[n]] > Farthest(I, D)[D.hi[n]] + Length(I, n)
                                  THEN Farthest(I, D)[D.lo[n]] ELSE Farthest(I, D)[D.hi[n]] + Length(I, n)
         /\ \A n \in Vertices(D) : Farthest(I, D)[n] \in Int
<1> DEFINE V == Int
           N == Nodes(D) \cup {One}
           Is(f) == f = [n \in N |-> IF n = One THEN 0
                           ELSE LET low == f[D.lo[n]]
                                    high == f[D.hi[n]] + Length(I, n)
                                IN  IF low > high THEN low ELSE high]
           g == [n \in Nodes(D) |-> [a \in V |-> [b \in V |->
                   IF a > b + Length(I, n) THEN a ELSE b + Length(I, n)]]]
<1>0. /\ \A n \in Nodes(D) : n \in N /\ n # One /\ Length(I, n) \in Int /\ D.lo[n] \in N /\ D.hi[n] \in N
      /\ \A n \in N : n # One => n \in Nodes(D)
  BY NodeFacts DEF Vertices
<1>1. IsJoin(g, D, V)
  BY <1>0 DEF IsJoin
<1>2. \E f : Is(f)
  <2>1. PICK f \in [Vertices(D) -> V] : IsRecursion(f, D, 0, g)
    <3>1. 0 \in V
      OBVIOUS
    <3> DEFINE z == 0
    <3> HIDE DEF V, g, z
    <3>2. \E f \in [Vertices(D) -> V] : IsRecursion(f, D, z, g)
      BY <1>1, <3>1, DiagramRecursion DEF z
    <3> QED BY <3>2 DEF z
  <2>2. \A n \in Nodes(D) : f[D.lo[n]] \in V /\ f[D.hi[n]] \in V
    BY <1>0 DEF Vertices
  <2>3. \A n \in Nodes(D) : g[n][f[D.lo[n]]][f[D.hi[n]]] =
          IF f[D.lo[n]] > f[D.hi[n]] + Length(I, n) THEN f[D.lo[n]] ELSE f[D.hi[n]] + Length(I, n)
    <3> HIDE DEF V
    <3> QED BY <2>2, SMTT(30)
  <2>4. f = [n \in N |-> IF n = One THEN 0 ELSE g[n][f[D.lo[n]]][f[D.hi[n]]]]
    BY <2>1, ZenonT(40) DEF IsRecursion
  <2>5. f = [n \in N |-> IF n = One THEN 0 ELSE
          IF f[D.lo[n]] > f[D.hi[n]] + Length(I, n) THEN f[D.lo[n]] ELSE f[D.hi[n]] + Length(I, n)]
    <3> HIDE DEF g, N
    <3> QED BY <1>0, <2>3, <2>4, ZenonT(40)
  <2> QED BY <2>5
<1>3. Is(Farthest(I, D))
  BY <1>2, ZenonT(40) DEF Farthest
<1> DEFINE f == Farthest(I, D)
<1>4. f[One] = 0 /\ \A n \in Nodes(D) :
        f[n] = IF f[D.lo[n]] > f[D.hi[n]] + Length(I, n) THEN f[D.lo[n]] ELSE f[D.hi[n]] + Length(I, n)
  <2>1. f = [n \in N |-> IF n = One THEN 0 ELSE
          IF f[D.lo[n]] > f[D.hi[n]] + Length(I, n) THEN f[D.lo[n]] ELSE f[D.hi[n]] + Length(I, n)]
    BY <1>3
  <2>2. One \in N
    OBVIOUS
  <2> HIDE DEF f, N
  <2> QED BY <1>0, <2>1, <2>2, SMTT(30)
<1>5. \A n \in Vertices(D) : f[n] \in Int
  <2> DEFINE F == {n \in Vertices(D) : f[n] \in Int}
  <2> HIDE DEF f
  <2>1. One \in F
    BY <1>4 DEF Vertices
  <2>2. ASSUME NEW n \in Nodes(D), D.lo[n] \in F, D.hi[n] \in F PROVE n \in F
    BY <1>0, <1>4, <2>2 DEF Vertices
  <2> HIDE DEF F
  <2>3. \A n \in Vertices(D) : n \in F
    BY <2>1, <2>2, DiagramInduction
  <2> QED BY <2>3 DEF F
<1> QED BY <1>4, <1>5

LEMMA AlwaysBelowFacts ==
  ASSUME NEW I, IsInstance(I), NEW D, IsDiagram(I, D)
  PROVE  /\ AlwaysBelow(I, D)[One] = {}
         /\ \A n \in Nodes(D) : AlwaysBelow(I, D)[n] =
              (AlwaysBelow(I, D)[D.hi[n]] \cup {JobAt(I, n)}) \cap AlwaysBelow(I, D)[D.lo[n]]
<1> DEFINE V == SUBSET (DOMAIN I.jobs)
           N == Nodes(D) \cup {One}
           Is(f) == f = [n \in N |-> IF n = One THEN {} ELSE (f[D.hi[n]] \cup {JobAt(I, n)}) \cap f[D.lo[n]]]
           g == [n \in Nodes(D) |-> [a \in V |-> [b \in V |-> (b \cup {JobAt(I, n)}) \cap a]]]
<1>0. /\ \A n \in Nodes(D) : n \in N /\ n # One /\ JobAt(I, n) \in DOMAIN I.jobs /\ D.lo[n] \in N /\ D.hi[n] \in N
      /\ \A n \in N : n # One => n \in Nodes(D)
  BY NodeFacts DEF Vertices
<1>1. IsJoin(g, D, V) /\ {} \in V
  BY <1>0 DEF IsJoin
<1>2. \E f : Is(f)
  <2>1. PICK f \in [Vertices(D) -> V] : IsRecursion(f, D, {}, g)
    <3> HIDE DEF V, g
    <3> QED BY <1>1, DiagramRecursion
  <2>2. \A n \in Nodes(D) : f[D.lo[n]] \in V /\ f[D.hi[n]] \in V
    BY <1>0 DEF Vertices
  <2>3. \A n \in Nodes(D) : g[n][f[D.lo[n]]][f[D.hi[n]]] = (f[D.hi[n]] \cup {JobAt(I, n)}) \cap f[D.lo[n]]
    <3> HIDE DEF V
    <3> QED BY <2>2, SMTT(30)
  <2>4. f = [n \in N |-> IF n = One THEN {} ELSE g[n][f[D.lo[n]]][f[D.hi[n]]]]
    BY <2>1, ZenonT(40) DEF IsRecursion
  <2>5. Is(f)
    <3> HIDE DEF g, N
    <3> QED BY <1>0, <2>3, <2>4, ZenonT(40)
  <2> QED BY <2>5
<1>3. Is(AlwaysBelow(I, D))
  BY <1>2 DEF AlwaysBelow
<1> DEFINE f == AlwaysBelow(I, D)
<1>4. f = [n \in N |-> IF n = One THEN {} ELSE (f[D.hi[n]] \cup {JobAt(I, n)}) \cap f[D.lo[n]]]
  BY <1>3
<1>5. One \in N
  OBVIOUS
<1> HIDE DEF f, N
<1> QED BY <1>0, <1>4, <1>5 DEF f

\* What reaches a node: the sets of jobs above it, by the arcs into it.
Above(I, D, on, n) ==
  {on[u] : u \in {u \in Nodes(D) : D.lo[u] = n}}
    \cup {on[u] \cup {JobAt(I, u)} : u \in {u \in Nodes(D) : D.hi[u] = n}}

LEMMA AlwaysAboveFacts ==
  ASSUME NEW I, IsInstance(I), NEW D, IsDiagram(I, D)
  PROVE  \A n \in Nodes(D) : AlwaysAbove(I, D)[n] =
           {j \in UNION Above(I, D, AlwaysAbove(I, D), n) : \A s \in Above(I, D, AlwaysAbove(I, D), n) : j \in s}
<1> DEFINE V == SUBSET (DOMAIN I.jobs)
           N == Nodes(D)
           K == Len(I.layers)
           rank == [n \in N |-> n[1]]
           meet(A) == {j \in UNION A : \A s \in A : j \in s}
           step == [n \in N |-> [h \in [N -> V] |-> meet(Above(I, D, h, n))]]
           Is(f) == f = [n \in N |-> meet(Above(I, D, f, n))]
<1>0. /\ \A n \in N : n[1] \in 0 .. K /\ n[1] \in Int /\ JobAt(I, n) \in DOMAIN I.jobs /\ n # One
      /\ K \in Nat
      /\ \A u \in N, n \in N : D.lo[u] = n \/ D.hi[u] = n => u[1] < n[1]
  <2>1. \A u \in N, n \in N : D.lo[u] = n \/ D.hi[u] = n => u[1] < n[1]
    <3>1. \A u \in N : /\ D.lo[u] # One => u[1] < D.lo[u][1]
                       /\ D.hi[u] # One => u[1] < D.hi[u][1]
      BY DEF IsDiagram
    <3>2. \A n \in N : n # One
      BY NodeFacts
    <3> QED BY <3>1, <3>2
  <2>2. \A n \in N : n[1] \in 1 .. K /\ JobAt(I, n) \in DOMAIN I.jobs /\ n # One
    BY NodeFacts
  <2>3. K \in Nat
    BY InstanceFacts
  <2> HIDE DEF N, K
  <2>4. \A n \in N : n[1] \in 0 .. K /\ n[1] \in Int
    BY <2>2, <2>3
  <2> QED BY <2>1, <2>2, <2>3, <2>4
<1>1. rank \in [N -> 0 .. K] /\ V # {}
  BY <1>0
<1>2. IsStep(step, N, V)
  <2> SUFFICES ASSUME NEW n \in N, NEW h \in [N -> V] PROVE meet(Above(I, D, h, n)) \in V
    BY DEF IsStep
  <2>1. \A s \in Above(I, D, h, n) : s \in V
    BY <1>0 DEF Above
  <2> QED BY <2>1
<1>3. IsLocal(step, N, V, rank)
  <2> SUFFICES ASSUME NEW n \in N, NEW h \in [N -> V], NEW k \in [N -> V],
                      \A x \in N : rank[x] < rank[n] => h[x] = k[x]
               PROVE  meet(Above(I, D, h, n)) = meet(Above(I, D, k, n))
    BY DEF IsLocal
  <2>1. \A u \in N : D.lo[u] = n \/ D.hi[u] = n => h[u] = k[u]
    BY <1>0
  <2>2. Above(I, D, h, n) = Above(I, D, k, n)
    BY <2>1 DEF Above
  <2> QED BY <2>2
<1>4. \E f : Is(f)
  <2>1. PICK f \in [N -> V] : \A n \in N : f[n] = step[n][f]
    <3> HIDE DEF N, V, K, rank, step
    <3> QED BY <1>0, <1>1, <1>2, <1>3, RecursionIsDefined
  <2>2. \A n \in N : f[n] = meet(Above(I, D, f, n))
    BY <2>1
  <2>3. f = [n \in N |-> f[n]]
    OBVIOUS
  <2>4. f = [n \in N |-> meet(Above(I, D, f, n))]
    BY <2>2, <2>3, ZenonT(40)
  <2> QED BY <2>4
<1>5. Is(AlwaysAbove(I, D))
  BY <1>4 DEF AlwaysAbove, Above
<1>6. \A n \in N : AlwaysAbove(I, D)[n] = meet(Above(I, D, AlwaysAbove(I, D), n))
  <2> DEFINE f == AlwaysAbove(I, D)
  <2>1. f = [n \in N |-> meet(Above(I, D, f, n))]
    BY <1>5
  <2> HIDE DEF f, N, meet
  <2>2. \A n \in N : f[n] = meet(Above(I, D, f, n))
    BY <2>1
  <2> QED BY <2>2 DEF f
<1> QED BY <1>6

\* A 0-arc skips no node at its time, a 1-arc none at its time but of the same job.
Skips(I, D) ==
  \A u, z \in Nodes(D) : u[1] < z[1] =>
    /\ z[2] = u[2] => D.lo[u] # One /\ D.lo[u][1] <= z[1]
    /\ z[2] = u[2] + Length(I, u) /\ JobAt(I, z) # JobAt(I, u)
         => D.hi[u] # One /\ D.hi[u][1] <= z[1]

\* E is D after arcs were taken away that no path of a schedule needs.
Keeps(I, D, E) ==
  /\ IsDiagram(I, E) /\ (Skips(I, D) => Skips(I, E))
  /\ Nodes(E) \subseteq Nodes(D) /\ PathsOf(I, E) \subseteq PathsOf(I, D)
  /\ \A p \in PathsOf(I, D) : Heavy(I, p) => p \in PathsOf(I, E)

LEMMA KeepsItself ==
  ASSUME NEW I, NEW D, IsDiagram(I, D)
  PROVE  Keeps(I, D, D)
BY DEF Keeps

LEMMA KeepsThrough ==
  ASSUME NEW I, NEW D, NEW E, NEW G, Keeps(I, D, E), Keeps(I, E, G)
  PROVE  Keeps(I, D, G)
BY DEF Keeps

LEMMA CompressSkips ==
  ASSUME NEW I, IsInstance(I), NEW D, IsDiagram(I, D), NEW S, S \subseteq Nodes(D), Skips(I, D)
  PROVE  Skips(I, Compress(D, S))
<1> DEFINE E == Compress(D, S)
           to == Redirected(D, S)
           F == {x \in Vertices(D) : \A z \in Nodes(D) :
                   z \notin S /\ x # One /\ z[2] = x[2] /\ x[1] <= z[1] => to[x] # One /\ to[x][1] <= z[1]}
<1>1. \A x \in Vertices(D) : to[x] = IF x \in S THEN to[D.lo[x]] ELSE x
  BY RedirectFacts
<1>2. /\ Nodes(E) = {n \in Nodes(D) \ S : E.root # One /\ n[1] >= E.root[1]}
      /\ \A n \in Nodes(E) : E.lo[n] = to[D.lo[n]] /\ E.hi[n] = to[D.hi[n]]
  BY CompressFacts
<1>3. \A n \in Nodes(D) : /\ n \in Vertices(D) /\ n[1] \in Int /\ n = <<n[1], n[2]>>
                          /\ D.lo[n] \in Vertices(D) /\ D.hi[n] \in Vertices(D)
                          /\ D.lo[n] # One => D.lo[n] \in Nodes(D) /\ D.lo[n][2] = n[2]
                          /\ D.hi[n] # One => D.hi[n] \in Nodes(D) /\ D.hi[n][2] = n[2] + Length(I, n)
  BY NodeFacts DEF Vertices, IsDiagram
<1> HIDE DEF E, to
<1>4. One \in F
  BY DEF Vertices
<1>5. ASSUME NEW n \in Nodes(D), D.lo[n] \in F, D.hi[n] \in F PROVE n \in F
  <2> SUFFICES ASSUME NEW z \in Nodes(D), z \notin S, z[2] = n[2], n[1] <= z[1]
               PROVE  to[n] # One /\ to[n][1] <= z[1]
    BY DEF Vertices
  <2>1. CASE n \notin S
    <3>1. n # One
      BY NodeFacts
    <3> QED BY <1>1, <1>3, <2>1, <3>1
  <2>2. CASE n \in S
    <3>1. n[1] < z[1]
      <4>1. n[1] # z[1]
        BY <1>3, <2>2
      <4> QED BY <1>3, <4>1
    <3>2. D.lo[n] # One /\ D.lo[n][1] <= z[1]
      BY <3>1 DEF Skips
    <3>3. z[2] = D.lo[n][2] /\ to[n] = to[D.lo[n]]
      BY <1>1, <1>3, <2>2, <3>2
    <3> QED BY <1>5, <3>2, <3>3
  <2> QED BY <2>1, <2>2
<1>6. \A x \in Vertices(D) : x \in F
  <2> HIDE DEF F
  <2> QED BY <1>4, <1>5, DiagramInduction
<1>7. ASSUME NEW u \in Nodes(E), NEW z \in Nodes(E), u[1] < z[1]
      PROVE  /\ z[2] = u[2] => E.lo[u] # One /\ E.lo[u][1] <= z[1]
             /\ z[2] = u[2] + Length(I, u) /\ JobAt(I, z) # JobAt(I, u)
                  => E.hi[u] # One /\ E.hi[u][1] <= z[1]
  <2>1. u \in Nodes(D) /\ z \in Nodes(D) /\ z \notin S
    BY <1>2
  <2>2. ASSUME z[2] = u[2] PROVE E.lo[u] # One /\ E.lo[u][1] <= z[1]
    <3>1. D.lo[u] # One /\ D.lo[u][1] <= z[1]
      BY <1>7, <2>1, <2>2 DEF Skips
    <3>2. D.lo[u] \in Vertices(D) /\ z[2] = D.lo[u][2]
      BY <1>3, <2>1, <2>2, <3>1
    <3>3. to[D.lo[u]] # One /\ to[D.lo[u]][1] <= z[1]
      BY <1>6, <2>1, <3>1, <3>2
    <3> QED BY <1>2, <3>3
  <2>3. ASSUME z[2] = u[2] + Length(I, u), JobAt(I, z) # JobAt(I, u)
        PROVE  E.hi[u] # One /\ E.hi[u][1] <= z[1]
    <3>1. D.hi[u] # One /\ D.hi[u][1] <= z[1]
      BY <1>7, <2>1, <2>3 DEF Skips
    <3>2. D.hi[u] \in Vertices(D) /\ z[2] = D.hi[u][2]
      BY <1>3, <2>1, <2>3, <3>1
    <3>3. to[D.hi[u]] # One /\ to[D.hi[u]][1] <= z[1]
      BY <1>6, <2>1, <3>1, <3>2
    <3> QED BY <1>2, <3>3
  <2> QED BY <2>2, <2>3
<1> QED BY <1>7 DEF Skips, E

\* Taking arcs away keeps what avoids them.
LEMMA CompressKeeps ==
  ASSUME NEW I, IsInstance(I), NEW D, IsDiagram(I, D), NEW S, S \subseteq Nodes(D),
         \A p \in PathsOf(I, D) : Heavy(I, p) => \E Q : Avoids(I, D, S, p, Q)
  PROVE  Keeps(I, D, Compress(D, S))
<1>1. IsDiagram(I, Compress(D, S)) /\ Nodes(Compress(D, S)) \subseteq Nodes(D)
  BY CompressFacts
<1>2. PathsOf(I, Compress(D, S)) \subseteq PathsOf(I, D)
  BY CompressAddsNoPath
<1>3. Skips(I, D) => Skips(I, Compress(D, S))
  BY CompressSkips
<1>4. ASSUME NEW p \in PathsOf(I, D), Heavy(I, p) PROVE p \in PathsOf(I, Compress(D, S))
  <2>1. PICK Q : Avoids(I, D, S, p, Q)
    BY <1>4
  <2> QED BY <2>1, AvoidingPathStays
<1> QED BY <1>1, <1>2, <1>3, <1>4 DEF Keeps

\* Where p has brought a machine to.
OnTime(I, D, p) ==
  {x \in Vertices(D) \X (0 .. Len(p)) : x[1] # One => x[1][2] = EndOf(I, p, x[2])}

\* A path keeps to its times.
LEMMA PathIsOnTime ==
  ASSUME NEW I, IsInstance(I), NEW D, IsDiagram(I, D), NEW p \in Sequences(I)
  PROVE  /\ <<D.root, 0>> \in OnTime(I, D, p)
         /\ \A n \in Nodes(D), i \in 0 .. Len(p) : <<n, i>> \in OnTime(I, D, p) =>
              /\ n[2] = EndOf(I, p, i) /\ <<D.lo[n], i>> \in OnTime(I, D, p)
              /\ (i # Len(p) /\ p[i + 1] = JobAt(I, n)) =>
                    /\ <<D.hi[n], i + 1>> \in OnTime(I, D, p)
                    /\ EndOf(I, p, i + 1) = n[2] + Length(I, n)
<1>0. Len(p) \in Nat
  BY SequenceFacts DEF Sequences
<1>1. <<D.root, 0>> \in OnTime(I, D, p)
  <2>1. D.root \in Vertices(D) /\ (D.root # One => D.root[2] = 0)
    BY DEF IsDiagram
  <2>2. EndOf(I, p, 0) = 0 /\ 0 \in 0 .. Len(p)
    BY <1>0, EndFacts
  <2> QED BY <2>1, <2>2 DEF OnTime
<1>2. ASSUME NEW n \in Nodes(D), NEW i \in 0 .. Len(p), <<n, i>> \in OnTime(I, D, p)
      PROVE  /\ n[2] = EndOf(I, p, i) /\ <<D.lo[n], i>> \in OnTime(I, D, p)
             /\ (i # Len(p) /\ p[i + 1] = JobAt(I, n)) =>
                   /\ <<D.hi[n], i + 1>> \in OnTime(I, D, p)
                   /\ EndOf(I, p, i + 1) = n[2] + Length(I, n)
  <2>1. n # One /\ D.lo[n] \in Vertices(D) /\ D.hi[n] \in Vertices(D)
    BY NodeFacts
  <2>2. n[2] = EndOf(I, p, i)
    BY <1>2, <2>1 DEF OnTime
  <2>3. <<D.lo[n], i>> \in OnTime(I, D, p)
    <3>1. D.lo[n] # One => D.lo[n][2] = n[2]
      BY DEF IsDiagram
    <3> QED BY <2>1, <2>2, <3>1 DEF OnTime
  <2>4. ASSUME i # Len(p), p[i + 1] = JobAt(I, n)
        PROVE  <<D.hi[n], i + 1>> \in OnTime(I, D, p) /\ EndOf(I, p, i + 1) = n[2] + Length(I, n)
    <3>1. i + 1 \in 1 .. Len(p) /\ i + 1 \in 0 .. Len(p) /\ (i + 1) - 1 = i
      BY <1>0, <2>4
    <3>2. EndOf(I, p, i + 1) = EndOf(I, p, (i + 1) - 1) + I.jobs[p[i + 1]].p
      BY <3>1, EndFacts
    <3>3. EndOf(I, p, i + 1) = n[2] + Length(I, n)
      BY <2>2, <2>4, <3>1, <3>2 DEF Length
    <3>4. D.hi[n] # One => D.hi[n][2] = n[2] + Length(I, n)
      BY DEF IsDiagram
    <3> QED BY <2>1, <3>1, <3>3, <3>4 DEF OnTime
  <2> QED BY <2>2, <2>3, <2>4
<1> QED BY <1>1, <1>2

\* A path from a node takes its 0-arc or, its next job being the node's, its 1-arc.
LEMMA PathStep ==
  ASSUME NEW I, IsInstance(I), NEW D, IsDiagram(I, D), NEW p \in Sequences(I),
         NEW n \in Vertices(D), NEW i \in 0 .. Len(p), Rest(p, i) \in PathsBelow(I, D)[n]
  PROVE  \/ n = One /\ i = Len(p)
         \/ n \in Nodes(D) /\ Rest(p, i) \in PathsBelow(I, D)[D.lo[n]]
         \/ /\ n \in Nodes(D) /\ i # Len(p) /\ i + 1 \in 1 .. Len(p) /\ i + 1 \in 0 .. Len(p)
            /\ p[i + 1] = JobAt(I, n) /\ Rest(p, i + 1) \in PathsBelow(I, D)[D.hi[n]]
<1> DEFINE P == PathsBelow(I, D)
           T == DOMAIN I.jobs
<1>1. /\ P[One] = {<<>>}
      /\ \A x \in Nodes(D) : P[x] = P[D.lo[x]] \cup Headed(JobAt(I, x), P[D.hi[x]])
      /\ \A x \in Vertices(D) : P[x] \subseteq Sequences(I)
  BY PathsFacts
<1>2. p \in Seq(T) /\ Len(p) \in Nat
  BY SequenceFacts DEF Sequences
<1> HIDE DEF P
<1>3. CASE n = One
  <2>1. Rest(p, i) = <<>>
    BY <1>1, <1>3 DEF P
  <2>2. Len(Rest(p, i)) = Len(p) - i
    BY <1>2, RestFacts
  <2>3. Len(p) - i = 0 /\ i \in Int
    BY <1>2, <2>1, <2>2
  <2> QED BY <1>2, <1>3, <2>3
<1>4. CASE n \in Nodes(D)
  <2>1. CASE Rest(p, i) \in P[D.lo[n]]
    BY <1>4, <2>1 DEF P
  <2>2. CASE Rest(p, i) \notin P[D.lo[n]]
    <3>1. PICK s \in P[D.hi[n]] : Rest(p, i) = <<JobAt(I, n)>> \o s
      BY <1>1, <1>4, <2>2 DEF P, Headed
    <3>2. s \in Seq(T)
      BY <1>1, <1>4, NodeFacts DEF Sequences
    <3> DEFINE j == JobAt(I, n)
    <3>3. Rest(p, i) = <<j>> \o s
      BY <3>1
    <3>6. p \in Seq(T) /\ s \in Seq(T)
      BY <1>2, <3>2
    <3> HIDE DEF j, T
    <3>4. i < Len(p) /\ j = p[i + 1] /\ s = Rest(p, i + 1)
      BY <3>3, <3>6, RestHeaded, ZenonT(60)
    <3>5. i # Len(p) /\ i + 1 \in 1 .. Len(p) /\ i + 1 \in 0 .. Len(p)
      BY <1>2, <3>4
    <3> QED BY <1>4, <3>1, <3>4, <3>5 DEF j, P
  <2> QED BY <2>1, <2>2
<1> QED BY <1>3, <1>4 DEF Vertices

\* What is left of a path takes no longer than the most work below it.
LEMMA FarthestBound ==
  ASSUME NEW I, IsInstance(I), NEW D, IsDiagram(I, D), NEW p \in Sequences(I)
  PROVE  \A n \in Vertices(D) : \A i \in 0 .. Len(p) :
           Rest(p, i) \in PathsBelow(I, D)[n] => EndOf(I, p, Len(p)) <= Farthest(I, D)[n] + EndOf(I, p, i)
<1> DEFINE far == Farthest(I, D)
           F == {n \in Vertices(D) : \A i \in 0 .. Len(p) :
                   Rest(p, i) \in PathsBelow(I, D)[n] => EndOf(I, p, Len(p)) <= far[n] + EndOf(I, p, i)}
<1>0. /\ Len(p) \in Nat /\ \A i \in 0 .. Len(p) : EndOf(I, p, i) \in Nat
      /\ \A i \in 1 .. Len(p) : EndOf(I, p, i) = EndOf(I, p, i - 1) + I.jobs[p[i]].p
  BY SequenceFacts, EndFacts DEF Sequences
<1>1. /\ far[One] = 0 /\ \A n \in Vertices(D) : far[n] \in Int
      /\ \A n \in Nodes(D) : far[n] = IF far[D.lo[n]] > far[D.hi[n]] + Length(I, n)
                                      THEN far[D.lo[n]] ELSE far[D.hi[n]] + Length(I, n)
  BY FarthestFacts
<1> HIDE DEF far
<1>2. One \in F
  <2> SUFFICES ASSUME NEW i \in 0 .. Len(p), Rest(p, i) \in PathsBelow(I, D)[One]
               PROVE  EndOf(I, p, Len(p)) <= far[One] + EndOf(I, p, i)
    BY DEF Vertices
  <2>1. One \in Vertices(D)
    BY DEF Vertices
  <2>2. i = Len(p)
    BY <2>1, PathStep, NodeFacts
  <2> QED BY <1>0, <1>1, <2>2
<1>3. ASSUME NEW n \in Nodes(D), D.lo[n] \in F, D.hi[n] \in F PROVE n \in F
  <2>0. n \in Vertices(D) /\ n # One /\ Length(I, n) \in Nat /\ D.lo[n] \in Vertices(D) /\ D.hi[n] \in Vertices(D)
    BY NodeFacts DEF Vertices
  <2> SUFFICES ASSUME NEW i \in 0 .. Len(p), Rest(p, i) \in PathsBelow(I, D)[n]
               PROVE  EndOf(I, p, Len(p)) <= far[n] + EndOf(I, p, i)
    BY <2>0
  <2>1. CASE Rest(p, i) \in PathsBelow(I, D)[D.lo[n]]
    <3>1. EndOf(I, p, Len(p)) <= far[D.lo[n]] + EndOf(I, p, i)
      BY <1>3, <2>1
    <3>2. far[D.lo[n]] <= far[n]
      BY <1>1, <2>0
    <3>3. far[D.lo[n]] \in Int /\ far[n] \in Int /\ EndOf(I, p, i) \in Int /\ EndOf(I, p, Len(p)) \in Int
      <4>1. Len(p) \in 0 .. Len(p)
        BY <1>0
      <4> QED BY <1>0, <1>1, <2>0, <4>1
    <3> QED BY <3>1, <3>2, <3>3
  <2>2. CASE Rest(p, i) \notin PathsBelow(I, D)[D.lo[n]]
    <3>1. /\ i + 1 \in 1 .. Len(p) /\ i + 1 \in 0 .. Len(p)
          /\ p[i + 1] = JobAt(I, n) /\ Rest(p, i + 1) \in PathsBelow(I, D)[D.hi[n]]
      BY <2>0, <2>2, PathStep
    <3>2. EndOf(I, p, Len(p)) <= far[D.hi[n]] + EndOf(I, p, i + 1)
      BY <1>3, <3>1
    <3>3. EndOf(I, p, i + 1) = EndOf(I, p, i) + Length(I, n)
      <4>1. (i + 1) - 1 = i
        OBVIOUS
      <4> QED BY <1>0, <3>1, <4>1 DEF Length
    <3>4. far[D.hi[n]] + Length(I, n) <= far[n]
      BY <1>1, <2>0
    <3>5. far[D.hi[n]] \in Int /\ far[n] \in Int /\ EndOf(I, p, i) \in Int /\ EndOf(I, p, Len(p)) \in Int
      <4>1. Len(p) \in 0 .. Len(p)
        BY <1>0
      <4> QED BY <1>0, <1>1, <2>0, <4>1
    <3> HIDE DEF F
    <3> QED BY <2>0, <3>2, <3>3, <3>4, <3>5
  <2> QED BY <2>1, <2>2
<1>4. \A n \in Vertices(D) : n \in F
  <2> HIDE DEF F
  <2> QED BY <1>2, <1>3, DiagramInduction
<1> QED BY <1>4 DEF far

\* The arcs that go belong to no path with the least load.
LEMMA CleanupKeeps ==
  ASSUME NEW I, IsInstance(I), NEW D, IsDiagram(I, D)
  PROVE  Keeps(I, D, Cleanup(I, D))
<1> DEFINE far == Farthest(I, D)
           S == {n \in Nodes(D) : n[2] + far[D.hi[n]] + Length(I, n) < I.hmin}
<1>1. Cleanup(I, D) = Compress(D, S)
  BY DEF Cleanup
<1>2. ASSUME NEW p \in PathsOf(I, D), Heavy(I, p) PROVE Avoids(I, D, S, p, OnTime(I, D, p))
  <2> DEFINE Q == OnTime(I, D, p)
  <2>0. p \in Sequences(I) /\ EndOf(I, p, Len(p)) >= I.hmin
    BY <1>2 DEF Heavy
  <2>1. /\ <<D.root, 0>> \in Q
        /\ \A n \in Nodes(D), i \in 0 .. Len(p) : <<n, i>> \in Q =>
              /\ n[2] = EndOf(I, p, i) /\ <<D.lo[n], i>> \in Q
              /\ (i # Len(p) /\ p[i + 1] = JobAt(I, n)) =>
                    /\ <<D.hi[n], i + 1>> \in Q
                    /\ EndOf(I, p, i + 1) = n[2] + Length(I, n)
    BY <2>0, PathIsOnTime
  <2> HIDE DEF Q
  <2>2. ASSUME NEW n \in Nodes(D), NEW i \in 0 .. Len(p), <<n, i>> \in Q, i # Len(p),
               p[i + 1] = JobAt(I, n), Rest(p, i + 1) \in PathsBelow(I, D)[D.hi[n]]
        PROVE  n \notin S
    <3>1. Len(p) \in Nat /\ i + 1 \in 0 .. Len(p) /\ Len(p) \in 0 .. Len(p)
      <4>1. Len(p) \in Nat
        BY <2>0, SequenceFacts DEF Sequences
      <4> QED BY <2>2, <4>1
    <3>2. EndOf(I, p, Len(p)) <= far[D.hi[n]] + EndOf(I, p, i + 1)
      BY <2>0, <2>2, <3>1, FarthestBound, NodeFacts
    <3>3. EndOf(I, p, i + 1) = n[2] + Length(I, n)
      BY <2>1, <2>2
    <3>4. far[D.hi[n]] \in Int /\ n[2] \in Int /\ Length(I, n) \in Int
      BY NodeFacts, FarthestFacts
    <3>5. EndOf(I, p, Len(p)) \in Int /\ I.hmin \in Int
      <4>1. EndOf(I, p, Len(p)) \in Nat
        BY <2>0, <3>1, EndFacts
      <4>2. I.hmin \in Nat
        BY DEF IsInstance
      <4> QED BY <4>1, <4>2
    <3> HIDE DEF far
    <3> QED BY <2>0, <3>2, <3>3, <3>4, <3>5
  <2> QED BY <2>1, <2>2 DEF Avoids, Q
<1>3. S \subseteq Nodes(D)
  OBVIOUS
<1> HIDE DEF S
<1>4. \A p \in PathsOf(I, D) : Heavy(I, p) => \E Q : Avoids(I, D, S, p, Q)
  BY <1>2
<1> QED BY <1>1, <1>3, <1>4, CompressKeeps

\* A 1-arc whose job is on all paths to its node is on no path that repeats no job.
LEMMA TopdownKeeps ==
  ASSUME NEW I, IsInstance(I), NEW D, IsDiagram(I, D)
  PROVE  Keeps(I, D, Topdown(I, D))
<1> DEFINE on == AlwaysAbove(I, D)
           S == {n \in Nodes(D) : JobAt(I, n) \in on[n]}
           Q(p) == {x \in Vertices(D) \X (0 .. Len(p)) : x[1] # One => on[x[1]] \subseteq {p[k] : k \in 1 .. x[2]}}
<1>1. \A n \in Nodes(D) : on[n] = {j \in UNION Above(I, D, on, n) : \A s \in Above(I, D, on, n) : j \in s}
  BY AlwaysAboveFacts
<1>0. /\ \A n \in Nodes(D) : n \in Vertices(D) /\ n # One /\ D.lo[n] \in Vertices(D) /\ D.hi[n] \in Vertices(D)
      /\ D.root \in Vertices(D) /\ \A n \in Vertices(D) : n # One => n \in Nodes(D)
  BY NodeFacts DEF Vertices, IsDiagram
<1>2. Topdown(I, D) = IF S = {} THEN D ELSE Cleanup(I, Compress(D, S))
  BY DEF Topdown
<1> HIDE DEF on
<1>3. ASSUME NEW n \in Nodes(D)
      PROVE  /\ D.lo[n] # One => on[D.lo[n]] \subseteq on[n]
             /\ D.hi[n] # One => on[D.hi[n]] \subseteq on[n] \cup {JobAt(I, n)}
  <2>1. ASSUME D.lo[n] # One PROVE on[D.lo[n]] \subseteq on[n]
    <3>1. D.lo[n] \in Nodes(D) /\ on[n] \in Above(I, D, on, D.lo[n])
      BY <1>0, <2>1 DEF Above
    <3> QED BY <1>1, <3>1
  <2>2. ASSUME D.hi[n] # One PROVE on[D.hi[n]] \subseteq on[n] \cup {JobAt(I, n)}
    <3>1. D.hi[n] \in Nodes(D) /\ on[n] \cup {JobAt(I, n)} \in Above(I, D, on, D.hi[n])
      BY <1>0, <2>2 DEF Above
    <3> QED BY <1>1, <3>1
  <2> QED BY <2>1, <2>2
<1>4. D.root # One => on[D.root] = {}
  <2> SUFFICES ASSUME D.root # One PROVE on[D.root] = {}
    OBVIOUS
  <2>1. D.root \in Nodes(D) /\ D.root[1] \in Int
    BY <1>0, NodeFacts
  <2>2. \A n \in Nodes(D) : D.lo[n] # D.root /\ D.hi[n] # D.root
    <3> SUFFICES ASSUME NEW n \in Nodes(D), NEW c \in {D.lo[n], D.hi[n]}, c = D.root PROVE FALSE
      OBVIOUS
    <3>1. n[1] < c[1] /\ D.root[1] <= n[1] /\ n[1] \in Int
      BY <2>1, NodeFacts DEF IsDiagram
    <3> QED BY <2>1, <3>1
  <2>3. Above(I, D, on, D.root) = {}
    BY <2>2 DEF Above
  <2> QED BY <1>1, <2>1, <2>3
<1>5. ASSUME NEW p \in PathsOf(I, D), Heavy(I, p) PROVE Avoids(I, D, S, p, Q(p))
  <2>0. p \in Sequences(I) /\ IsElementary(p) /\ Len(p) \in Nat
    BY <1>5, SequenceFacts DEF Heavy, Sequences
  <2>1. <<D.root, 0>> \in Q(p)
    <3>1. 0 \in 0 .. Len(p)
      BY <2>0
    <3> QED BY <1>0, <1>4, <3>1
  <2>2. ASSUME NEW n \in Nodes(D), NEW i \in 0 .. Len(p), <<n, i>> \in Q(p)
        PROVE  /\ <<D.lo[n], i>> \in Q(p)
               /\ (i # Len(p) /\ p[i + 1] = JobAt(I, n)) => n \notin S /\ <<D.hi[n], i + 1>> \in Q(p)
    <3>1. on[n] \subseteq {p[k] : k \in 1 .. i}
      BY <1>0, <2>2
    <3>2. <<D.lo[n], i>> \in Q(p)
      BY <1>0, <1>3, <3>1
    <3>3. ASSUME i # Len(p), p[i + 1] = JobAt(I, n) PROVE n \notin S /\ <<D.hi[n], i + 1>> \in Q(p)
      <4>1. i + 1 \in 1 .. Len(p) /\ i + 1 \in 0 .. Len(p) /\ i + 1 \in 1 .. i + 1
            /\ \A k \in 1 .. i : k \in 1 .. Len(p) /\ k # i + 1 /\ k \in 1 .. i + 1
        BY <2>0, <3>3
      <4>2. \A k \in 1 .. i : p[k] # p[i + 1]
        <5> DEFINE T == DOMAIN I.jobs
        <5>1. p \in Seq(T)
          BY <2>0 DEF Sequences
        <5> HIDE DEF T
        <5>2. \A a, b \in 1 .. Len(p) : p[a] = p[b] => a = b
          BY <2>0, <5>1, ElementaryFacts
        <5> QED BY <4>1, <5>2
      <4>3. n \notin S
        BY <3>1, <3>3, <4>2
      <4>4. D.hi[n] # One => on[D.hi[n]] \subseteq {p[k] : k \in 1 .. i + 1}
        BY <1>3, <3>1, <3>3, <4>1
      <4> QED BY <1>0, <4>1, <4>3, <4>4
    <3> QED BY <3>2, <3>3
  <2> HIDE DEF Q, S
  <2> QED BY <2>1, <2>2 DEF Avoids
<1>6. S \subseteq Nodes(D)
  OBVIOUS
<1> HIDE DEF S
<1>7. Keeps(I, D, Compress(D, S))
  <2>1. \A p \in PathsOf(I, D) : Heavy(I, p) => \E q : Avoids(I, D, S, p, q)
    BY <1>5
  <2> QED BY <1>6, <2>1, CompressKeeps
<1>8. IsDiagram(I, Compress(D, S))
  BY <1>7 DEF Keeps
<1>9. Keeps(I, D, Cleanup(I, Compress(D, S)))
  BY <1>7, <1>8, CleanupKeeps, KeepsThrough
<1> QED BY <1>2, <1>9, KeepsItself

\* The jobs on all paths from a vertex are on each.
LEMMA AlwaysBelowBound ==
  ASSUME NEW I, IsInstance(I), NEW D, IsDiagram(I, D), NEW p \in Sequences(I)
  PROVE  \A n \in Vertices(D) : \A i \in 0 .. Len(p) :
           Rest(p, i) \in PathsBelow(I, D)[n] => AlwaysBelow(I, D)[n] \subseteq {p[k] : k \in i + 1 .. Len(p)}
<1> DEFINE on == AlwaysBelow(I, D)
           F == {n \in Vertices(D) : \A i \in 0 .. Len(p) :
                   Rest(p, i) \in PathsBelow(I, D)[n] => on[n] \subseteq {p[k] : k \in i + 1 .. Len(p)}}
<1>0. Len(p) \in Nat
  BY SequenceFacts DEF Sequences
<1>1. on[One] = {} /\ \A n \in Nodes(D) : on[n] = (on[D.hi[n]] \cup {JobAt(I, n)}) \cap on[D.lo[n]]
  BY AlwaysBelowFacts
<1> HIDE DEF on
<1>2. One \in F
  BY <1>1 DEF Vertices
<1>3. ASSUME NEW n \in Nodes(D), D.lo[n] \in F, D.hi[n] \in F PROVE n \in F
  <2>0. n \in Vertices(D) /\ n # One
    BY NodeFacts DEF Vertices
  <2> SUFFICES ASSUME NEW i \in 0 .. Len(p), Rest(p, i) \in PathsBelow(I, D)[n]
               PROVE  on[n] \subseteq {p[k] : k \in i + 1 .. Len(p)}
    BY <2>0
  <2>1. CASE Rest(p, i) \in PathsBelow(I, D)[D.lo[n]]
    <3>1. on[D.lo[n]] \subseteq {p[k] : k \in i + 1 .. Len(p)}
      BY <1>3, <2>1
    <3> QED BY <1>1, <3>1
  <2>2. CASE Rest(p, i) \notin PathsBelow(I, D)[D.lo[n]]
    <3>1. /\ i + 1 \in 1 .. Len(p) /\ i + 1 \in 0 .. Len(p)
          /\ p[i + 1] = JobAt(I, n) /\ Rest(p, i + 1) \in PathsBelow(I, D)[D.hi[n]]
      BY <2>0, <2>2, PathStep
    <3>2. on[D.hi[n]] \subseteq {p[k] : k \in (i + 1) + 1 .. Len(p)}
      BY <1>3, <3>1
    <3>3. i + 1 \in i + 1 .. Len(p) /\ \A k \in (i + 1) + 1 .. Len(p) : k \in i + 1 .. Len(p)
      BY <1>0, <3>1
    <3>4. on[D.hi[n]] \cup {JobAt(I, n)} \subseteq {p[k] : k \in i + 1 .. Len(p)}
      BY <3>1, <3>2, <3>3
    <3> QED BY <1>1, <3>4
  <2> QED BY <2>1, <2>2
<1>4. \A n \in Vertices(D) : n \in F
  <2> HIDE DEF F
  <2> QED BY <1>2, <1>3, DiagramInduction
<1> QED BY <1>4 DEF on

\* Nor is one whose job is on all paths from where it leads.
LEMMA BottomUpKeeps ==
  ASSUME NEW I, IsInstance(I), NEW D, IsDiagram(I, D)
  PROVE  Keeps(I, D, BottomUp(I, D))
<1> DEFINE on == AlwaysBelow(I, D)
           S == {n \in Nodes(D) : JobAt(I, n) \in on[D.hi[n]]}
           Q(p) == Vertices(D) \X (0 .. Len(p))
<1>1. BottomUp(I, D) = IF S = {} THEN D ELSE Cleanup(I, Compress(D, S))
  BY DEF BottomUp
<1>2. ASSUME NEW p \in PathsOf(I, D), Heavy(I, p) PROVE Avoids(I, D, S, p, Q(p))
  <2>0. p \in Sequences(I) /\ IsElementary(p) /\ Len(p) \in Nat
    BY <1>2, SequenceFacts DEF Heavy, Sequences
  <2>1. <<D.root, 0>> \in Q(p) /\ \A n \in Nodes(D), i \in 0 .. Len(p) : <<D.lo[n], i>> \in Q(p)
    <3>1. 0 \in 0 .. Len(p)
      BY <2>0
    <3> QED BY <3>1, NodeFacts DEF IsDiagram
  <2>2. ASSUME NEW n \in Nodes(D), NEW i \in 0 .. Len(p), i # Len(p), p[i + 1] = JobAt(I, n),
               Rest(p, i + 1) \in PathsBelow(I, D)[D.hi[n]]
        PROVE  n \notin S /\ <<D.hi[n], i + 1>> \in Q(p)
    <3>1. i + 1 \in 1 .. Len(p) /\ i + 1 \in 0 .. Len(p)
          /\ \A k \in (i + 1) + 1 .. Len(p) : k \in 1 .. Len(p) /\ k # i + 1
      BY <2>0, <2>2
    <3>2. on[D.hi[n]] \subseteq {p[k] : k \in (i + 1) + 1 .. Len(p)}
      BY <2>0, <2>2, <3>1, AlwaysBelowBound, NodeFacts
    <3>3. \A k \in (i + 1) + 1 .. Len(p) : p[k] # p[i + 1]
      <4> DEFINE T == DOMAIN I.jobs
      <4>1. p \in Seq(T)
        BY <2>0 DEF Sequences
      <4> HIDE DEF T
      <4>2. \A a, b \in 1 .. Len(p) : p[a] = p[b] => a = b
        BY <2>0, <4>1, ElementaryFacts
      <4> QED BY <3>1, <4>2
    <3>4. n \notin S
      BY <2>2, <3>2, <3>3
    <3> QED BY <3>1, <3>4, NodeFacts
  <2> HIDE DEF Q, S
  <2> QED BY <2>1, <2>2 DEF Avoids
<1>3. S \subseteq Nodes(D)
  OBVIOUS
<1> HIDE DEF S
<1>4. Keeps(I, D, Compress(D, S))
  <2>1. \A p \in PathsOf(I, D) : Heavy(I, p) => \E q : Avoids(I, D, S, p, q)
    BY <1>2
  <2> QED BY <1>3, <2>1, CompressKeeps
<1>5. IsDiagram(I, Compress(D, S))
  BY <1>4 DEF Keeps
<1>6. Keeps(I, D, Cleanup(I, Compress(D, S)))
  BY <1>4, <1>5, CleanupKeeps, KeepsThrough
<1> QED BY <1>1, <1>6, KeepsItself

\* Filtering a diagram takes no path of a schedule away.
LEMMA CopyKeeps ==
  ASSUME NEW I, IsInstance(I), NEW D, IsDiagram(I, D)
  PROVE  Keeps(I, D, Copy(I, D))
<1>1. Keeps(I, D, Cleanup(I, D)) /\ IsDiagram(I, Cleanup(I, D))
  BY CleanupKeeps DEF Keeps
<1>2. Keeps(I, D, BottomUp(I, Cleanup(I, D))) /\ IsDiagram(I, BottomUp(I, Cleanup(I, D)))
  <2>1. Keeps(I, Cleanup(I, D), BottomUp(I, Cleanup(I, D)))
    BY <1>1, BottomUpKeeps
  <2> QED BY <1>1, <2>1, KeepsThrough DEF Keeps
<1>3. Keeps(I, BottomUp(I, Cleanup(I, D)), Copy(I, D))
  BY <1>2, TopdownKeeps DEF Copy
<1> QED BY <1>2, <1>3, KeepsThrough

\* Taking the arcs of S away takes no such path away but those that use them.
LEMMA RemoveArcsKeeps ==
  ASSUME NEW I, IsInstance(I), NEW D, IsDiagram(I, D), NEW S, S \subseteq Nodes(D)
  PROVE  /\ IsDiagram(I, RemoveArcs(I, D, S)) /\ (Skips(I, D) => Skips(I, RemoveArcs(I, D, S)))
         /\ Nodes(RemoveArcs(I, D, S)) \subseteq Nodes(D)
         /\ PathsOf(I, RemoveArcs(I, D, S)) \subseteq PathsOf(I, Compress(D, S)) \cup PathsOf(I, D)
         /\ S # {} => PathsOf(I, RemoveArcs(I, D, S)) \subseteq PathsOf(I, Compress(D, S))
         /\ \A p \in PathsOf(I, D) :
              Heavy(I, p) /\ (\E Q : Avoids(I, D, S, p, Q)) => p \in PathsOf(I, RemoveArcs(I, D, S))
<1>1. CASE S = {}
  <2>1. RemoveArcs(I, D, S) = D
    BY <1>1 DEF RemoveArcs
  <2> QED BY <1>1, <2>1
<1>2. CASE S # {}
  <2> DEFINE E == Compress(D, S)
             G == BottomUp(I, E)
             H == Topdown(I, G)
             K == Cleanup(I, H)
  <2>1. RemoveArcs(I, D, S) = K
    BY <1>2 DEF RemoveArcs
  <2>2. IsDiagram(I, E) /\ Nodes(E) \subseteq Nodes(D) /\ (Skips(I, D) => Skips(I, E))
    BY CompressFacts, CompressSkips
  <2>3. \A p \in PathsOf(I, D) : (\E Q : Avoids(I, D, S, p, Q)) => p \in PathsOf(I, E)
    BY AvoidingPathStays
  <2> HIDE DEF E
  <2>4. Keeps(I, E, G) /\ IsDiagram(I, G)
    BY <2>2, BottomUpKeeps DEF Keeps
  <2> HIDE DEF G
  <2>5. Keeps(I, G, H) /\ IsDiagram(I, H)
    BY <2>4, TopdownKeeps DEF Keeps
  <2> HIDE DEF H
  <2>6. Keeps(I, H, K)
    BY <2>5, CleanupKeeps
  <2> HIDE DEF K
  <2>7. Keeps(I, E, K)
    BY <2>4, <2>5, <2>6, KeepsThrough, SMTT(30)
  <2> QED BY <1>2, <2>1, <2>2, <2>3, <2>7 DEF Keeps, E
<1> QED BY <1>1, <1>2

--------------------------------------------------------------------------------
(* The diagram as it is built. *)

\* Where a node's arcs lead: to the next layer whose job can start, if there is one.
LEMMA ChildFacts ==
  ASSUME NEW I, IsInstance(I), NEW l \in DOMAIN I.layers, NEW t \in Nat, NEW taken \in BOOLEAN,
         Fits(I.jobs, I.layers[l], t),
         NEW time, time = IF taken THEN t + I.jobs[I.layers[l].job].p ELSE t
  PROVE  /\ GetChild(I.jobs, I.layers, l, t, taken) = One
              \/ \E k \in DOMAIN I.layers : /\ GetChild(I.jobs, I.layers, l, t, taken) = <<k, time>>
                                            /\ l < k /\ Fits(I.jobs, I.layers[k], time)
         /\ \A k \in DOMAIN I.layers :
              l < k /\ Fits(I.jobs, I.layers[k], time) /\ (taken => I.layers[k].job # I.layers[l].job) =>
                /\ GetChild(I.jobs, I.layers, l, t, taken) # One
                /\ GetChild(I.jobs, I.layers, l, t, taken)[1] <= k
<1> DEFINE L == Len(I.layers)
           N == {i \in l + 1 .. L : /\ Fits(I.jobs, I.layers[i], time)
                                    /\ taken => I.layers[i].job # I.layers[l].job}
           next == IF N = {} THEN L + 1 ELSE Min(N)
           c == GetChild(I.jobs, I.layers, l, t, taken)
<1>1. /\ L \in Nat /\ l \in 1 .. L /\ DOMAIN I.layers = 1 .. L
      /\ I.jobs[I.layers[l].job].p \in Nat /\ I.layers[l].b \in Nat
  BY InstanceFacts
<1>2. c = IF next <= L THEN <<next, time>> ELSE IF time <= I.layers[l].b THEN One ELSE Zero
  BY DEF GetChild, MinJob
<1>3. time <= I.layers[l].b
  BY <1>1 DEF Fits
<1>4. ASSUME N # {} PROVE Min(N) \in N /\ \A k \in N : Min(N) <= k
  <2>1. IsFiniteSet(l + 1 .. L)
    <3>1. l + 1 \in Int /\ L \in Int
      BY <1>1
    <3> QED BY <3>1, FS_Interval
  <2>2. N \subseteq l + 1 .. L
    OBVIOUS
  <2>3. IsFiniteSet(N) /\ N \in SUBSET Int
    <3>1. l + 1 .. L \subseteq Int
      BY <1>1
    <3> HIDE DEF N
    <3> QED BY <2>1, <2>2, <3>1, FS_Subset
  <2> HIDE DEF N
  <2> QED BY <1>4, <2>3, MinIsLeast
<1>5. \A k \in N : k \in DOMAIN I.layers /\ l < k /\ k <= L /\ Fits(I.jobs, I.layers[k], time)
  BY <1>1
<1>6. ASSUME NEW k \in DOMAIN I.layers, l < k, Fits(I.jobs, I.layers[k], time),
             taken => I.layers[k].job # I.layers[l].job
      PROVE  k \in N
  BY <1>1, <1>6
<1>7. One # <<0, 0>> /\ One[1] = 0 /\ \A k \in 1 .. L : <<k, time>> # One /\ <<k, time>>[1] = k
  BY DEF One
<1>8. CASE N = {}
  <2>1. c = One
    <3> HIDE DEF N, c, L
    <3> QED BY <1>1, <1>2, <1>3, <1>8
  <2>2. \A k \in DOMAIN I.layers :
          ~(l < k /\ Fits(I.jobs, I.layers[k], time) /\ (taken => I.layers[k].job # I.layers[l].job))
    BY <1>6, <1>8, SMTT(30)
  <2> QED BY <2>1, <2>2
<1>9. CASE N # {}
  <2>1. next \in N /\ next = Min(N) /\ next \in 1 .. L
    <3>1. next = Min(N)
      BY <1>9, SMTT(30)
    <3> HIDE DEF next, N
    <3> QED BY <1>1, <1>4, <1>5, <1>9, <3>1
  <2> HIDE DEF next, N, c
  <2>2. c = <<next, time>> /\ c # One /\ c[1] = next
    BY <1>1, <1>2, <1>5, <1>7, <2>1
  <2>3. \A k \in N : c[1] <= k
    BY <1>4, <1>9, <2>1, <2>2
  <2> QED BY <1>5, <1>6, <2>1, <2>2, <2>3 DEF c
<1> QED BY <1>8, <1>9

\* The layers are gone through once: A[l] is what is reached after l layers.
States(I) == {One} \cup {n \in (DOMAIN I.layers) \X Nat : Fits(I.jobs, I.layers[n[1]], n[2])}
Child(I, n, taken) == GetChild(I.jobs, I.layers, n[1], n[2], taken)
Low(I, n) == Child(I, n, FALSE)
High(I, n) == Child(I, n, TRUE)
Reach(I, S, l) == S \cup UNION {{Low(I, n), High(I, n)} : n \in {n \in S : n[1] = l}}
IsReached(I, A) ==
  /\ A[0] = {RootNode(I.layers)}
  /\ \A l \in 1 .. Len(I.layers) : A[l] = Reach(I, A[l - 1], l)
AsBuilt(I, N) ==
  [root |-> RootNode(I.layers),
   lo |-> [n \in N |-> Low(I, n)], hi |-> [n \in N |-> High(I, n)]]

LEMMA ReachMember ==
  ASSUME NEW I, NEW S, NEW l
  PROVE  \A x : x \in Reach(I, S, l) <=>
           x \in S \/ \E n \in S : n[1] = l /\ (x = Low(I, n) \/ x = High(I, n))
BY DEF Reach

LEMMA ReachType ==
  ASSUME NEW I, IsInstance(I), NEW S \in SUBSET States(I), NEW l \in 1 .. Len(I.layers)
  PROVE  Reach(I, S, l) \in SUBSET States(I)
<1> SUFFICES \A taken \in BOOLEAN : \A n \in S : n[1] = l => Child(I, n, taken) \in States(I)
  <2>1. ASSUME \A taken \in BOOLEAN : \A n \in S : n[1] = l => Child(I, n, taken) \in States(I)
        PROVE  Reach(I, S, l) \in SUBSET States(I)
    <3>1. /\ \A n \in S : n[1] = l => Low(I, n) \in States(I)
          /\ \A n \in S : n[1] = l => High(I, n) \in States(I)
      BY <2>1 DEF Low, High
    <3>2. ASSUME NEW x \in Reach(I, S, l) PROVE x \in States(I)
      <4>1. x \in S \/ \E n \in S : n[1] = l /\ (x = Low(I, n) \/ x = High(I, n))
        BY ReachMember
      <4> QED BY <3>1, <4>1
    <3> QED BY <3>2
  <2> QED BY <2>1
<1> SUFFICES ASSUME NEW taken \in BOOLEAN, NEW n \in S, n[1] = l PROVE Child(I, n, taken) \in States(I)
  OBVIOUS
<1>0. l \in DOMAIN I.layers /\ l \in Nat /\ l # 0
  BY InstanceFacts
<1>1. n # One
  BY <1>0 DEF One
<1>2. n \in (DOMAIN I.layers) \X Nat /\ Fits(I.jobs, I.layers[n[1]], n[2])
  BY <1>1 DEF States
<1> DEFINE t == n[2]
           time == IF taken THEN t + I.jobs[I.layers[l].job].p ELSE t
           c == GetChild(I.jobs, I.layers, l, t, taken)
<1>3. t \in Nat /\ Fits(I.jobs, I.layers[l], t)
  BY <1>2
<1>4. c = One \/ \E k \in DOMAIN I.layers : c = <<k, time>> /\ Fits(I.jobs, I.layers[k], time)
  <2>1. time = IF taken THEN t + I.jobs[I.layers[l].job].p ELSE t
    OBVIOUS
  <2> HIDE DEF t, time
  <2> QED BY <1>0, <1>3, <2>1, ChildFacts
<1>5. time \in Nat
  <2>1. I.jobs[I.layers[l].job].p \in Nat
    BY <1>0, InstanceFacts
  <2> QED BY <1>3, <2>1
<1>6. c \in States(I)
  <2> HIDE DEF c, time
  <2> QED BY <1>4, <1>5 DEF States
<1> QED BY <1>6 DEF Child

LEMMA RootIsState ==
  ASSUME NEW I, IsInstance(I)
  PROVE  RootNode(I.layers) \in States(I)
<1>1. 1 \in DOMAIN I.layers
  BY InstanceFacts
<1>2. Fits(I.jobs, I.layers[1], 0)
  BY DEF IsInstance
<1> QED BY <1>1, <1>2 DEF RootNode, States

LEMMA BuiltIsReached ==
  ASSUME NEW I, IsInstance(I)
  PROVE  \E A : IsReached(I, A) /\ Built(I) = AsBuilt(I, A[Len(I.layers)] \ {Zero, One})
<1> DEFINE n == Len(I.layers)
           V == SUBSET States(I)
           base == {RootNode(I.layers)}
           g == [l \in 1 .. n |-> [S \in V |-> Reach(I, S, l)]]
           at == [l \in DOMAIN I.layers |-> l]
           IsIter(f) == f = [T \in SUBSET (1 .. n) |-> IF T = {} THEN base
                               ELSE Reach(I, f[T \ {Max(T)}], at[Max(T)])]
           iter == CHOOSE f : IsIter(f)
<1>1. n \in Nat /\ DOMAIN I.layers = 1 .. n
  BY InstanceFacts
<1>2. g \in [1 .. n -> [V -> V]] /\ base \in V
  <2>1. \A l \in 1 .. n, S \in V : Reach(I, S, l) \in V
    BY ReachType
  <2>2. base \in V
    BY RootIsState
  <2> HIDE DEF V, n
  <2> QED BY <2>1, <2>2
<1>3. PICK f \in [SUBSET (1 .. n) -> V] : IsPass(f, n, base, g)
  <2> HIDE DEF g, V, n, base
  <2> QED BY <1>1, <1>2, PassIsDefined
<1>4. ASSUME NEW T \in SUBSET (1 .. n), T # {} PROVE Max(T) \in 1 .. n /\ T \ {Max(T)} \in SUBSET (1 .. n)
  <2>1. Max(T) \in T
    BY <1>1, <1>4, LastOfPart
  <2> QED BY <2>1
<1>5. ASSUME NEW T \in SUBSET (1 .. n)
      PROVE f[T] = IF T = {} THEN base ELSE Reach(I, f[T \ {Max(T)}], at[Max(T)])
  <2>1. f[T] = IF T = {} THEN base ELSE g[Max(T)][f[T \ {Max(T)}]]
    BY <1>3 DEF IsPass
  <2>2. ASSUME T # {}
        PROVE  g[Max(T)][f[T \ {Max(T)}]] = Reach(I, f[T \ {Max(T)}], at[Max(T)])
    <3>1. Max(T) \in 1 .. n /\ f[T \ {Max(T)}] \in V /\ at[Max(T)] = Max(T)
      BY <1>1, <1>3, <1>4, <2>2
    <3> HIDE DEF V, n, at
    <3> QED BY <3>1
  <2> QED BY <2>1, <2>2
<1>6. IsIter(f)
  <2>1. f = [T \in SUBSET (1 .. n) |-> f[T]]
    BY <1>3
  <2> HIDE DEF n, V, at, base
  <2> QED BY <2>1, <1>5, Zenon
<1>7. IsIter(iter)
  BY <1>6
<1>8. Built(I) = AsBuilt(I, iter[1 .. n] \ {Zero, One})
  <2>1. DOMAIN at = 1 .. n
    BY <1>1
  <2> QED BY <2>1 DEF Built, AsBuilt, Reach, Low, High, Child, FoldLeft, MapThenFoldSet
<1> DEFINE A == [k \in 0 .. n |-> iter[1 .. k]]
<1>9. A[0] = base
  <2>1. 1 .. 0 = {} /\ {} \in SUBSET (1 .. n) /\ 0 \in 0 .. n
    BY <1>1
  <2>2. iter[{}] = base
    BY <1>7, <2>1
  <2> QED BY <2>1, <2>2
<1>10. ASSUME NEW l \in 1 .. n PROVE A[l] = Reach(I, A[l - 1], l)
  <2>0. l - 1 \in 0 .. n - 1 /\ l - 1 \in 0 .. n /\ l \in 0 .. n /\ (l - 1) + 1 = l
    BY <1>1
  <2> DEFINE k == l - 1
  <2>1. /\ 1 .. k + 1 \in SUBSET (1 .. n) /\ 1 .. k + 1 # {}
        /\ Max(1 .. k + 1) = k + 1 /\ (1 .. k + 1) \ {k + 1} = 1 .. k
    <3>1. k \in 0 .. n - 1
      BY <2>0
    <3> HIDE DEF k, n
    <3> QED BY <1>1, <3>1, LastOfInterval
  <2>2. at[l] = l
    BY <1>1
  <2>3. ASSUME NEW T \in SUBSET (1 .. n), T # {}
        PROVE  iter[T] = Reach(I, iter[T \ {Max(T)}], at[Max(T)])
    <3> HIDE DEF iter, at
    <3> QED BY <1>7, <2>3
  <2>4. iter[1 .. l] = Reach(I, iter[1 .. l - 1], l)
    <3>1. k + 1 = l
      BY <2>0
    <3>2. iter[1 .. k + 1] = Reach(I, iter[(1 .. k + 1) \ {k + 1}], at[k + 1])
      <4> HIDE DEF iter, at, k
      <4> QED BY <2>1, <2>3
    <3> HIDE DEF iter, at
    <3> QED BY <2>1, <2>2, <3>1, <3>2
  <2> HIDE DEF iter
  <2> QED BY <2>0, <2>4
<1>11. IsReached(I, A) /\ A[n] = iter[1 .. n]
  <2>1. n \in 0 .. n
    BY <1>1
  <2> HIDE DEF iter
  <2>2. A[n] = iter[1 .. n]
    BY <2>1
  <2> HIDE DEF A
  <2> QED BY <1>9, <1>10, <2>2 DEF IsReached
<1> QED BY <1>8, <1>11

\* It is a diagram, and skips no node.
LEMMA BuiltFacts ==
  ASSUME NEW I, IsInstance(I)
  PROVE  IsDiagram(I, Built(I)) /\ Skips(I, Built(I))
<1> DEFINE L == Len(I.layers)
           D == Built(I)
<1>0. PICK A : IsReached(I, A) /\ D = AsBuilt(I, A[L] \ {Zero, One})
  BY BuiltIsReached
<1>1. L \in Nat /\ L # 0 /\ DOMAIN I.layers = 1 .. L
  BY InstanceFacts
<1>2. /\ A[0] = {RootNode(I.layers)}
      /\ \A l \in 1 .. L : A[l] = Reach(I, A[l - 1], l)
  BY <1>0 DEF IsReached
<1> HIDE DEF L
<1> DEFINE F == {l \in 0 .. L : /\ A[l] \subseteq States(I) /\ RootNode(I.layers) \in A[l]
                                /\ \A n \in A[l] : n # One /\ n[1] <= l =>
                                     Low(I, n) \in A[l] /\ High(I, n) \in A[l]}
<1>3. ASSUME NEW n \in States(I), n # One, NEW taken \in BOOLEAN,
             NEW time, time = IF taken THEN n[2] + Length(I, n) ELSE n[2]
      PROVE  /\ Child(I, n, taken) \in States(I)
             /\ Child(I, n, taken) # One =>
                  n[1] < Child(I, n, taken)[1] /\ Child(I, n, taken)[1] \in 1 .. L /\ Child(I, n, taken)[2] = time
             /\ \A z \in States(I) : z # One /\ n[1] < z[1] /\ z[2] = time /\ (taken => JobAt(I, z) # JobAt(I, n))
                                      => Child(I, n, taken) # One /\ Child(I, n, taken)[1] <= z[1]
             /\ n[1] \in 1 .. L /\ n[2] \in Nat /\ Length(I, n) \in Nat
             /\ Fits(I.jobs, I.layers[n[1]], n[2])
  <2> DEFINE l == n[1]
             t == n[2]
             c == GetChild(I.jobs, I.layers, l, t, taken)
  <2>1. l \in DOMAIN I.layers /\ t \in Nat /\ Fits(I.jobs, I.layers[l], t)
    BY <1>3 DEF States
  <2>2. time = IF taken THEN t + I.jobs[I.layers[l].job].p ELSE t
    BY <1>3 DEF Length, JobAt
  <2>3. /\ c = One \/ \E k \in DOMAIN I.layers : c = <<k, time>> /\ l < k /\ Fits(I.jobs, I.layers[k], time)
        /\ \A k \in DOMAIN I.layers :
             l < k /\ Fits(I.jobs, I.layers[k], time) /\ (taken => I.layers[k].job # I.layers[l].job) =>
                c # One /\ c[1] <= k
    <3> HIDE DEF l, t
    <3> QED BY <2>1, <2>2, ChildFacts
  <2>4. Length(I, n) \in Nat
    BY <2>1, InstanceFacts DEF Length, JobAt
  <2>5. time \in Nat
    BY <1>3, <2>1, <2>4
  <2>6. Child(I, n, taken) = c
    BY DEF Child
  <2> HIDE DEF c
  <2>7. c \in States(I) /\ (c # One => n[1] < c[1] /\ c[1] \in 1 .. L /\ c[2] = time)
    BY <1>1, <2>3, <2>5 DEF States
  <2>8. \A z \in States(I) : z # One /\ n[1] < z[1] /\ z[2] = time /\ (taken => JobAt(I, z) # JobAt(I, n))
                                      => c # One /\ c[1] <= z[1]
    BY <2>3 DEF States, JobAt
  <2> QED BY <1>1, <2>1, <2>4, <2>6, <2>7, <2>8
<1>12. ASSUME NEW n \in States(I), n # One
       PROVE  /\ Low(I, n) # One => n[1] < Low(I, n)[1] /\ Low(I, n)[2] = n[2]
              /\ \A z \in States(I) : z # One /\ n[1] < z[1] /\ z[2] = n[2] => Low(I, n) # One /\ Low(I, n)[1] <= z[1]
  <2> DEFINE time == n[2]
  <2>1. time = IF FALSE THEN n[2] + Length(I, n) ELSE n[2]
    OBVIOUS
  <2> HIDE DEF time
  <2>2. /\ Child(I, n, FALSE) # One => n[1] < Child(I, n, FALSE)[1] /\ Child(I, n, FALSE)[2] = time
        /\ \A z \in States(I) : z # One /\ n[1] < z[1] /\ z[2] = time /\ (FALSE => JobAt(I, z) # JobAt(I, n))
                                      => Child(I, n, FALSE) # One /\ Child(I, n, FALSE)[1] <= z[1]
    BY <1>3, <1>12, <2>1
  <2> QED BY <2>2 DEF Low, time
<1>13. ASSUME NEW n \in States(I), n # One
       PROVE  /\ High(I, n) # One => n[1] < High(I, n)[1] /\ High(I, n)[2] = n[2] + Length(I, n)
              /\ \A z \in States(I) : z # One /\ n[1] < z[1] /\ z[2] = n[2] + Length(I, n) /\ JobAt(I, z) # JobAt(I, n)
                   => High(I, n) # One /\ High(I, n)[1] <= z[1]
  <2> DEFINE time == n[2] + Length(I, n)
  <2>1. time = IF TRUE THEN n[2] + Length(I, n) ELSE n[2]
    OBVIOUS
  <2> HIDE DEF time
  <2>2. /\ Child(I, n, TRUE) # One => n[1] < Child(I, n, TRUE)[1] /\ Child(I, n, TRUE)[2] = time
        /\ \A z \in States(I) : z # One /\ n[1] < z[1] /\ z[2] = time /\ (TRUE => JobAt(I, z) # JobAt(I, n))
                                      => Child(I, n, TRUE) # One /\ Child(I, n, TRUE)[1] <= z[1]
    BY <1>3, <1>13, <2>1
  <2> QED BY <2>2 DEF High, time
<1>4. 0 \in F
  <2>1. RootNode(I.layers) \in States(I) /\ 0 \in 0 .. L
    BY <1>1, RootIsState
  <2>2. \A n \in A[0] : ~(n[1] <= 0)
    BY <1>2 DEF RootNode
  <2>3. A[0] \subseteq States(I) /\ RootNode(I.layers) \in A[0]
    BY <1>2, <2>1
  <2> HIDE DEF L
  <2> QED BY <2>1, <2>2, <2>3
<1>5. ASSUME NEW l \in 1 .. L, l - 1 \in F PROVE l \in F
  <2>1. A[l] = Reach(I, A[l - 1], l)
    BY <1>2
  <2>2. A[l] \subseteq States(I)
    <3>1. l \in 1 .. Len(I.layers) /\ A[l - 1] \in SUBSET States(I)
      BY <1>5 DEF L
    <3>2. Reach(I, A[l - 1], l) \in SUBSET States(I)
      BY <3>1, ReachType
    <3> QED BY <2>1, <3>2
  <2>3. A[l - 1] \subseteq A[l]
    BY <2>1 DEF Reach
  <2>4. ASSUME NEW n \in A[l], n # One, n[1] <= l PROVE Low(I, n) \in A[l] /\ High(I, n) \in A[l]
    <3>1. n \in States(I) /\ n[1] \in 1 .. L
      <4>1. n \in States(I)
        BY <2>2
      <4> QED BY <1>1, <2>4, <4>1 DEF States
    <3>2. CASE n \in A[l - 1]
      <4>1. CASE n[1] = l
        <5>1. /\ Low(I, n) \in Reach(I, A[l - 1], l)
              /\ High(I, n) \in Reach(I, A[l - 1], l)
          BY <3>2, <4>1, ReachMember, Zenon
        <5> QED BY <2>1, <5>1
      <4>2. CASE n[1] # l
        <5>1. n[1] <= l - 1
          BY <1>1, <2>4, <3>1, <4>2
        <5>2. Low(I, n) \in A[l] /\ High(I, n) \in A[l]
          BY <1>5, <2>3, <2>4, <3>2, <5>1
        <5> QED BY <5>2
      <4> QED BY <4>1, <4>2
    <3>3. CASE n \notin A[l - 1]
      <4>1. \E x \in A[l - 1] : x[1] = l /\ (n = Low(I, x) \/ n = High(I, x))
        <5>1. n \in Reach(I, A[l - 1], l)
          BY <2>1
        <5> QED BY <3>3, <5>1, ReachMember
      <4>2. PICK x \in A[l - 1] : x[1] = l /\ (n = Low(I, x) \/ n = High(I, x))
        BY <4>1
      <4>3. x \in States(I) /\ x # One
        <5>1. One[1] = 0 /\ l # 0
          BY <1>1 DEF One
        <5> QED BY <1>5, <4>2, <5>1
      <4>4. x[1] < n[1]
        <5>1. n = Low(I, x) => x[1] < n[1]
          BY <1>12, <2>4, <4>3
        <5>2. n = High(I, x) => x[1] < n[1]
          BY <1>13, <2>4, <4>3
        <5> QED BY <4>2, <5>1, <5>2
      <4> QED BY <1>1, <2>4, <3>1, <4>2, <4>4
    <3> QED BY <3>2, <3>3
  <2>5. \A n \in A[l] : n # One /\ n[1] <= l => Low(I, n) \in A[l] /\ High(I, n) \in A[l]
    BY <2>4
  <2>6. l \in 0 .. L /\ RootNode(I.layers) \in A[l]
    BY <1>1, <1>5, <2>3
  <2> QED BY <2>2, <2>5, <2>6
<1>6. L \in F
  <2>1. \A l \in 0 .. L : l \in F
    <3> HIDE DEF F
    <3> QED BY <1>1, <1>4, <1>5, IntervalInduction
  <2>2. L \in 0 .. L
    BY <1>1
  <2> HIDE DEF F
  <2> QED BY <2>1, <2>2
<1> DEFINE N == A[L] \ {Zero, One}
<1>7. /\ A[L] \subseteq States(I) /\ Zero \notin States(I) /\ RootNode(I.layers) \in N
      /\ \A n \in N : Low(I, n) \in N \cup {One} /\ High(I, n) \in N \cup {One}
  <2>1. Zero \notin States(I)
    BY <1>1 DEF Zero, One, States
  <2>2. A[L] \subseteq States(I) /\ RootNode(I.layers) \in A[L]
    BY <1>6
  <2>3. \A n \in N : n[1] <= L
    BY <1>1, <2>2 DEF States
  <2>4. \A n \in N : Low(I, n) \in A[L] /\ High(I, n) \in A[L]
    BY <1>6, <2>3
  <2>5. RootNode(I.layers) \notin {Zero, One}
    BY DEF RootNode, Zero, One
  <2> QED BY <2>1, <2>2, <2>4, <2>5
<1> HIDE DEF N, F
<1>8. /\ D.root = RootNode(I.layers) /\ D.lo = [n \in N |-> Low(I, n)]
      /\ D.hi = [n \in N |-> High(I, n)] /\ Nodes(D) = N
  BY <1>0 DEF N, AsBuilt, Nodes
<1>9. \A n \in N : n \in States(I) /\ n # One
  BY <1>7 DEF N
<1> HIDE DEF D
<1>10. IsDiagram(I, D)
  <2>1. Nodes(D) \subseteq (DOMAIN I.layers) \X (0 .. Horizon(I))
    <3> SUFFICES ASSUME NEW n \in N PROVE n \in (DOMAIN I.layers) \X (0 .. Horizon(I))
      BY <1>8
    <3>1. n \in (DOMAIN I.layers) \X Nat /\ Fits(I.jobs, I.layers[n[1]], n[2])
      BY <1>9 DEF States
    <3>2. I.jobs[I.layers[n[1]].job].p \in Nat /\ I.layers[n[1]].b \in Nat
          /\ I.layers[n[1]].b <= Horizon(I) /\ Horizon(I) \in Nat
      BY <3>1, InstanceFacts
    <3>3. n[2] <= Horizon(I)
      BY <3>1, <3>2 DEF Fits
    <3> QED BY <3>1, <3>2, <3>3
  <2>2. D.lo \in [Nodes(D) -> Vertices(D)] /\ D.hi \in [Nodes(D) -> Vertices(D)]
    BY <1>7, <1>8 DEF Vertices
  <2>3. D.root \in Vertices(D) /\ D.root[2] = 0 /\ D.root[1] = 1 /\ D.root # One
    BY <1>7, <1>8, <1>9 DEF Vertices, RootNode
  <2>4. ASSUME NEW n \in Nodes(D)
        PROVE  /\ D.root # One /\ D.root[1] <= n[1]
               /\ Fits(I.jobs, I.layers[n[1]], n[2])
               /\ D.lo[n] # One => n[1] < D.lo[n][1] /\ D.lo[n][2] = n[2]
               /\ D.hi[n] # One => n[1] < D.hi[n][1] /\ D.hi[n][2] = n[2] + Length(I, n)
    <3>1. /\ n \in N /\ n \in States(I) /\ n # One /\ D.lo[n] = Low(I, n) /\ D.hi[n] = High(I, n)
      BY <1>8, <1>9
    <3>2. n[1] \in 1 .. L /\ Fits(I.jobs, I.layers[n[1]], n[2])
      BY <1>3, <3>1
    <3>3. D.lo[n] # One => n[1] < D.lo[n][1] /\ D.lo[n][2] = n[2]
      BY <1>12, <3>1
    <3>4. D.hi[n] # One => n[1] < D.hi[n][1] /\ D.hi[n][2] = n[2] + Length(I, n)
      BY <1>13, <3>1
    <3> QED BY <2>3, <3>2, <3>3, <3>4
  <2> QED BY <2>1, <2>2, <2>3, <2>4 DEF IsDiagram
<1>11. Skips(I, D)
  <2> SUFFICES ASSUME NEW u \in N, NEW z \in N, u[1] < z[1]
               PROVE  /\ z[2] = u[2] => D.lo[u] # One /\ D.lo[u][1] <= z[1]
                      /\ z[2] = u[2] + Length(I, u) /\ JobAt(I, z) # JobAt(I, u)
                           => D.hi[u] # One /\ D.hi[u][1] <= z[1]
    BY <1>8 DEF Skips
  <2>1. /\ u \in States(I) /\ u # One /\ z \in States(I) /\ z # One
        /\ D.lo[u] = Low(I, u) /\ D.hi[u] = High(I, u)
    BY <1>8, <1>9
  <2> QED BY <1>12, <1>13, <2>1
<1> QED BY <1>10, <1>11 DEF D

--------------------------------------------------------------------------------
(* Branching. *)

\* A path avoids the nodes that start no job of it when it does.
LEMMA OnTimeAvoids ==
  ASSUME NEW I, IsInstance(I), NEW D, IsDiagram(I, D), NEW S, NEW p \in Sequences(I),
         \A n \in Nodes(D), i \in 0 .. Len(p) :
           i + 1 \in 1 .. Len(p) /\ p[i + 1] = JobAt(I, n) /\ EndOf(I, p, i + 1) = n[2] + Length(I, n) => n \notin S
  PROVE  Avoids(I, D, S, p, OnTime(I, D, p))
<1> DEFINE Q == OnTime(I, D, p)
<1>1. /\ <<D.root, 0>> \in Q
      /\ \A n \in Nodes(D), i \in 0 .. Len(p) : <<n, i>> \in Q =>
              /\ n[2] = EndOf(I, p, i) /\ <<D.lo[n], i>> \in Q
              /\ (i # Len(p) /\ p[i + 1] = JobAt(I, n)) =>
                    /\ <<D.hi[n], i + 1>> \in Q
                    /\ EndOf(I, p, i + 1) = n[2] + Length(I, n)
  BY PathIsOnTime
<1>2. Len(p) \in Nat
  BY SequenceFacts DEF Sequences
<1>3. \A i \in 0 .. Len(p) : i # Len(p) => i + 1 \in 1 .. Len(p)
  BY <1>2
<1> HIDE DEF Q
<1> QED BY <1>1, <1>3 DEF Avoids, Q

\* The reduction of a diagram by no arcs adds none back.
LEMMA RemoveArcsPaths ==
  ASSUME NEW I, IsInstance(I), NEW D, IsDiagram(I, D), NEW S, S \subseteq Nodes(D)
  PROVE  /\ PathsOf(I, RemoveArcs(I, D, S)) \subseteq PathsOf(I, Compress(D, S))
         /\ PathsOf(I, RemoveArcs(I, D, S)) \subseteq PathsOf(I, D)
<1>1. CASE S # {}
  <2>1. PathsOf(I, RemoveArcs(I, D, S)) \subseteq PathsOf(I, Compress(D, S))
    BY <1>1, RemoveArcsKeeps
  <2> QED BY <2>1, CompressAddsNoPath
<1>2. CASE S = {}
  <2>1. RemoveArcs(I, D, S) = D
    BY <1>2 DEF RemoveArcs
  <2>2. ASSUME NEW p \in PathsOf(I, D) PROVE p \in PathsOf(I, Compress(D, S))
    <3> DEFINE Q == Vertices(D) \X (0 .. Len(p))
    <3>1. p \in Sequences(I)
      <4>1. D.root \in Vertices(D)
        BY DEF IsDiagram
      <4> QED BY <4>1, PathsFacts DEF PathsOf
    <3>2. Len(p) \in Nat
      BY <3>1, SequenceFacts DEF Sequences
    <3>3. Avoids(I, D, S, p, Q)
      <4>1. <<D.root, 0>> \in Q
        BY <3>2 DEF IsDiagram
      <4>2. \A i \in 0 .. Len(p) : i # Len(p) => i + 1 \in 0 .. Len(p)
        BY <3>2
      <4>3. \A n \in Nodes(D), i \in 0 .. Len(p) :
              <<D.lo[n], i>> \in Q /\ (i # Len(p) => <<D.hi[n], i + 1>> \in Q)
        BY <4>2, NodeFacts
      <4> HIDE DEF Q
      <4> QED BY <1>2, <4>1, <4>3 DEF Avoids
    <3> QED BY <3>3, AvoidingPathStays
  <2> QED BY <2>1, <2>2
<1> QED BY <1>1, <1>2

IsCut(c) == c.time \in Int /\ c.left \in BOOLEAN
ChildOf(I, D, c) == Split(I, D, c.job, c.time, c.left)

\* A diagram none of whose nodes starts the decision's job at a wrong time has no path
\* that does.
LEMMA PathsAreWithin ==
  ASSUME NEW I, IsInstance(I), NEW D, IsDiagram(I, D), NEW c, IsCut(c),
         \A n \in Nodes(D) : JobAt(I, n) = c.job => (n[2] + Length(I, n) <= c.time) # c.left
  PROVE  \A p \in PathsOf(I, D) : Within(I, p, c)
<1> SUFFICES ASSUME NEW p \in PathsOf(I, D) PROVE Within(I, p, c)
  OBVIOUS
<1>0. p \in Sequences(I) /\ D.root \in Vertices(D)
  <2>1. D.root \in Vertices(D)
    BY DEF IsDiagram
  <2> QED BY <2>1, PathsFacts DEF PathsOf
<1>1. Len(p) \in Nat /\ DOMAIN p = 1 .. Len(p)
  BY <1>0, SequenceFacts DEF Sequences
<1> DEFINE Fit(k) == p[k] = c.job => (EndOf(I, p, k) > c.time) = c.left
           F == {n \in Vertices(D) : \A i \in 0 .. Len(p) :
                   <<n, i>> \in OnTime(I, D, p) /\ Rest(p, i) \in PathsBelow(I, D)[n] => \A k \in i + 1 .. Len(p) : Fit(k)}
<1>2. /\ <<D.root, 0>> \in OnTime(I, D, p)
      /\ \A n \in Nodes(D), i \in 0 .. Len(p) : <<n, i>> \in OnTime(I, D, p) =>
              /\ n[2] = EndOf(I, p, i) /\ <<D.lo[n], i>> \in OnTime(I, D, p)
              /\ (i # Len(p) /\ p[i + 1] = JobAt(I, n)) =>
                    /\ <<D.hi[n], i + 1>> \in OnTime(I, D, p)
                    /\ EndOf(I, p, i + 1) = n[2] + Length(I, n)
  BY <1>0, PathIsOnTime
<1>3. One \in F
  <2> SUFFICES ASSUME NEW i \in 0 .. Len(p), Rest(p, i) \in PathsBelow(I, D)[One] PROVE i + 1 .. Len(p) = {}
    BY DEF Vertices
  <2>1. One \in Vertices(D) /\ One \notin Nodes(D)
    BY NodeFacts DEF Vertices
  <2>2. i = Len(p)
    BY <1>0, <2>1, PathStep
  <2> QED BY <1>1, <2>2
<1>4. ASSUME NEW n \in Nodes(D), D.lo[n] \in F, D.hi[n] \in F PROVE n \in F
  <2>0. n \in Vertices(D) /\ n # One
    BY NodeFacts DEF Vertices
  <2> SUFFICES ASSUME NEW i \in 0 .. Len(p), <<n, i>> \in OnTime(I, D, p), Rest(p, i) \in PathsBelow(I, D)[n]
               PROVE  \A k \in i + 1 .. Len(p) : Fit(k)
    BY <2>0
  <2>1. CASE Rest(p, i) \in PathsBelow(I, D)[D.lo[n]]
    BY <1>2, <1>4, <2>1
  <2>2. CASE Rest(p, i) \notin PathsBelow(I, D)[D.lo[n]]
    <3>1. /\ i # Len(p) /\ i + 1 \in 1 .. Len(p) /\ i + 1 \in 0 .. Len(p)
          /\ p[i + 1] = JobAt(I, n) /\ Rest(p, i + 1) \in PathsBelow(I, D)[D.hi[n]]
      BY <1>0, <2>0, <2>2, PathStep
    <3>2. <<D.hi[n], i + 1>> \in OnTime(I, D, p) /\ EndOf(I, p, i + 1) = n[2] + Length(I, n)
      BY <1>2, <3>1
    <3>3. \A k \in (i + 1) + 1 .. Len(p) : Fit(k)
      BY <1>4, <3>1, <3>2
    <3>4. Fit(i + 1)
      <4>1. n[2] + Length(I, n) \in Int
        BY NodeFacts
      <4> DEFINE e == n[2] + Length(I, n)
      <4>2. (e > c.time) <=> ~(e <= c.time)
        <5> HIDE DEF e
        <5>1. e \in Int /\ c.time \in Int
          BY <4>1 DEF e, IsCut
        <5> QED BY <5>1
      <4>3. JobAt(I, n) = c.job => (e <= c.time) # c.left
        OBVIOUS
      <4>4. EndOf(I, p, i + 1) = e /\ p[i + 1] = JobAt(I, n)
        BY <3>1, <3>2
      <4> HIDE DEF e
      <4>5. p[i + 1] = c.job => (e > c.time) = c.left
        BY <4>2, <4>3, <4>4 DEF IsCut
      <4> QED BY <4>4, <4>5
    <3>5. \A k \in i + 1 .. Len(p) : k = i + 1 \/ k \in (i + 1) + 1 .. Len(p)
      BY <1>1
    <3> HIDE DEF Fit
    <3> QED BY <3>3, <3>4, <3>5
  <2> QED BY <2>1, <2>2
<1>5. D.root \in F
  <2>1. \A n \in Vertices(D) : n \in F
    <3> HIDE DEF F
    <3> QED BY <1>3, <1>4, DiagramInduction
  <2> QED BY <1>0, <2>1
<1>6. \A k \in 1 .. Len(p) : Fit(k)
  <2>1. Rest(p, 0) = p /\ 0 \in 0 .. Len(p)
    <3>1. Rest(p, 0) = p
      BY <1>0, RestFacts DEF Sequences
    <3> QED BY <1>1, <3>1
  <2>2. \A k \in 0 + 1 .. Len(p) : Fit(k)
    <3> HIDE DEF Fit
    <3> QED BY <1>2, <1>5, <2>1 DEF PathsOf
  <2> QED BY <2>2
<1> QED BY <1>1, <1>6 DEF Within

\* A child's paths respect its decision, and no path of a schedule that does is lost.
LEMMA SplitFacts ==
  ASSUME NEW I, IsInstance(I), NEW D, IsDiagram(I, D), NEW c, IsCut(c)
  PROVE  /\ IsDiagram(I, ChildOf(I, D, c)) /\ (Skips(I, D) => Skips(I, ChildOf(I, D, c)))
         /\ Nodes(ChildOf(I, D, c)) \subseteq Nodes(D) /\ PathsOf(I, ChildOf(I, D, c)) \subseteq PathsOf(I, D)
         /\ \A p \in PathsOf(I, ChildOf(I, D, c)) : Within(I, p, c)
         /\ \A p \in PathsOf(I, D) : Heavy(I, p) /\ Within(I, p, c) => p \in PathsOf(I, ChildOf(I, D, c))
<1> DEFINE S == SplitArcs(I, D, c.job, c.time, c.left)
           G == Compress(D, S)
           E == ChildOf(I, D, c)
<1>1. S = {n \in Nodes(D) : JobAt(I, n) = c.job /\ (n[2] + Length(I, n) <= c.time) = c.left} /\ S \subseteq Nodes(D)
  BY DEF SplitArcs
<1>2. E = RemoveArcs(I, D, S)
  BY DEF Split, ChildOf
<1> HIDE DEF S, E
<1>3. IsDiagram(I, G) /\ Nodes(G) \subseteq Nodes(D) \ S
  BY <1>1, CompressFacts
<1> HIDE DEF G
<1>4. \A p \in PathsOf(I, G) : Within(I, p, c)
  <2>1. \A n \in Nodes(G) : JobAt(I, n) = c.job => (n[2] + Length(I, n) <= c.time) # c.left
    BY <1>1, <1>3
  <2> QED BY <1>3, <2>1, PathsAreWithin
<1>5. PathsOf(I, E) \subseteq PathsOf(I, G) /\ PathsOf(I, E) \subseteq PathsOf(I, D)
  BY <1>1, <1>2, RemoveArcsPaths DEF G
<1>6. ASSUME NEW p \in PathsOf(I, D), Heavy(I, p), Within(I, p, c) PROVE Avoids(I, D, S, p, OnTime(I, D, p))
  <2>0. p \in Sequences(I)
    BY <1>6 DEF Heavy
  <2>1. DOMAIN p = 1 .. Len(p)
    BY <2>0, SequenceFacts DEF Sequences
  <2>2. ASSUME NEW n \in Nodes(D), NEW i \in 0 .. Len(p), i + 1 \in 1 .. Len(p), p[i + 1] = JobAt(I, n),
               EndOf(I, p, i + 1) = n[2] + Length(I, n)
        PROVE  n \notin S
    <3>1. JobAt(I, n) = c.job => (EndOf(I, p, i + 1) > c.time) = c.left
      BY <1>6, <2>1, <2>2 DEF Within
    <3> DEFINE e == n[2] + Length(I, n)
    <3>2. EndOf(I, p, i + 1) = e
      BY <2>2
    <3>3. (e > c.time) <=> ~(e <= c.time)
      <4>1. e \in Int /\ c.time \in Int
        BY NodeFacts DEF IsCut
      <4> HIDE DEF e
      <4> QED BY <4>1
    <3> HIDE DEF e
    <3>4. JobAt(I, n) = c.job => (e <= c.time) # c.left
      BY <3>1, <3>2, <3>3 DEF IsCut
    <3> QED BY <1>1, <3>4 DEF e
  <2> QED BY <2>0, <2>2, OnTimeAvoids
<1>7. \A p \in PathsOf(I, D) : Heavy(I, p) /\ Within(I, p, c) => p \in PathsOf(I, E)
  BY <1>1, <1>2, <1>6, RemoveArcsKeeps
<1>8. IsDiagram(I, E) /\ (Skips(I, D) => Skips(I, E)) /\ Nodes(E) \subseteq Nodes(D)
  BY <1>1, <1>2, RemoveArcsKeeps
<1> QED BY <1>4, <1>5, <1>7, <1>8 DEF E

\* A candidate is a job and a time, between two nodes that the solution starts the job at.
LEMMA CandidateFacts ==
  ASSUME NEW I, IsInstance(I), NEW D, IsDiagram(I, D), NEW x, NEW c \in Candidates(I, D, x)
  PROVE  /\ c[1] \in DOMAIN I.jobs /\ c[2] \in Int
         /\ \E u, v \in Nodes(D) : /\ JobAt(I, u) = c[1] /\ Flow(I, D, x)[u] > 0 /\ u[2] + Length(I, u) <= c[2]
                                  /\ JobAt(I, v) = c[1] /\ Flow(I, D, x)[v] > 0 /\ c[2] < v[2] + Length(I, v)
<1> DEFINE flow == Flow(I, D, x)
           ends(j) == {n[2] + I.jobs[j].p : n \in {n \in Nodes(D) : JobAt(I, n) = j /\ flow[n] > 0}}
           done(j, t) == MapThenSumSet(LAMBDA n : flow[n],
                           {n \in Nodes(D) : JobAt(I, n) = j /\ n[2] + I.jobs[j].p <= t})
           late(j) == {t \in ends(j) : t # Min(ends(j)) /\ Mostly(done(j, t))}
           middle(j) == LET t == Min(late(j))
                        IN  Middle(t, Max({u \in ends(j) : u < t}))
<1>1. PICK j \in DOMAIN I.jobs : c = <<j, middle(j)>> /\ ends(j) # {} /\ late(j) # {}
  BY DEF Candidates
<1> DEFINE E == ends(j)
           T == late(j)
<1>2. E \in SUBSET Int /\ IsFiniteSet(E)
  <2> DEFINE N == {n \in Nodes(D) : JobAt(I, n) = j /\ flow[n] > 0}
             f == [n \in N |-> n[2] + I.jobs[j].p]
             W == {f[n] : n \in N}
  <2>1. I.jobs[j].p \in Nat
    BY InstanceFacts
  <2>2. IsFiniteSet(N)
    <3>1. IsFiniteSet((DOMAIN I.layers) \X (0 .. Horizon(I)))
      <4>1. DOMAIN I.layers = 1 .. Len(I.layers) /\ Len(I.layers) \in Int /\ Horizon(I) \in Int
        BY InstanceFacts
      <4>2. IsFiniteSet(DOMAIN I.layers) /\ IsFiniteSet(0 .. Horizon(I))
        BY <4>1, FS_Interval
      <4> QED BY <4>2, FS_Product
    <3>2. N \subseteq (DOMAIN I.layers) \X (0 .. Horizon(I))
      BY DEF IsDiagram
    <3> HIDE DEF N
    <3> QED BY <3>1, <3>2, FS_Subset
  <2>3. IsFiniteSet(W)
    <3>1. DOMAIN f = N
      OBVIOUS
    <3> HIDE DEF f, N
    <3> QED BY <2>2, <3>1, FiniteImage
  <2>4. W = E
    OBVIOUS
  <2>5. \A n \in N : n[2] + I.jobs[j].p \in Int
    BY <2>1, NodeFacts
  <2> HIDE DEF N
  <2>6. E \in SUBSET Int
    BY <2>4, <2>5
  <2> HIDE DEF W, E
  <2> QED BY <2>3, <2>4, <2>6
<1>3. T \subseteq E /\ T # {} /\ \A t \in T : t # Min(E)
  BY <1>1
<1>4. Min(T) \in T
  <2> HIDE DEF E, T
  <2>1. IsFiniteSet(T) /\ T \in SUBSET Int
    BY <1>2, <1>3, FS_Subset
  <2> QED BY <1>3, <2>1, MinIsLeast
<1> DEFINE t == Min(T)
           U == {u \in E : u < t}
<1>5. t \in E /\ t \in Int /\ t # Min(E)
  <2> HIDE DEF E, T
  <2> QED BY <1>2, <1>3, <1>4
<1>6. Max(U) \in Int /\ Max(U) \in U
  <2>1. U \subseteq E
    OBVIOUS
  <2>2. U # {}
    <3> HIDE DEF E, t
    <3>1. E # {}
      BY <1>5
    <3>2. Min(E) \in E /\ \A u \in E : Min(E) <= u
      BY <1>2, <3>1, MinIsLeast
    <3>3. Min(E) < t
      <4>1. Min(E) \in Int /\ t \in Int /\ Min(E) <= t /\ t # Min(E)
        BY <1>2, <1>5, <3>2
      <4> QED BY <4>1
    <3> QED BY <3>2, <3>3
  <2> HIDE DEF E, U
  <2>3. IsFiniteSet(U) /\ U \in SUBSET Int
    BY <1>2, <2>1, FS_Subset
  <2> QED BY <2>2, <2>3, MaxIsGreatest
<1> DEFINE s == Max(U)
<1>7. s \in E /\ s < t /\ s \in Int
  <2> HIDE DEF E, t
  <2> QED BY <1>6
<1>8. c[1] = j /\ c[2] = (t + s) \div 2
  BY <1>1 DEF Middle
<1>9. \A e \in E : \E n \in Nodes(D) : JobAt(I, n) = j /\ flow[n] > 0 /\ n[2] + Length(I, n) = e
  BY DEF Length
<1> HIDE DEF t, s, E, flow
<1>10. (t + s) \div 2 \in Int /\ s <= (t + s) \div 2 /\ (t + s) \div 2 < t
  BY <1>5, <1>7
<1>11. PICK u \in Nodes(D) : JobAt(I, u) = j /\ flow[u] > 0 /\ u[2] + Length(I, u) = s
  BY <1>7, <1>9
<1>12. PICK v \in Nodes(D) : JobAt(I, v) = j /\ flow[v] > 0 /\ v[2] + Length(I, v) = t
  BY <1>5, <1>9
<1> QED BY <1>8, <1>10, <1>11, <1>12 DEF flow

--------------------------------------------------------------------------------
(* The state machine. *)

\* The diagram of the node being worked on is one, its nodes skip no layer that could
\* be used, and its paths respect the decisions.
DiagramInv ==
  /\ inst \in Instances
  /\ IsDiagram(inst, dd) /\ Skips(inst, dd)
  /\ \A c \in cuts : IsCut(c)
  /\ BranchingIsRespected

LEMMA DiagramInit ==
  ASSUME Init
  PROVE  DiagramInv
<1>1. inst \in Instances /\ IsInstance(inst) /\ cuts = {} /\ dd = Copy(inst, Built(inst))
  BY DiagramAssumption DEF Init
<1>2. IsDiagram(inst, dd) /\ Skips(inst, dd)
  <2>1. Keeps(inst, Built(inst), dd)
    BY <1>1, BuiltFacts, CopyKeeps
  <2> QED BY <1>1, <2>1, BuiltFacts DEF Keeps
<1> QED BY <1>1, <1>2 DEF DiagramInv, BranchingIsRespected

\* What becomes of the diagram in a step.
LEMMA FixDiagram ==
  ASSUME DiagramInv, Fix
  PROVE  DiagramInv'
<1>1. inst \in Instances /\ IsInstance(inst) /\ IsDiagram(inst, dd) /\ Skips(inst, dd)
  BY DiagramAssumption DEF DiagramInv
<1>2. PICK S : S \subseteq Nodes(dd) /\ dd' = RemoveArcs(inst, dd, S)
  <2> DEFINE T == Fixable(inst, dd, sol.pi, UB, solver, Forward(inst, dd, sol.pi, solver, labels))
  <2>1. T \subseteq Nodes(dd)
    BY DEF Fixable
  <2>2. dd' = RemoveArcs(inst, dd, T)
    BY DEF Fix
  <2> HIDE DEF T
  <2> QED BY <2>1, <2>2
<1>3. inst' = inst /\ cuts' = cuts
  BY DEF Fix
<1>4. IsDiagram(inst, dd') /\ Skips(inst, dd')
  BY <1>1, <1>2, RemoveArcsKeeps
<1>5. PathsOf(inst, dd') \subseteq PathsOf(inst, dd)
  BY <1>1, <1>2, RemoveArcsPaths
<1> QED BY <1>3, <1>4, <1>5 DEF DiagramInv, BranchingIsRespected

LEMMA BranchDiagram ==
  ASSUME DiagramInv, Branch
  PROVE  DiagramInv'
<1>1. inst \in Instances /\ IsInstance(inst) /\ IsDiagram(inst, dd) /\ Skips(inst, dd)
  BY DiagramAssumption DEF DiagramInv
<1> DEFINE C == Copy(inst, dd)
<1>2. PICK cut : IsCut(cut) /\ dd' = ChildOf(inst, C, cut) /\ cuts' = cuts \cup {cut}
  <2>1. PICK c \in Candidates(inst, dd, lp), left \in BOOLEAN :
          /\ dd' = Split(inst, C, c[1], c[2], left)
          /\ cuts' = cuts \cup {[job |-> c[1], time |-> c[2], left |-> left]}
    BY DEF Branch
  <2> DEFINE cut == [job |-> c[1], time |-> c[2], left |-> left]
  <2>2. c[2] \in Int
    BY <1>1, CandidateFacts
  <2>3. IsCut(cut)
    BY <2>2 DEF IsCut
  <2>4. dd' = ChildOf(inst, C, cut)
    BY <2>1 DEF ChildOf
  <2> QED BY <2>1, <2>3, <2>4
<1>3. inst' = inst
  BY DEF Branch
<1>4. Keeps(inst, dd, C)
  BY <1>1, CopyKeeps
<1>5. IsDiagram(inst, C) /\ Skips(inst, C) /\ PathsOf(inst, C) \subseteq PathsOf(inst, dd)
  BY <1>1, <1>4 DEF Keeps
<1> HIDE DEF C
<1>6. /\ IsDiagram(inst, dd') /\ Skips(inst, dd')
      /\ PathsOf(inst, dd') \subseteq PathsOf(inst, C)
      /\ \A p \in PathsOf(inst, dd') : Within(inst, p, cut)
  BY <1>1, <1>2, <1>5, SplitFacts
<1>7. \A c \in cuts' : IsCut(c)
  BY <1>2 DEF DiagramInv
<1>8. ASSUME NEW c \in cuts', NEW p \in PathsOf(inst, dd') PROVE Within(inst, p, c)
  <2>1. CASE c = cut
    BY <1>6, <2>1
  <2>2. CASE c \in cuts
    BY <1>5, <1>6, <2>2 DEF DiagramInv, BranchingIsRespected
  <2> QED BY <1>2, <2>1, <2>2
<1> QED BY <1>3, <1>6, <1>7, <1>8 DEF DiagramInv, BranchingIsRespected

\* The diagram stays well-formed whatever is fixed and split.
THEOREM DiagramCorrect == Spec => []DiagramInv
<1>1. Init => DiagramInv
  BY DiagramInit
<1>2. DiagramInv /\ [Next]_vars => DiagramInv'
  <2> SUFFICES ASSUME DiagramInv, [Next]_vars PROVE DiagramInv'
    OBVIOUS
  <2>1. CASE Price
    BY <2>1 DEF Price, DiagramInv, BranchingIsRespected
  <2>2. CASE Fix
    BY <2>2, FixDiagram
  <2>3. CASE Improve
    BY <2>3 DEF Improve, DiagramInv, BranchingIsRespected
  <2>4. CASE Solve
    BY <2>4 DEF Solve, DiagramInv, BranchingIsRespected
  <2>5. CASE Branch
    BY <2>5, BranchDiagram
  <2>6. CASE UNCHANGED vars
    BY <2>6 DEF vars, DiagramInv, BranchingIsRespected
  <2> QED BY <2>1, <2>2, <2>3, <2>4, <2>5, <2>6 DEF Next
<1> QED BY <1>1, <1>2, PTL DEF Spec

\* On every branch the paths of the diagram, of which the columns are priced, complete the
\* job of each decision above on its side (split_job_time, through any later fixing).
THEOREM BranchingRespected == Spec => []BranchingIsRespected
<1>1. DiagramInv => BranchingIsRespected
  BY DEF DiagramInv
<1> QED BY <1>1, DiagramCorrect, PTL

================================================================================
