-------------------------- MODULE BranchAndBoundProofs --------------------------
(***************************************************************************)
(* No schedule better than the incumbent is lost by the search, whatever   *)
(* the instance, the branching candidates, the order of exploration and    *)
(* what column generation returns within its promise.                      *)
(*                                                                         *)
(* The invariant says of each node whose bounds are known that they are    *)
(* sound (Sound), of each node that its incumbent is not ahead of the      *)
(* tree's, and of the pair strong branching keeps that it covers the node  *)
(* branched on.  The last needs a positive score: under the min scoring    *)
(* function two children that do not improve score nothing.                *)
(***************************************************************************)
EXTENDS BranchAndBound, FiniteSetTheorems, TLAPS

ScorePositive == \A a, b \in Nat : Score(a, b) \in Nat \ {0}

\* The bounds of the node rule out nothing better than the incumbent.
Sound(n) == \A s \in Allowed(n) : s.cost < ub => n.status # "infeasible" /\ n.lb <= s.cost

\* The schedules of n are among those of l and r.
Covers(l, r, n) == Allowed(n) \subseteq Allowed(l) \cup Allowed(r)

OpenInv == \A n \in open : Sound(n) /\ n.ub >= ub

CurInv == /\ pc \in {"root", "branch"} => cur.ub >= ub
          /\ pc = "root" => cur = Fresh

BestInv ==
  pc = "branch" =>
    /\ best = <<>> => cands # {} /\ gain = 0
    /\ best # <<>> => /\ Covers(best[1], best[2], cur)
                      /\ Sound(best[1]) /\ best[1].ub >= ub
                      /\ Sound(best[2]) /\ best[2].ub >= ub

QueueInv ==
  /\ pc # "process" <=> queue = <<>>
  /\ \A i \in DOMAIN queue :
       /\ queue[i].ub >= ub
       /\ IF strong THEN Sound(queue[i])
          ELSE queue[i].integer = FALSE

IInv == TypeOK /\ OpenInv /\ CurInv /\ BestInv /\ QueueInv /\ ImprovementIsLive

--------------------------------------------------------------------------------
LEMMA ScheduleType == ASSUME NEW s \in Schedule
                      PROVE  s.cost \in Nat /\ s.C \in [Job -> Time]
BY TreeAssumption

\* A bounded node is the node it was computed for with sound bounds.
LEMMA BoundedNode ==
  ASSUME NEW n \in NodeType, n.ub >= ub, ub \in Nat, n.integer = FALSE,
         NEW m \in Bounded(n)
  PROVE  /\ m \in NodeType /\ m.ub = n.ub /\ m.times = n.times
         /\ Allowed(m) = Allowed(n)
         /\ Sound(m)
<1>0. n.ub \in Nat /\ n.times \in [Job -> SUBSET Time]
  BY DEF NodeType
<1>1. ASSUME Wanted(n) = {}, m = Infeasible(n)
      PROVE  /\ m \in NodeType /\ m.ub = n.ub /\ m.times = n.times
             /\ Allowed(m) = Allowed(n) /\ Sound(m)
  <2>1. m \in NodeType /\ m.ub = n.ub /\ m.times = n.times /\ m.status = "infeasible"
    BY <1>1 DEF NodeType, Infeasible
  <2>2. Allowed(m) = Allowed(n)
    BY <2>1 DEF Allowed
  <2>3. Sound(m)
    <3> SUFFICES ASSUME NEW s \in Allowed(m), s.cost < ub PROVE FALSE
      BY DEF Sound
    <3>1. s \in Schedule
      BY DEF Allowed
    <3>2. s.cost < n.ub
      BY <3>1, <1>0, ScheduleType
    <3> QED BY <3>2, <2>2, <1>1 DEF Wanted
  <2> QED BY <2>1, <2>2, <2>3
<1>2. ASSUME NEW s0 \in Allowed(n), Wanted(n) = {} \/ s0.cost \in Bounds(n),
             m = Integral(n, s0)
      PROVE  /\ m \in NodeType /\ m.ub = n.ub /\ m.times = n.times
             /\ Allowed(m) = Allowed(n) /\ Sound(m)
  <2>0. s0 \in Schedule /\ s0.cost \in Nat
    BY ScheduleType DEF Allowed
  <2>1. /\ m \in NodeType /\ m.ub = n.ub /\ m.times = n.times
        /\ m.status = "LP_bound_computed" /\ m.lb = s0.cost /\ m.integer
    BY <1>2, <2>0 DEF NodeType, Integral
  <2>2. Allowed(m) = Allowed(n)
    BY <2>1 DEF Allowed
  <2>3. Sound(m)
    <3> SUFFICES ASSUME NEW s \in Allowed(m), s.cost < ub PROVE m.lb <= s.cost
      BY <2>1 DEF Sound
    <3>1. s \in Schedule
      BY DEF Allowed
    <3>2. s.cost < n.ub
      BY <3>1, <1>0, ScheduleType
    <3> QED BY <3>2, <2>2, <2>1, <1>2 DEF Wanted, Bounds
  <2> QED BY <2>1, <2>2, <2>3
<1>3. ASSUME NEW v \in Bounds(n), m = Fractional(n, v)
      PROVE  /\ m \in NodeType /\ m.ub = n.ub /\ m.times = n.times
             /\ Allowed(m) = Allowed(n) /\ Sound(m)
  <2>1. /\ m \in NodeType /\ m.ub = n.ub /\ m.times = n.times
        /\ m.status = "LP_bound_computed" /\ m.lb = v
    <3>1. v \in Nat
      BY <1>0 DEF Bounds
    <3> QED BY <1>3, <3>1 DEF NodeType, Fractional
  <2>2. Allowed(m) = Allowed(n)
    BY <2>1 DEF Allowed
  <2>3. Sound(m)
    <3> SUFFICES ASSUME NEW s \in Allowed(m), s.cost < ub PROVE m.lb <= s.cost
      BY <2>1 DEF Sound
    <3>1. s \in Schedule
      BY DEF Allowed
    <3>2. s.cost < n.ub
      BY <3>1, <1>0, ScheduleType
    <3> QED BY <3>2, <2>2, <2>1 DEF Wanted, Bounds
  <2> QED BY <2>1, <2>2, <2>3
<1>4. \/ Wanted(n) = {} /\ m = Infeasible(n)
      \/ \E s0 \in Allowed(n) : (Wanted(n) = {} \/ s0.cost \in Bounds(n)) /\ m = Integral(n, s0)
      \/ \E v \in Bounds(n) : m = Fractional(n, v)
  BY DEF Bounded
<1> QED BY <1>1, <1>2, <1>3, <1>4

\* The two children cover their parent.
LEMMA ChildrenCover ==
  ASSUME NEW n \in NodeType, NEW j \in Job, NEW t \in Time
  PROVE  LET l == Clone(n, j, t, FALSE)
             r == Clone(n, j, t, TRUE)
         IN  /\ l \in NodeType /\ r \in NodeType
             /\ l.ub = n.ub /\ r.ub = n.ub
             /\ l.integer = FALSE /\ r.integer = FALSE
             /\ Covers(l, r, n)
<1> DEFINE l == Clone(n, j, t, FALSE)
           r == Clone(n, j, t, TRUE)
<1>0. n.times \in [Job -> SUBSET Time]
  BY DEF NodeType
<1>1. /\ l \in NodeType /\ l.ub = n.ub /\ l.integer = FALSE
      /\ l.times = [n.times EXCEPT ![j] = {u \in n.times[j] : u <= t}]
  BY <1>0 DEF Clone, NodeType
<1>2. /\ r \in NodeType /\ r.ub = n.ub /\ r.integer = FALSE
      /\ r.times = [n.times EXCEPT ![j] = {u \in n.times[j] : u > t}]
  BY <1>0 DEF Clone, NodeType
<1>3. ASSUME NEW s \in Allowed(n) PROVE s \in Allowed(l) \/ s \in Allowed(r)
  <2>1. s \in Schedule /\ s.C \in [Job -> Time] /\ \A i \in Job : s.C[i] \in n.times[i]
    BY ScheduleType DEF Allowed
  <2>2. s.C[j] \in Int /\ t \in Int
    BY <2>1, TreeAssumption
  <2>3. CASE s.C[j] <= t
    BY <2>1, <2>3, <1>0, <1>1 DEF Allowed
  <2>4. CASE s.C[j] > t
    BY <2>1, <2>4, <1>0, <1>2 DEF Allowed
  <2>5. s.C[j] <= t \/ s.C[j] > t
    BY <2>2
  <2> QED BY <2>3, <2>4, <2>5
<1> QED BY <1>1, <1>2, <1>3 DEF Covers

\* Soundness survives a better incumbent.
LEMMA SoundStays ==
  ASSUME NEW n, Sound(n), ub \in Nat, ub' \in Nat, ub' <= ub
  PROVE  Sound(n)'
<1> SUFFICES ASSUME NEW s \in Allowed(n), s.cost < ub'
             PROVE  n.status # "infeasible" /\ n.lb <= s.cost
  BY DEF Sound, Allowed
<1>1. s.cost \in Nat
  BY ScheduleType DEF Allowed
<1> QED BY <1>1 DEF Sound

\* Processing a node with sound bounds: what it held that is still better than
\* the incumbent is held by an open node.
LEMMA ProcessNode ==
  ASSUME TypeOK, OpenInv, NEW n \in NodeType, Process(n), Sound(n), n.ub >= ub
  PROVE  /\ ub' \in Nat /\ ub' <= ub
         /\ open' \subseteq NodeType /\ open \subseteq open'
         /\ OpenInv'
         /\ \A s \in Allowed(n) : s.cost < ub' => n \in open'
<1>0. ub \in Nat /\ n.lb \in Nat /\ n.ub \in Nat /\ open \subseteq NodeType /\ Sound(n)
  BY DEF TypeOK, NodeType
<1>1. ub' \in Nat /\ ub' <= ub /\ open \subseteq open' /\ open' \subseteq open \cup {n}
  BY <1>0 DEF Process
<1>2. ASSUME NEW m \in NodeType, Sound(m), m.ub >= ub PROVE Sound(m)' /\ m.ub >= ub'
  <2>1. m.ub >= ub'
    BY <1>0, <1>1, <1>2 DEF NodeType
  <2> QED BY <2>1, <1>0, <1>1, <1>2, SoundStays
<1>3. OpenInv'
  BY <1>0, <1>1, <1>2 DEF OpenInv
<1>4. ASSUME NEW s \in Allowed(n), s.cost < ub' PROVE n \in open'
  <2>1. s.cost \in Nat
    BY ScheduleType DEF Allowed
  <2>2. n.status # "infeasible" /\ n.lb <= s.cost /\ s.cost < ub
    BY <2>1, <1>0, <1>1, <1>4 DEF Sound
  <2>3. n.integer = FALSE
    BY <2>1, <2>2, <1>0, <1>4 DEF Process, NodeType
  <2> QED BY <2>1, <2>2, <2>3, <1>0 DEF Process
<1> QED BY <1>0, <1>1, <1>3, <1>4
--------------------------------------------------------------------------------
LEMMA FreshNode == /\ Fresh \in NodeType /\ Fresh.ub = InitUB
                   /\ Fresh.integer = FALSE
                   /\ Allowed(Fresh) = Schedule
<1>1. Fresh \in NodeType /\ Fresh.times = [j \in Job |-> Time]
      /\ Fresh.ub = InitUB /\ Fresh.integer = FALSE
  BY TreeAssumption DEF Fresh, NodeType
<1>2. \A s \in Schedule : \A j \in Job : s.C[j] \in Time
  BY ScheduleType
<1> QED BY <1>1, <1>2 DEF Allowed

LEMMA InitInv == Init => IInv
<1> SUFFICES ASSUME Init PROVE IInv
  OBVIOUS
<1>1. TypeOK
  BY FreshNode, TreeAssumption DEF Init, TypeOK
<1>2. OpenInv /\ CurInv /\ BestInv /\ QueueInv
  BY FreshNode, TreeAssumption DEF Init, OpenInv, CurInv, BestInv, QueueInv
<1>3. ImprovementIsLive
  BY FreshNode DEF Init, ImprovementIsLive, Live
<1> QED BY <1>1, <1>2, <1>3 DEF IInv

LEMMA RootInv == ASSUME IInv, Root PROVE IInv'
<1>1. TypeOK /\ OpenInv /\ cur = Fresh /\ cur.ub >= ub /\ queue = <<>> /\ ub \in Nat
  BY DEF IInv, Root, CurInv, QueueInv, TypeOK
<1>2. PICK n \in Bounded(Fresh) : Process(n)
  BY DEF Root
<1>3. n \in NodeType /\ n.ub >= ub /\ Allowed(n) = Schedule /\ Sound(n)
  BY <1>1, FreshNode, BoundedNode
<1>4. /\ ub' \in Nat /\ ub' <= ub /\ open' \subseteq NodeType /\ OpenInv'
      /\ \A s \in Schedule : s.cost < ub' => n \in open'
  BY <1>1, <1>2, <1>3, ProcessNode
<1>5. TypeOK'
  BY <1>4 DEF Root, IInv, TypeOK
<1>6. CurInv' /\ BestInv' /\ QueueInv'
  BY <1>1 DEF Root, CurInv, BestInv, QueueInv
<1>7. ImprovementIsLive'
  BY <1>3, <1>4 DEF ImprovementIsLive, Live, Allowed
<1> QED BY <1>4, <1>5, <1>6, <1>7 DEF IInv

LEMMA SelectInv == ASSUME IInv, Select PROVE IInv'
<1>0. TypeOK /\ OpenInv /\ queue = <<>> /\ ub \in Nat /\ open \subseteq NodeType
  BY DEF IInv, Select, QueueInv, TypeOK
<1>1. PICK n \in open : /\ open' = open \ {n}
                        /\ IF n.lb >= ub
                           THEN UNCHANGED <<pc, cur, cands>>
                           ELSE /\ pc' = "branch"
                                /\ cur' = [n EXCEPT !.ub = IF ub < n.ub THEN ub ELSE n.ub]
                                /\ cands' \in Candidates(n)
  BY DEF Select
<1>2. n \in NodeType /\ Sound(n) /\ n.ub >= ub /\ n.ub \in Nat /\ n.lb \in Nat
  BY <1>0 DEF OpenInv, NodeType
<1>3. OpenInv'
  BY <1>0, <1>1 DEF Select, OpenInv, Sound, Allowed
<1>4. ASSUME NEW s \in Schedule, s.cost < ub PROVE \E m \in Live' : s \in Allowed(m)
  <2>1. PICK m \in Live : s \in Allowed(m)
    BY <1>4 DEF IInv, ImprovementIsLive
  <2>2. m \in open
    BY <2>1, <1>0 DEF Live, Select
  <2>3. CASE m # n
    BY <2>1, <2>2, <2>3, <1>1 DEF Live
  <2>4. CASE m = n
    <3>1. n.lb < ub
      BY <2>1, <2>4, <1>0, <1>2, <1>4, ScheduleType DEF Sound
    <3>2. pc' = "branch" /\ cur'.times = n.times
      BY <3>1, <1>0, <1>1, <1>2 DEF NodeType
    <3>3. s \in Allowed(cur')
      BY <2>1, <2>4, <3>2 DEF Allowed
    <3> QED BY <3>2, <3>3 DEF Live
  <2> QED BY <2>3, <2>4
<1>5. CASE n.lb >= ub
  <2>1. TypeOK'
    BY <1>0, <1>1, <1>5 DEF Select, TypeOK
  <2>2. CurInv' /\ BestInv' /\ QueueInv'
    BY <1>0, <1>1, <1>5 DEF Select, CurInv, BestInv, QueueInv
  <2> QED BY <2>1, <2>2, <1>3, <1>4 DEF IInv, ImprovementIsLive, Select
<1>6. CASE ~(n.lb >= ub)
  <2>0. cands' # {} /\ cands' \subseteq Job \X Time
    BY <1>1, <1>6, FS_EmptySet DEF Candidates, Splits
  <2>1. cur' \in NodeType /\ cur'.ub >= ub /\ pc' = "branch"
    BY <1>0, <1>1, <1>2, <1>6 DEF NodeType
  <2>2. TypeOK'
    BY <1>0, <1>1, <2>0, <2>1 DEF Select, TypeOK
  <2>3. CurInv' /\ BestInv' /\ QueueInv'
    BY <1>0, <1>2, <2>0, <2>1 DEF Select, CurInv, BestInv, QueueInv
  <2> QED BY <2>2, <2>3, <1>3, <1>4 DEF IInv, ImprovementIsLive, Select
<1> QED BY <1>5, <1>6

LEMMA BranchDirectlyInv == ASSUME IInv, BranchDirectly PROVE IInv'
<1>0. /\ TypeOK /\ OpenInv /\ cur.ub >= ub /\ ~strong
      /\ cur \in NodeType /\ cands \subseteq Job \X Time
  BY DEF IInv, BranchDirectly, CurInv, TypeOK, NodeType
<1>1. PICK c \in cands : queue' = Children(cur, c[1], c[2])
  BY DEF BranchDirectly
<1> DEFINE l == Clone(cur, c[1], c[2], FALSE)
           r == Clone(cur, c[1], c[2], TRUE)
<1>2. c[1] \in Job /\ c[2] \in Time
  BY <1>0
<1>3. /\ l \in NodeType /\ r \in NodeType /\ l.ub = cur.ub /\ r.ub = cur.ub
      /\ l.integer = FALSE /\ r.integer = FALSE
      /\ Covers(l, r, cur)
  BY <1>0, <1>2, ChildrenCover
<1>4. queue' = <<l, r>>
  BY <1>1 DEF Children
<1> HIDE DEF l, r
<1>5. TypeOK'
  BY <1>0, <1>3, <1>4, FreshNode DEF BranchDirectly, Forget, TypeOK
<1>6. OpenInv' /\ CurInv' /\ BestInv'
  BY <1>0 DEF BranchDirectly, OpenInv, CurInv, BestInv, Sound, Allowed
<1>7. QueueInv'
  BY <1>0, <1>3, <1>4 DEF BranchDirectly, QueueInv
<1>8. ASSUME NEW s \in Schedule, s.cost < ub PROVE \E m \in Live' : s \in Allowed(m)
  <2>1. PICK m \in Live : s \in Allowed(m)
    BY <1>8 DEF IInv, ImprovementIsLive
  <2>2. m \in open \/ m = cur
    BY <2>1 DEF Live, BranchDirectly, IInv, QueueInv
  <2>3. CASE m \in open
    BY <2>1, <2>3 DEF Live, BranchDirectly
  <2>4. CASE m = cur
    <3>1. s \in Allowed(l) \/ s \in Allowed(r)
      BY <2>1, <2>4, <1>3 DEF Covers
    <3>2. l \in Live' /\ r \in Live'
      BY <1>4 DEF Live
    <3> QED BY <3>1, <3>2
  <2> QED BY <2>2, <2>3, <2>4
<1>9. ImprovementIsLive'
  BY <1>8 DEF ImprovementIsLive, BranchDirectly
<1> QED BY <1>5, <1>6, <1>7, <1>9 DEF IInv

LEMMA ProbeInv == ASSUME IInv, ScorePositive, Probe PROVE IInv'
<1>0. /\ TypeOK /\ OpenInv /\ cur.ub >= ub /\ ub \in Nat /\ gain \in Nat
      /\ cur \in NodeType /\ cands \subseteq Job \X Time
      /\ pc = "branch" /\ best \in {<<>>} \cup (NodeType \X NodeType)
  BY DEF IInv, Probe, CurInv, TypeOK, NodeType
<1>a. PICK c \in cands :
      \E lb \in Bounded(Children(cur, c[1], c[2])[1]), rb \in Bounded(Children(cur, c[1], c[2])[2]) :
        LET score == Score(Distance(lb.lb, cur.lb), Distance(rb.lb, cur.lb))
            stop == Fathom(lb) \/ Fathom(rb)
            better == score > gain \/ stop
        IN  /\ Keep(lb, rb, better)
            /\ gain' = IF better THEN score ELSE gain
            /\ cands' = IF stop THEN {} ELSE cands \ {c}
  BY DEF Probe
<1>1. PICK lb \in Bounded(Children(cur, c[1], c[2])[1]), rb \in Bounded(Children(cur, c[1], c[2])[2]) :
        LET score == Score(Distance(lb.lb, cur.lb), Distance(rb.lb, cur.lb))
            stop == Fathom(lb) \/ Fathom(rb)
            better == score > gain \/ stop
        IN  /\ Keep(lb, rb, better)
            /\ gain' = IF better THEN score ELSE gain
            /\ cands' = IF stop THEN {} ELSE cands \ {c}
  BY <1>a
<1> DEFINE l == Clone(cur, c[1], c[2], FALSE)
           r == Clone(cur, c[1], c[2], TRUE)
           score == Score(Distance(lb.lb, cur.lb), Distance(rb.lb, cur.lb))
           stop == Fathom(lb) \/ Fathom(rb)
<1>2. c[1] \in Job /\ c[2] \in Time
  BY <1>0
<1>3. /\ l \in NodeType /\ r \in NodeType /\ l.ub = cur.ub /\ r.ub = cur.ub
      /\ l.integer = FALSE /\ r.integer = FALSE
      /\ Covers(l, r, cur)
  BY <1>0, <1>2, ChildrenCover, ZenonT(40)
<1>4. lb \in Bounded(l) /\ rb \in Bounded(r)
  BY <1>1 DEF Children
<1> HIDE DEF l, r
<1>5. /\ lb \in NodeType /\ lb.ub >= ub /\ Sound(lb) /\ Allowed(lb) = Allowed(l)
      /\ rb \in NodeType /\ rb.ub >= ub /\ Sound(rb) /\ Allowed(rb) = Allowed(r)
  BY <1>0, <1>3, <1>4, BoundedNode
<1>6. Covers(lb, rb, cur)
  BY <1>3, <1>5 DEF Covers
<1>7. score \in Nat \ {0}
  <2>1. lb.lb \in Nat /\ rb.lb \in Nat /\ cur.lb \in Nat
    BY <1>0, <1>5 DEF NodeType
  <2>2. Distance(lb.lb, cur.lb) \in Nat /\ Distance(rb.lb, cur.lb) \in Nat
    BY <2>1 DEF Distance
  <2> QED BY <2>2 DEF ScorePositive
<1>8. cands' \subseteq cands
  BY <1>1
<1> HIDE DEF score, stop
<1>9. \/ best' = <<lb, rb>> /\ gain' = score
      \/ UNCHANGED <<best, gain>> /\ ~(score > gain)
  BY <1>1 DEF score, stop, Keep
<1>10. TypeOK'
  BY <1>0, <1>5, <1>7, <1>8, <1>9 DEF Probe, TypeOK
<1>11. OpenInv' /\ CurInv' /\ QueueInv'
  BY DEF IInv, Probe, OpenInv, CurInv, QueueInv, Sound, Allowed
<1>12. BestInv'
  <2>1. CASE best' = <<lb, rb>>
    BY <2>1, <1>5, <1>6 DEF Probe, BestInv, Covers, Sound, Allowed
  <2>2. CASE UNCHANGED <<best, gain>> /\ ~(score > gain)
    <3>1. best # <<>>
      BY <2>2, <1>0, <1>7 DEF IInv, BestInv
    <3> QED BY <2>2, <3>1, <1>0 DEF IInv, BestInv, Probe, Covers, Sound, Allowed
  <2> QED BY <1>9, <2>1, <2>2
<1>13. ImprovementIsLive'
  BY DEF IInv, ImprovementIsLive, Live, Probe, Allowed
<1> QED BY <1>10, <1>11, <1>12, <1>13 DEF IInv

LEMMA CommitInv == ASSUME IInv, Commit PROVE IInv'
<1>0. /\ TypeOK /\ OpenInv /\ strong /\ pc = "branch" /\ cands = {} /\ queue = <<>>
      /\ best \in {<<>>} \cup (NodeType \X NodeType)
  BY DEF IInv, Commit, TypeOK, QueueInv
<1>1. /\ best # <<>> /\ Covers(best[1], best[2], cur)
      /\ Sound(best[1]) /\ best[1].ub >= ub
      /\ Sound(best[2]) /\ best[2].ub >= ub
  BY <1>0 DEF IInv, BestInv
<1>2. queue' = <<best[2], best[1]>> /\ best[1] \in NodeType /\ best[2] \in NodeType
  BY <1>0, <1>1 DEF Commit
<1>3. TypeOK'
  BY <1>0, <1>2, FreshNode DEF Commit, Forget, TypeOK
<1>4. OpenInv' /\ CurInv' /\ BestInv'
  BY <1>0 DEF Commit, OpenInv, CurInv, BestInv, Sound, Allowed
<1>5. QueueInv'
  BY <1>0, <1>1, <1>2 DEF Commit, QueueInv, Sound, Allowed
<1>6. ASSUME NEW s \in Schedule, s.cost < ub PROVE \E m \in Live' : s \in Allowed(m)
  <2>1. PICK m \in Live : s \in Allowed(m)
    BY <1>6 DEF IInv, ImprovementIsLive
  <2>2. m \in open \/ m = cur
    BY <2>1, <1>0 DEF Live
  <2>3. CASE m \in open
    BY <2>1, <2>3 DEF Live, Commit
  <2>4. CASE m = cur
    <3>1. s \in Allowed(best[1]) \/ s \in Allowed(best[2])
      BY <2>1, <2>4, <1>1 DEF Covers
    <3>2. best[1] \in Live' /\ best[2] \in Live'
      BY <1>2 DEF Live
    <3> QED BY <3>1, <3>2
  <2> QED BY <2>2, <2>3, <2>4
<1>7. ImprovementIsLive'
  BY <1>6 DEF ImprovementIsLive, Commit
<1> QED BY <1>3, <1>4, <1>5, <1>7 DEF IInv

LEMMA ProcessChildInv == ASSUME IInv, ProcessChild PROVE IInv'
<1>0. /\ TypeOK /\ OpenInv /\ pc = "process" /\ queue \in Seq(NodeType) /\ queue # <<>>
      /\ ub \in Nat
  BY DEF IInv, ProcessChild, TypeOK
<1> DEFINE q == Head(queue)
<1>1. q \in NodeType /\ q = queue[1] /\ 1 \in DOMAIN queue
  BY <1>0
<1>2. /\ q.ub >= ub
      /\ IF strong THEN Sound(q) ELSE q.integer = FALSE
  BY <1>1 DEF IInv, QueueInv
<1>3. PICK n \in IF strong THEN {q} ELSE Bounded(q) : Process(n)
  BY DEF ProcessChild
<1>4. n \in NodeType /\ n.ub >= ub /\ Sound(n) /\ Allowed(n) = Allowed(q)
  BY <1>0, <1>1, <1>2, <1>3, BoundedNode
<1>5. /\ ub' \in Nat /\ ub' <= ub /\ open' \subseteq NodeType /\ open \subseteq open' /\ OpenInv'
      /\ \A s \in Allowed(n) : s.cost < ub' => n \in open'
  BY <1>0, <1>3, <1>4, ProcessNode
<1>6. /\ queue' \in Seq(NodeType) /\ queue' = Tail(queue)
      /\ \A i \in DOMAIN queue' : i + 1 \in DOMAIN queue /\ queue'[i] = queue[i + 1]
      /\ \A i \in DOMAIN queue : i = 1 \/ (i - 1 \in DOMAIN queue' /\ queue'[i - 1] = queue[i])
      /\ pc' # "process" <=> queue' = <<>>
      /\ pc' \in {"process", "select"}
  <2>1. queue' = Tail(queue) /\ pc' = IF Len(queue) = 1 THEN "select" ELSE "process"
    BY <1>0 DEF ProcessChild
  <2>2. /\ queue' \in Seq(NodeType) /\ Len(queue) \in Nat \ {0} /\ Len(queue') = Len(queue) - 1
        /\ DOMAIN queue = 1 .. Len(queue) /\ DOMAIN queue' = 1 .. Len(queue')
        /\ \A i \in 1 .. Len(queue') : queue'[i] = queue[i + 1]
    BY <1>0, <2>1
  <2>3. queue' = <<>> <=> Len(queue) = 1
    BY <2>2
  <2> QED BY <2>1, <2>2, <2>3
<1>7. TypeOK'
  BY <1>0, <1>5, <1>6 DEF ProcessChild, TypeOK
<1>8. CurInv' /\ BestInv'
  BY <1>6 DEF CurInv, BestInv
<1>9. QueueInv'
  <2>1. ASSUME NEW i \in DOMAIN queue, NEW m, m = queue[i]
        PROVE  /\ m.ub >= ub'
               /\ IF strong' THEN Sound(m)' ELSE m.integer = FALSE
    <3>0. strong' = strong
      BY DEF ProcessChild
    <3>1. /\ m \in NodeType /\ m.ub >= ub
          /\ IF strong THEN Sound(m) ELSE m.integer = FALSE
      BY <2>1, <1>0 DEF IInv, QueueInv
    <3>2. m.ub >= ub'
      BY <3>1, <1>0, <1>5 DEF NodeType
    <3>3. strong => Sound(m)'
      BY <3>1, <1>0, <1>5, SoundStays DEF Sound
    <3> QED BY <3>0, <3>1, <3>2, <3>3
  <2>2. ASSUME NEW i \in DOMAIN queue'
        PROVE  /\ (queue[i].ub >= ub)'
               /\ (IF strong THEN Sound(queue[i])
                   ELSE queue[i].integer = FALSE)'
    BY <2>1, <2>2, <1>6 DEF Sound, Allowed
  <2> QED BY <2>2, <1>6 DEF QueueInv
<1>10. ASSUME NEW s \in Schedule, s.cost < ub' PROVE \E m \in Live' : s \in Allowed(m)
  <2>0. s.cost < ub
    BY <1>0, <1>5, <1>10, ScheduleType
  <2>1. PICK m \in Live : s \in Allowed(m)
    BY <2>0 DEF IInv, ImprovementIsLive
  <2>2. CASE m \in open
    BY <2>1, <2>2, <1>5 DEF Live
  <2>3. ASSUME NEW i \in DOMAIN queue, m = queue[i], i # 1
        PROVE  m \in Live'
    BY <2>3, <1>6 DEF Live
  <2>4. CASE m = queue[1]
    <3>1. n \in open'
      BY <2>1, <2>4, <1>1, <1>4, <1>5, <1>10
    <3>2. s \in Allowed(n)
      BY <2>1, <2>4, <1>1, <1>4
    <3> QED BY <3>1, <3>2 DEF Live
  <2> QED BY <2>1, <2>2, <2>3, <2>4, <1>0 DEF Live
<1>11. ImprovementIsLive'
  BY <1>10 DEF ImprovementIsLive, Allowed
<1> QED BY <1>5, <1>7, <1>8, <1>9, <1>11 DEF IInv

LEMMA NextInv == ASSUME ScorePositive PROVE IInv /\ [Next]_vars => IInv'
<1> SUFFICES ASSUME IInv, [Next]_vars PROVE IInv'
  OBVIOUS
<1>1. CASE Root
  BY <1>1, RootInv
<1>2. CASE Select
  BY <1>2, SelectInv
<1>3. CASE Finish
  <2>1. TypeOK' /\ OpenInv' /\ CurInv' /\ BestInv' /\ QueueInv'
    BY <1>3 DEF Finish, IInv, TypeOK, OpenInv, CurInv, BestInv, QueueInv, Sound, Allowed
  <2>2. ImprovementIsLive'
    BY <1>3 DEF Finish, IInv, ImprovementIsLive, Live, Allowed
  <2> QED BY <2>1, <2>2 DEF IInv
<1>4. CASE BranchDirectly
  BY <1>4, BranchDirectlyInv
<1>5. CASE Probe
  BY <1>5, ProbeInv
<1>6. CASE Commit
  BY <1>6, CommitInv
<1>7. CASE ProcessChild
  BY <1>7, ProcessChildInv
<1>8. CASE Done \/ UNCHANGED vars
  <2>1. UNCHANGED vars
    BY <1>8 DEF Done
  <2>2. TypeOK' /\ OpenInv' /\ CurInv' /\ BestInv' /\ QueueInv'
    BY <2>1 DEF vars, IInv, TypeOK, OpenInv, CurInv, BestInv, QueueInv, Sound, Covers, Allowed
  <2>3. ImprovementIsLive'
    BY <2>1 DEF vars, IInv, ImprovementIsLive, Live, Allowed
  <2> QED BY <2>2, <2>3 DEF IInv
<1> QED BY <1>1, <1>2, <1>3, <1>4, <1>5, <1>6, <1>7, <1>8 DEF Next
--------------------------------------------------------------------------------
\* The variables of the search keep their types (BranchNode, BTree).
THEOREM TypeCorrect == ASSUME ScorePositive PROVE Spec => []TypeOK
<1>1. IInv => TypeOK
  BY DEF IInv
<1> QED BY <1>1, InitInv, NextInv, PTL DEF Spec

\* branch, strong branching and pruning lose no schedule better than the
\* incumbent.
THEOREM NothingIsLost == ASSUME ScorePositive PROVE Spec => []ImprovementIsLive
<1>1. IInv => ImprovementIsLive
  BY DEF IInv
<1> QED BY <1>1, InitInv, NextInv, PTL DEF Spec

\* When the tree is empty, the incumbent is as good as every schedule.
THEOREM OptimalWhenDone ==
  ASSUME ScorePositive
  PROVE  Spec => [](pc = "done" => \A s \in Schedule : ub <= s.cost)
<1> DEFINE DoneInv == pc = "done" => open = {}
<1>1. Init => DoneInv
  BY DEF Init
<1>2. DoneInv /\ [Next]_vars => DoneInv'
  BY DEF Next, vars, Root, Select, Finish, BranchDirectly, Probe, Commit, ProcessChild, Done
<1>3. DoneInv /\ IInv => (pc = "done" => \A s \in Schedule : ub <= s.cost)
  <2> SUFFICES ASSUME DoneInv, IInv, pc = "done", NEW s \in Schedule PROVE ub <= s.cost
    OBVIOUS
  <2>1. Live = {}
    BY DEF Live, IInv, QueueInv
  <2>2. ~(s.cost < ub)
    BY <2>1 DEF IInv, ImprovementIsLive
  <2> QED BY <2>2, ScheduleType DEF IInv, TypeOK
<1> QED BY <1>1, <1>2, <1>3, InitInv, NextInv, PTL DEF Spec

\* No node's incumbent is ahead of the tree's: what its diagram was filtered by
\* may still be dispensed with.
THEOREM StaleBounds == ASSUME ScorePositive PROVE Spec => []NodeBoundsAreStale
<1>1. IInv => NodeBoundsAreStale
  BY DEF IInv, NodeBoundsAreStale, Live, OpenInv, CurInv, QueueInv
<1> QED BY <1>1, InitInv, NextInv, PTL DEF Spec

\* The global upper bound never rises (set_global_ub, update_data).
THEOREM Improves == ASSUME ScorePositive PROVE Spec => IncumbentImproves
<1>1. IInv /\ [Next]_vars => [ub' <= ub]_vars
  <2> SUFFICES ASSUME IInv, Next PROVE ub' <= ub
    OBVIOUS
  <2>0. ub \in Nat
    BY DEF IInv, TypeOK
  <2>1. ASSUME NEW n \in NodeType, Process(n) PROVE ub' <= ub
    BY <2>0, <2>1 DEF Process, NodeType
  <2>2. CASE Root
    <3>1. Fresh.ub >= ub
      BY <2>2 DEF IInv, CurInv, Root
    <3>2. PICK n \in Bounded(Fresh) : Process(n)
      BY <2>2 DEF Root
    <3> QED BY <2>0, <2>1, <3>1, <3>2, FreshNode, BoundedNode
  <2>3. CASE ProcessChild
    <3> DEFINE q == Head(queue)
    <3>1. q \in NodeType /\ q = queue[1] /\ 1 \in DOMAIN queue
      BY <2>3 DEF ProcessChild, IInv, TypeOK
    <3>2. q.ub >= ub /\ (~strong => q.integer = FALSE)
      BY <3>1 DEF IInv, QueueInv
    <3>3. PICK n \in IF strong THEN {q} ELSE Bounded(q) : Process(n)
      BY <2>3 DEF ProcessChild
    <3> QED BY <2>0, <2>1, <3>1, <3>2, <3>3, BoundedNode
  <2>4. CASE UNCHANGED ub
    BY <2>0, <2>4
  <2>5. Root \/ ProcessChild \/ UNCHANGED ub
    BY DEF Next, Select, Finish, BranchDirectly, Probe, Commit, Done, vars
  <2> QED BY <2>2, <2>3, <2>4, <2>5
<1> QED BY <1>1, InitInv, NextInv, PTL DEF Spec, IncumbentImproves
================================================================================
