-------------------------------- MODULE ArcTime --------------------------------
(***************************************************************************)
(* The arc-time-indexed pricer PricerSolverArcTimeDp.  The arc <<i, j, t>> *)
(* is in the graph when j may start at t, i completing there.  The idle    *)
(* job j0, of length 0 and without cost, has the number after the last     *)
(* job; one idle job after the other takes one unit of time.               *)
(***************************************************************************)
EXTENDS PricerConstruct, Functions

NoJob == 0

Idle(jobs)     == Len(jobs) + 1
WithIdle(jobs) == 1 .. Idle(jobs)
Length(jobs, j) == IF j = Idle(jobs) THEN 0 ELSE jobs[j].p
StartCost(jobs, j, t) == IF j = Idle(jobs) THEN 0 ELSE WeightedTardinessStart(jobs[j], t)

AllArcs(jobs, H) ==
  {a \in WithIdle(jobs) \X WithIdle(jobs) \X (0 .. H) :
     /\ a[1] = a[2] => a[2] = Idle(jobs)
     /\ a[3] >= Length(jobs, a[1])
     /\ a[3] + Length(jobs, a[2]) <= H}

\* delta1: what i completing at t and then j cost more than j and then i.
Delta(jobs, i, j, t) ==
  LET S == t - jobs[i].p
  IN  (WeightedTardiness(jobs[i], t) + WeightedTardinessStart(jobs[j], t))
        - (WeightedTardinessStart(jobs[j], S) + WeightedTardiness(jobs[i], t + jobs[j].p))

\* For each two jobs, i with the smaller number, and each t: the arc of the two
\* orders that is dropped.  Mutant: j's arc is dropped at t as well.
DroppedOrder_SameTime(jobs, i, j, t) ==
  IF Delta(jobs, i, j, t) >= 0 THEN <<i, j, t>> ELSE <<j, i, t>>

DroppedOrder(jobs, i, j, t) ==
  IF Delta(jobs, i, j, t) >= 0 THEN <<i, j, t>>
  ELSE <<j, i, t - jobs[i].p + jobs[j].p>>

\* Mutant: the idle time after a job is dropped, and not that before it.
DroppedWait_After(jobs, j, t) == <<j, Idle(jobs), t>>

\* The idle unit that is dropped, after j completing at t or before it.
DroppedWait(jobs, j, t) ==
  IF WeightedTardiness(jobs[j], t) <= WeightedTardiness(jobs[j], t + 1)
  THEN <<Idle(jobs), j, t - jobs[j].p + 1>>
  ELSE <<j, Idle(jobs), t>>

\* init_table
Graph(jobs, H) ==
  LET pairs == {v \in (DOMAIN jobs) \X (DOMAIN jobs) \X (0 .. H) :
                  v[1] < v[2] /\ v[3] \in jobs[v[1]].p .. H - jobs[v[2]].p}
      ends  == {v \in (DOMAIN jobs) \X (0 .. H - 1) : v[2] >= jobs[v[1]].p}
  IN  AllArcs(jobs, H) \ ({DroppedOrder(jobs, v[1], v[2], v[3]) : v \in pairs}
                            \cup {DroppedWait(jobs, v[1], v[2]) : v \in ends})

Before(graph, j, t) == {a[1] : a \in {a \in graph : a[2] = j /\ a[3] = t}}
After(graph, i, t)  == {a[2] : a \in {a \in graph : a[1] = i /\ a[3] = t}}

\* Values DBL_MAX / 2, whatever is added to them.
Plus(x, y) == IF x >= Infinity THEN Infinity ELSE x + y

\* The tables of a new solver.
NewForward(jobs, H, graph) ==
  [v \in WithIdle(jobs) \X (0 .. H) |->
     [F |-> IF Before(graph, v[1], v[2]) = {} THEN Infinity ELSE 0, A |-> NoJob, B |-> 0]]

\* Mutant: a new backward table holds no value yet.
NewBackward_Unset(jobs, H, graph) == [v \in WithIdle(jobs) \X (0 .. H) |-> Infinity]

NewBackward(jobs, H, graph) ==
  [v \in WithIdle(jobs) \X (0 .. H) |-> IF After(graph, v[1], v[2]) = {} THEN Infinity ELSE 0]

Reduced(jobs, pi, j, t) == StartCost(jobs, j, t) - (IF j = Idle(jobs) THEN 0 ELSE pi[j])

\* forward_evaluator over the table old.  An entry <<j, t>> is the least reduced
\* cost up to the start of j at t, with the job before it and that job's start.
\* Of equal ones the last one wins.  The first of the list is looked up as if idle
\* time took no time; and at one t the idle job comes last, so that the others
\* read its entry of the previous call, but for t = 0.
Forward(jobs, H, graph, pi, old) ==
  LET idle == Idle(jobs)
      table[v \in WithIdle(jobs) \X (0 .. H)] ==
        LET j == v[1]
            t == v[2]
            preds == Before(graph, j, t)
            start(i) == IF i = j /\ i # Min(preds) THEN t - 1 ELSE t - Length(jobs, i)
            value(i) == IF start(i) < t THEN table[<<i, start(i)>>].F
                        ELSE IF t = 0 THEN 0
                        ELSE IF j = idle THEN Infinity
                        ELSE old[idle, t].F
            least == Min({value(i) : i \in preds})
            best  == Max({i \in preds : value(i) = least})
        IN  IF preds = {} THEN [F |-> IF v = <<idle, 0>> THEN 0 ELSE Infinity, A |-> NoJob, B |-> -1]
            ELSE [F |-> Plus(least, Reduced(jobs, pi, j, t)), A |-> best, B |-> start(best)]
  IN  table

\* backward_evaluator over the table old: the least reduced cost after i, which
\* completes at t.  The entries of H are never computed, and at one t the idle job
\* again comes last.
Backward(jobs, H, graph, pi, old) ==
  LET idle == Idle(jobs)
      table[v \in WithIdle(jobs) \X (0 .. H)] ==
        LET i == v[1]
            t == v[2]
            next(j) == IF j = idle /\ i = idle THEN t + 1 ELSE t + Length(jobs, j)
            value(j) == IF next(j) = t THEN old[idle, t] ELSE table[<<j, next(j)>>]
        IN  IF t = H THEN (IF i = idle THEN 0 ELSE old[v])
            ELSE Min({Infinity} \cup {Plus(value(j), Reduced(jobs, pi, j, t)) : j \in After(graph, i, t)})
  IN  table

\* pricing_algorithm: back from the idle job at H.  Where the table holds no job,
\* or an entry that refers to itself, the walk does not end.
CheapestSchedule(jobs, H, pi, table) ==
  LET walk[v \in WithIdle(jobs) \X (0 .. H)] ==
        LET j == table[v].A
            S == table[v].B
        IN  IF v[2] = 0 THEN [obj |-> pi[Idle(jobs)], jobs |-> <<>>, ends |-> TRUE]
            ELSE IF j = NoJob \/ <<j, S>> = v THEN [obj |-> 0, jobs |-> <<>>, ends |-> FALSE]
            ELSE IF j = Idle(jobs) THEN walk[<<j, S>>]
            ELSE [walk[<<j, S>>] EXCEPT !.jobs = Append(@, j), !.obj = @ + Reduced(jobs, pi, j, S)]
  IN  walk[<<Idle(jobs), H>>]

\* The arcs of one machine that runs s without waiting and then idles up to H.
ArcsOf(jobs, H, s) ==
  LET C(i) == Load(jobs, {s[k] : k \in 1 .. i})
      job(i) == IF i = 0 THEN Idle(jobs) ELSE s[i]
      n == Len(s)
  IN  {<<job(i - 1), job(i), C(i - 1)>> : i \in 1 .. n}
        \cup {<<IF t = C(n) THEN job(n) ELSE Idle(jobs), Idle(jobs), t>> : t \in C(n) .. H}

(***************************************************************************)
(* build_mip: a variable for each arc of the graph.                        *)
(***************************************************************************)

\* Flow on the arcs that meet a condition.
Flow(x, Arcs) == MapThenSumSet(LAMBDA a : x[a], Arcs \cap DOMAIN x)

\* What enters the start of j at t leaves its end.
Conserved(jobs, graph, x, j, t) ==
  LET end == IF j = Idle(jobs) THEN t + 1 ELSE t + jobs[j].p
  IN  Flow(x, {a \in graph : a[2] = j /\ a[3] = t}) = Flow(x, {a \in graph : a[1] = j /\ a[3] = end})

ModelAccepts(jobs, m, H, graph, x) ==
  /\ \A a \in DOMAIN x : a \in graph /\ x[a] <= IF a[1] = a[2] THEN m ELSE 1
  /\ \A j \in DOMAIN jobs : Flow(x, {a \in graph : a[2] = j}) >= 1
  /\ \A j \in DOMAIN jobs : \A t \in 0 .. H - jobs[j].p : Conserved(jobs, graph, x, j, t)
  /\ \A t \in 0 .. H - 1 : Conserved(jobs, graph, x, Idle(jobs), t)
  /\ Flow(x, {a \in graph : a[1] = Idle(jobs) /\ a[3] = 0}) = m
================================================================================
