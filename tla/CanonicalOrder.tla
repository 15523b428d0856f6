---------------------------- MODULE CanonicalOrder ----------------------------
(***************************************************************************)
(* Sol::canonical_order, for one machine: the heuristic reorders what it   *)
(* found so that in each interval of completion times the jobs follow the  *)
(* order of the interval, as the paths of the decision diagram do.  Going  *)
(* backward, the jobs that start in an interval are sorted; if the job     *)
(* that crosses into it should come after the first of them, the two swap  *)
(* places, which may move a job to an earlier interval.                    *)
(*                                                                         *)
(* An instance I is [jobs, m, intervals], preprocessed as in Instance.     *)
(***************************************************************************)
EXTENDS PricerConstruct, Interval, SequencesExt

CONSTANT Instances

VARIABLES
  inst, start,   \* the instance, and the machine's jobs when it is called
  st             \* [at, q, qin, c]: the interval at hand, the jobs that complete
                 \* in each interval, those that start in it too, and when
                 \* each job completes

vars == <<inst, start, st>>

\* The interval a job completing at t is put in; what is too late for all is put
\* in the last one.
IntervalOf(I, t) ==
  LET S == {k \in DOMAIN I.intervals : I.intervals[k].a < t /\ t <= I.intervals[k].b}
  IN  IF S = {} THEN Len(I.intervals) ELSE Min(S)

\* The completion times c when the jobs of s run one after another from time t.
Timed(I, c, s, t) ==
  FoldLeft(LAMBDA r, j : [t |-> r.t + I.jobs[j].p, c |-> [r.c EXCEPT ![j] = r.t + I.jobs[j].p]],
           [t |-> t, c |-> c], s).c

\* The first loop: the queues Q and Q_in.
Queues(I, s) ==
  LET c == Timed(I, [j \in DOMAIN I.jobs |-> 0], s, 0)
      begins(j) == c[j] - I.jobs[j].p
      q == [k \in DOMAIN I.intervals |-> SelectSeq(s, LAMBDA j : IntervalOf(I, c[j]) = k)]
      inside(k, j) == begins(j) > I.intervals[k].a \/ (k = 1 /\ begins(j) = 0)
  IN  [at |-> IntervalOf(I, c[Last(s)]), c |-> c, q |-> q,
       qin |-> [k \in DOMAIN I.intervals |-> SelectSeq(q[k], LAMBDA j : inside(k, j))]]

\* Mutant: the jobs of an interval by due date.
Sorted_ByDueDate(I, k, s) == SortSeq(s, LAMBDA x, y : x < y)

Sorted(I, k, s) ==
  SortSeq(s, LAMBDA x, y : Earlier(I.jobs, I.intervals[k].a, I.intervals[k].b, x, y))

\* All jobs of the interval start in it, or more than one does not.
SortAll(I, s) ==
  LET k == s.at
      q == Sorted(I, k, s.q[k])
  IN  [s EXCEPT !.at = k - 1, !.q[k] = q,
                !.c = Timed(I, @, q, s.c[s.q[k][1]] - I.jobs[s.q[k][1]].p)]

\* Mutant: the job joins the interval just before.
Move_Adjacent(I, s, k, x) ==
  IF k = 1 THEN s
  ELSE [s EXCEPT !.q[k - 1] = Append(@, x),
                 !.qin[k - 1] = IF s.c[x] - I.jobs[x].p > I.intervals[k - 1].a THEN Append(@, x) ELSE @]

\* Job x, that now completes before interval k, joins the queues of its interval.
Move(I, s, k, x) ==
  LET fit == {o \in 1 .. k - 1 : I.intervals[o].a < s.c[x] /\ s.c[x] <= I.intervals[o].b}
      o == Max(fit)
  IN  IF fit = {} THEN s
      ELSE [s EXCEPT !.q[o] = Append(@, x),
                     !.qin[o] = IF s.c[x] - I.jobs[x].p > I.intervals[o].a THEN Append(@, x) ELSE @]

\* The first job crosses into the interval, the others are inside: these are
\* sorted, and the crossing job `out' stays in front or swaps with the next, `in'.
Cross(I, s) ==
  LET k == s.at
      iv == I.intervals[k]
      inside == Sorted(I, k, s.qin[k])
      from == s.c[s.qin[k][1]] - I.jobs[s.qin[k][1]].p
      out == s.q[k][1]
      in == inside[1]
      c1 == Timed(I, s.c, inside, from)
      c2 == Timed(I, c1, <<in, out>>, c1[out] - I.jobs[out].p)
      others == Sorted(I, k, <<out>> \o Tail(inside))
      stays == c2[out] <= iv.b /\ c2[out] > iv.a - I.jobs[out].p
  IN  IF Earlier(I.jobs, iv.a, iv.b, out, in)
      THEN [s EXCEPT !.at = k - 1, !.q[k] = <<out>> \o inside, !.qin[k] = inside, !.c = c1]
      ELSE IF iv.a < c2[in] /\ c2[in] <= iv.b
      THEN [s EXCEPT !.at = k - 1, !.q[k] = <<in>> \o others, !.qin[k] = others,
                     !.c = Timed(I, c2, others, c2[in])]
      ELSE Move(I, [s EXCEPT !.q[k] = <<out>> \o Tail(inside),
                             !.qin[k] = (IF stays THEN <<out>> ELSE <<>>) \o Tail(inside),
                             !.c = c2], k, in)

\* Mutant: a sorted interval is looked at again.
Turn_Again(I, s) ==
  IF s.qin[s.at] = <<>> THEN [s EXCEPT !.at = @ - 1]
  ELSE IF Len(s.qin[s.at]) + 1 = Len(s.q[s.at]) THEN Cross(I, s)
  ELSE [SortAll(I, s) EXCEPT !.at = s.at]

\* One turn of the backward loop.
Turn(I, s) ==
  IF s.qin[s.at] = <<>> THEN [s EXCEPT !.at = @ - 1]
  ELSE IF Len(s.qin[s.at]) + 1 = Len(s.q[s.at]) THEN Cross(I, s)
  ELSE SortAll(I, s)

\* The machine's jobs at the end.
Ordered(s) == FlattenSeq(s.q)

Init ==
  /\ inst \in Instances
  /\ start \in UNION {{s \in [1 .. n -> DOMAIN inst.jobs] : IsInjective(s)} : n \in 1 .. Len(inst.jobs)}
  /\ st = Queues(inst, start)

Step == st.at # 0 /\ st' = Turn(inst, st) /\ UNCHANGED <<inst, start>>
Done == st.at = 0 /\ UNCHANGED vars

Next == Step \/ Done
Spec == Init /\ [][Next]_vars /\ WF_vars(Next)
------------------------------------------------------------------------------
\* The machine runs no longer than the horizon.
Within == Load(inst.jobs, JobsOf(start)) <= Last(inst.intervals).b

\* Taken from one queue and appended to another, no job of a machine within the
\* horizon is lost or doubled, and each ends up in the queue of the interval it
\* completes in, by the completion times the turns keep up to date.
QueuesAreRight ==
  Within /\ st.at = 0 =>
    /\ JobsOf(Ordered(st)) = JobsOf(start) /\ Len(Ordered(st)) = Len(start)
    /\ \A k \in DOMAIN st.q : \A j \in JobsOf(st.q[k]) : IntervalOf(inst, st.c[j]) = k

\* Reordering never costs: the machine's jobs are no more tardy than before.
NotWorse ==
  Within /\ st.at = 0 => SequenceCost(inst.jobs, Ordered(st)) <= SequenceCost(inst.jobs, start)

\* The backward loop ends, although a swap leaves the interval to be looked at
\* again.
Terminates == <>(st.at = 0)
================================================================================
