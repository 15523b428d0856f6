-------------------------------- MODULE Instance --------------------------------
(***************************************************************************)
(* Reading and preprocessing an instance (Instance.cpp, Interval.cpp): the *)
(* due dates are scaled and raised, a horizon and a least load per machine *)
(* are computed, and the horizon is cut into intervals in each of which    *)
(* some optimal schedule runs its jobs in a fixed order.  The layers of    *)
(* the decision diagram come from those intervals, so an order or a bound  *)
(* that is wrong silently takes optimal schedules out of the search.       *)
(***************************************************************************)
EXTENDS PricerConstruct, Interval, SequencesExt

CONSTANT Files    \* instances: [m : number of machines, lines : Seq([p, d, w])]

ASSUME FileAssumption ==
  \A f \in Files : /\ f.m \in Nat \ {0} /\ f.lines # <<>>
                   /\ f.lines \in Seq([p : Nat \ {0}, d : Nat, w : Nat \ {0}])

VARIABLES
  pc, file,
  jobs, off,     \* the jobs read, and what their raised due dates cost
  hmax, hmin,    \* H_max, H_min
  coarse,        \* intervals between due dates still to be divided
  pairs, cuts,   \* special pairs of the interval at hand, and where it is cut
  intervals      \* the intervals found

vars == <<pc, file, jobs, off, hmax, hmin, coarse, pairs, cuts, intervals>>

Init == /\ pc = "read" /\ file \in Files
        /\ jobs = <<>> /\ off = 0 /\ hmax = 0 /\ hmin = 0
        /\ coarse = <<>> /\ pairs = {} /\ cuts = <<>> /\ intervals = <<>>

\* Mutant: what is paid in advance uses the due date of the file.
ReadJob_Undivided ==
  /\ pc = "read" /\ Len(jobs) < Len(file.lines)
  /\ LET line == file.lines[Len(jobs) + 1]
         d == line.d \div file.m
     IN  /\ jobs' = Append(jobs, [p |-> line.p, w |-> line.w, d |-> Max({d, line.p})])
         /\ off' = off + line.w * Late(line.p, line.d)
  /\ UNCHANGED <<pc, file, hmax, hmin, coarse, pairs, cuts, intervals>>

\* The constructor, one line: the due date is divided by the number of machines;
\* a job that cannot be on time has its due date raised to its processing time
\* and the difference paid in advance.
ReadJob ==
  /\ pc = "read" /\ Len(jobs) < Len(file.lines)
  /\ LET line == file.lines[Len(jobs) + 1]
         d == line.d \div file.m
     IN  /\ jobs' = Append(jobs, [p |-> line.p, w |-> line.w, d |-> Max({d, line.p})])
         /\ off' = off + line.w * Late(line.p, d)
  /\ UNCHANGED <<pc, file, hmax, hmin, coarse, pairs, cuts, intervals>>

\* The final order of the jobs: due date, processing time, weight.
Before(x, y) ==
  \/ x.d < y.d
  \/ x.d = y.d /\ x.p < y.p
  \/ x.d = y.d /\ x.p = y.p /\ x.w < y.w

\* std::ranges::sort, as the order it puts 1 .. n in when R[x, y] says that x comes
\* before y: each one goes before the first that is to come after it.  Ties, which
\* the library may break as it likes, stay.
Sorting(n, R) ==
  LET slot(s, x) == Min({i \in DOMAIN s : R[x, s[i]]} \cup {Len(s) + 1})
  IN  FoldLeft(LAMBDA s, x : InsertAt(s, slot(s, x), x), <<>>, [x \in 1 .. n |-> x])

Sorted(js, R) ==
  LET order == Sorting(Len(js), R)
  IN  [i \in DOMAIN js |-> js[order[i]]]

InOrder(js) == Sorted(js, [x, y \in DOMAIN js |-> Before(js[x], js[y])])

Total(js) == FoldLeft(LAMBDA t, j : t + j.p, 0, js)

\* Mutant: the least load is rounded up.
LeastLoad_Up(js, m) ==
  LET byLength == Sorted(js, [x, y \in DOMAIN js |-> js[x].p < js[y].p])
      long == Total(SubSeq(byLength, Max({1, Len(js) - m + 2}), Len(js)))
  IN  (Total(js) - long) \div m + 1

\* calculate_H_max_H_min: list scheduling ends by floor((P - pmax) / m) + pmax
HorizonOf(js, m) == LET pmax == Max({js[i].p : i \in DOMAIN js})
                    IN  (Total(js) - pmax) \div m + pmax

\* ... and no machine is lighter than the m-th part of what remains without the
\* m - 1 longest jobs: the division is one of integers, so ceil() has no effect.
LeastLoad(js, m) ==
  LET byLength == Sorted(js, [x, y \in DOMAIN js |-> js[x].p < js[y].p])
      long == Total(SubSeq(byLength, Max({1, Len(js) - m + 2}), Len(js)))
  IN  (Total(js) - long) \div m

\* find_division, first loop: an interval between each two due dates
CoarseIntervals(js, H) ==
  LET step(s, j) == IF s.prev < H /\ s.prev < Min({H, j.d})
                    THEN [prev |-> j.d, out |-> Append(s.out, [a |-> s.prev, b |-> Min({H, j.d})])]
                    ELSE s
      end == FoldLeft(step, [prev |-> 0, out |-> <<>>], js)
  IN  IF end.prev < H THEN Append(end.out, [a |-> end.prev, b |-> H]) ELSE end.out

Calculate ==
  /\ pc = "read" /\ Len(jobs) = Len(file.lines)
  /\ pc' = "divide"
  /\ hmax' = HorizonOf(jobs, file.m)
  /\ hmin' = LeastLoad(jobs, file.m)
  /\ jobs' = InOrder(jobs)
  /\ coarse' = CoarseIntervals(jobs', hmax')
  /\ UNCHANGED <<file, off, pairs, cuts, intervals>>

\* The job order sigma of an interval.
Sigma(a, b) == Sorting(Len(jobs), [x, y \in DOMAIN jobs |-> Earlier(jobs, a, b, x, y)])

CeilDiv(x, y) == (x + y - 1) \div y

\* IntervalPair::operator(): from where on job i is better first than job j
\* within (a, b]
PairLeft(a, b, i, j) ==
  IF a > b - jobs[i].p \/ ValueDiff(a, jobs[i], jobs[j]) <= 0
  THEN a
  ELSE jobs[i].d + CeilDiv(jobs[j].w * jobs[i].p, jobs[i].w) - jobs[i].p

\* The pairs of jobs, late by the end of the interval, whose order in it is not
\* settled.
SpecialPairs(a, b) ==
  LET sigma == Sigma(a, b)
      pair(x, y) == [first |-> sigma[x], second |-> sigma[y],
                     left |-> PairLeft(a, b, sigma[x], sigma[y]), right |-> a + jobs[sigma[y]].p]
      all == {pair(xy[1], xy[2]) : xy \in {xy \in (DOMAIN sigma) \X (DOMAIN sigma) : xy[1] < xy[2]}}
  IN  {q \in all : /\ jobs[q.first].d < b /\ jobs[q.second].d < b
                   /\ q.right < b /\ q.left > a}

\* The next interval between due dates.
StartInterval ==
  /\ pc = "divide" /\ coarse # <<>>
  /\ pc' = "cut"
  /\ pairs' = SpecialPairs(Head(coarse).a, Head(coarse).b)
  /\ cuts' = <<Head(coarse).a>>
  /\ UNCHANGED <<file, jobs, off, hmax, hmin, coarse, intervals>>

\* One turn of the loop over the special pairs: cut at the smallest right end;
\* the pairs this settles go, the others move behind the cut.
Cut ==
  /\ pc = "cut" /\ pairs # {}
  /\ LET t == Min({q.right : q \in pairs})
         settled(q) == (q.left <= t /\ t <= q.right) \/ t + jobs[q.second].p >= Head(coarse).b
     IN  \E min \in {q \in pairs : q.right = t} :
           /\ cuts' = Append(cuts, t)
           /\ pairs' = {[q EXCEPT !.right = t + jobs[q.second].p] :
                          q \in {q \in pairs \ {min} : ~settled(q)}}
  /\ UNCHANGED <<pc, file, jobs, off, hmax, hmin, coarse, intervals>>

\* The pieces of the interval.
EndInterval ==
  /\ pc = "cut" /\ pairs = {}
  /\ pc' = "divide"
  /\ LET t == Append(cuts, Head(coarse).b)
     IN  intervals' = intervals \o [i \in 1 .. Len(t) - 1 |->
                                     [a |-> t[i], b |-> t[i + 1], sigma |-> Sigma(t[i], t[i + 1])]]
  /\ coarse' = Tail(coarse)
  /\ UNCHANGED <<file, jobs, off, hmax, hmin, pairs, cuts>>

Finish ==
  /\ pc = "divide" /\ coarse = <<>>
  /\ pc' = "done"
  /\ UNCHANGED <<file, jobs, off, hmax, hmin, coarse, pairs, cuts, intervals>>

Done == pc = "done" /\ UNCHANGED vars

Next == ReadJob \/ Calculate \/ StartInterval \/ Cut \/ EndInterval \/ Finish \/ Done
Spec == Init /\ [][Next]_vars /\ WF_vars(Next)

\* vector_pair: the layers, of the jobs that can complete in an interval.
Layers ==
  LET add(ls, iv) == FoldLeft(LAMBDA l, j : IF jobs[j].p <= iv.b
                                            THEN Append(l, [job |-> j, a |-> iv.a, b |-> iv.b])
                                            ELSE l,
                              ls, iv.sigma)
  IN  FoldLeft(add, <<>>, intervals)
------------------------------------------------------------------------------
\* Raising due dates and paying in advance changes no schedule's cost: whatever
\* the completion times, the file and the jobs read from it agree.
OffsetIsExact ==
  pc = "read" =>
    \A C \in [DOMAIN jobs -> 1 .. Total(jobs)] :
      (\A i \in DOMAIN jobs : C[i] >= jobs[i].p) =>
        off + SumFunction([i \in DOMAIN jobs |-> WeightedTardiness(jobs[i], C[i])])
          = SumFunction([i \in DOMAIN jobs |->
                          file.lines[i].w * Late(C[i], file.lines[i].d \div file.m)])

\* Some optimal schedule is made of paths of the diagram whose machines all carry at
\* least H_min: the interval orders, the horizon, the ban on running a job twice in
\* a row and the least load, which cleanup_arcs requires of every path, together
\* keep one.
OptimumHasPaths ==
  pc = "done" =>
    LET heavy == {s \in Paths(jobs, Layers) : IsElementary(s) /\ Load(jobs, JobsOf(s)) >= hmin}
    IN  CheapestOver(jobs, file.m, heavy) = OptimalCost(jobs, file.m)
================================================================================
