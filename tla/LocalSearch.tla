------------------------------ MODULE LocalSearch ------------------------------
(***************************************************************************)
(* The heuristic: Problem::heuristic, its local search (LocalSearchData)   *)
(* and the moves of Sol.                                                   *)
(*                                                                         *)
(* The search prices a move from tables kept for each machine: W, the cost *)
(* of each prefix, and g, the cost of each suffix as a function of its     *)
(* starting time.  They are computed anew for the machines marked          *)
(* `updated', so a machine's tables are those of the sequence it had when  *)
(* it was last marked, in whatever solution.                               *)
(*                                                                         *)
(* Positions i and j are counted from 0, machines and jobs from 1.         *)
(***************************************************************************)
EXTENDS PricerConstruct, SequencesExt

CONSTANTS
  Instances,      \* preprocessed: [jobs, m, intervals]
  Moves,          \* the moves tried, [kind, l1, l2]
  Perturbations,  \* block lengths exchanged by a perturbation, <<l1, l2>>
  MaxPerturb,     \* bound on the perturbations of one round, up to 7 in the code
  IR              \* parms.nb_iterations_rvnd

Kind(kind, l1, l2) == [kind |-> kind, l1 |-> l1, l2 |-> l2]

\* LocalSearchData::moves
AllMoves ==
  {Kind("insertion", l, 0) : l \in 1 .. 2} \cup {Kind("insertion_inter", l, 0) : l \in 1 .. 2}
  \cup {Kind("swap", b[1], b[2]) : b \in {<<0, 1>>, <<0, 2>>, <<1, 1>>}}
  \cup {Kind("swap_inter", b[1], b[2]) :
          b \in {<<1, 1>>, <<1, 2>>, <<1, 3>>, <<2, 2>>, <<2, 3>>, <<3, 3>>, <<3, 4>>, <<4, 4>>}}

\* PerturbOperator: two of each, shuffled, of which up to seven are applied.
AllPerturbations == {<<1, 2>>, <<1, 3>>, <<2, 2>>, <<2, 3>>}

ASSUME SearchAssumption ==
  /\ Moves \subseteq AllMoves /\ Perturbations \subseteq AllPerturbations
  /\ \A I \in Instances : I.m \in Nat /\ I.m >= 2
  /\ MaxPerturb \in 0 .. 7 /\ IR \in Nat

VARIABLES
  pc,         \* "start", "first", "search", "perturb", "done", "beyond"
  inst,
  sol,        \* the solution at hand: [seq, c, tw, updated]
  W, g,       \* the tables of each machine
  cur, best,  \* sol and best_sol of the heuristic
  round,      \* i of its loop
  perturbed,  \* perturbations of this round
  gain        \* the improvement the last move was taken for

vars == <<pc, inst, sol, W, g, cur, best, round, perturbed, gain>>

Jobs == inst.jobs
Machines == 1 .. inst.m
Size(k) == Len(sol.seq[k])

\* When the first i jobs of machine k are done, and the length of a block.
C(k, i) == IF i = 0 THEN 0 ELSE sol.c[sol.seq[k][i]]
P(k, i, l) == C(k, i + l) - C(k, i)

Tw(s) == MapThenSumSet(LAMBDA k : s.tw[k], DOMAIN s.tw)

\* reset_machine, but for the mark
Timed(I, s, k) ==
  LET run(r, j) == LET t == r.t + I.jobs[j].p
                   IN  [t |-> t, c |-> [r.c EXCEPT ![j] = t],
                        tw |-> r.tw + WeightedTardiness(I.jobs[j], t)]
      end == FoldLeft(run, [t |-> 0, c |-> s.c, tw |-> 0], s.seq[k])
  IN  [s EXCEPT !.c = end.c, !.tw[k] = end.tw]

\* reset_machine
Reset(s, k) == [Timed(inst, s, k) EXCEPT !.updated[k] = TRUE]
--------------------------------------------------------------------------------
(* The tables. *)

\* calculate_g: row j + 1 gives, for each start of the jobs from position j on,
\* what they cost, and the segment of that piecewise linear function: how many of
\* them are due by the time they complete.
Rows(s) ==
  LET last == [t \in 0 .. 2 * Load(Jobs, DOMAIN Jobs) |-> [c |-> 0, due |-> 0]]
      row(j, next) ==
        [t \in {t \in DOMAIN next : t + Jobs[j].p \in DOMAIN next} |->
          LET end == t + Jobs[j].p
          IN  [c |-> next[end].c + WeightedTardiness(Jobs[j], end),
               due |-> next[end].due + IF Jobs[j].d <= end THEN 1 ELSE 0]]
  IN  FoldLeft(LAMBDA rows, j : <<row(j, rows[1])>> \o rows, <<last>>, Reverse(s))

\* Cost of the suffix from position j of machine k, started at t, looked up by an
\* iterator that has looked up the times `before' and only goes forward: a segment
\* it has passed is not found and counts as 0, as does one behind the table.
Scanned(k, j, t, before) ==
  IF j + 1 \in DOMAIN g[k].rows /\ \A u \in before : g[k].rows[j + 1][u].due <= g[k].rows[j + 1][t].due
  THEN g[k].rows[j + 1][t].c
  ELSE 0
Suffix(k, j, t) == Scanned(k, j, t, {})

Prefix(k, i) == IF i = 0 THEN 0 ELSE W[k][i]

\* Mutant: calculate_g before calculate_W, which finds the marks cleared.
Refresh_Swapped(s) ==
  /\ sol' = [s EXCEPT !.updated = [k \in Machines |-> FALSE]]
  /\ g' = [k \in Machines |-> IF s.updated[k] THEN [of |-> s.seq[k], rows |-> Rows(s.seq[k])] ELSE g[k]]
  /\ W' = W

\* calculate_W and calculate_g: the marks are cleared.
Refresh(s) ==
  /\ sol' = [s EXCEPT !.updated = [k \in Machines |-> FALSE]]
  /\ g' = [k \in Machines |-> IF s.updated[k] THEN [of |-> s.seq[k], rows |-> Rows(s.seq[k])] ELSE g[k]]
  /\ W' = [k \in Machines |-> [i \in DOMAIN Jobs |->
             IF s.updated[k] /\ i <= Len(s.seq[k])
             THEN SequenceCost(Jobs, SubSeq(s.seq[k], 1, i)) ELSE W[k][i]]]
--------------------------------------------------------------------------------
(* What a move would cost, as the operators compute it from the tables.    *)
(* Times that grow with a position are looked up in order; those that      *)
(* depend on a block's length, in the order of a processing list.          *)

\* The blocks, of those in B, before the one at i in a list sorted by growing or
\* falling length.
Shorter(k, B, i, l) == {x \in B : P(k, x, l) < P(k, i, l)}
Longer(k, B, i, l) == {x \in B : P(k, x, l) > P(k, i, l)}

\* insertion_operator: the block at i goes behind position j.
InsertionCost(k, i, j, l) ==
  LET n == Size(k)
      t(x) == C(k, j + 1) - P(k, x, l)
  IN  Prefix(k, i)
      + Suffix(k, i, t(i)) - Suffix(k, i + l, C(k, j + 1))
      + Suffix(k, i + l, C(k, i))
      - (IF j = n - 1 THEN 0
         ELSE Scanned(k, j + 1, t(i), {t(x) : x \in Longer(k, 0 .. j - l, i, l)}))
      + W[k][n] - Prefix(k, j + 1)

\* swap_operator: the blocks at i and j change places.
SwapCost(k, i, j, l1, l2) ==
  LET n == Size(k)
      t(x) == C(k, j + l2) - P(k, x, l1)
      u(y) == C(k, i) + P(k, y, l2)
  IN  Prefix(k, i)
      + Suffix(k, i, t(i)) - Suffix(k, i + l1, C(k, j + l2))
      + Scanned(k, i + l1, u(j), {u(y) : y \in Shorter(k, i + l1 .. n - l2, j, l2)})
      - Scanned(k, j, t(i), {t(x) : x \in Shorter(k, 0 .. j - l1, i, l1)})
      + Suffix(k, j, C(k, i)) - (IF j + l2 = n THEN 0 ELSE Suffix(k, j + l2, u(j)))
      + W[k][n] - Prefix(k, j + l2)

\* insertion_operator_inter: the block at i of machine k1 goes before position j of
\* machine k2; what follows it is looked up from the block on (B3_1_).
InsertionInterCost(k1, k2, i, j, l) ==
  LET u(x) == C(k2, j) + P(k1, x, l)
      after(from, t) == IF i + l >= Size(k1) THEN 0 ELSE Suffix(k1, from, t)
  IN  Prefix(k1, i)
      + Suffix(k1, i, C(k2, j)) - after(i + l, u(i))
      + after(i, C(k1, i))
      + Scanned(k2, j, u(i), {u(x) : x \in Shorter(k1, 0 .. Size(k1) - l, i, l)})
      + Prefix(k2, j)

\* swap_operator_inter: the block at i of machine k1 and the one at j of k2 change
\* machines.
SwapInterCost(k1, k2, i, j, l1, l2) ==
  LET u(y) == C(k1, i) + P(k2, y, l2)
      v(x) == C(k2, j) + P(k1, x, l1)
      after(k, from, t, before) == IF from >= Size(k) THEN 0 ELSE Scanned(k, from, t, before)
  IN  Prefix(k1, i)
      + Suffix(k1, i, C(k2, j)) - after(k1, i + l1, v(i), {})
      + after(k1, i + l1, u(j), {u(y) : y \in Shorter(k2, 0 .. Size(k2) - l2, j, l2)})
      + Suffix(k2, j, C(k1, i)) - after(k2, j + l2, u(j), {})
      + after(k2, j + l2, v(i), {v(x) : x \in Shorter(k1, 0 .. Size(k1) - l1, i, l1)})
      + Prefix(k2, j)

\* The places a move considers, <<k1, k2, i, j>>; within one machine k1 = k2.
Places(m) ==
  LET within(x) == x[1] = x[2] /\ x[3] + m.l1 <= x[4]
      across(x) == x[1] # x[2] /\ x[3] + m.l1 <= Size(x[1])
      fits(x) == CASE m.kind = "insertion"       -> within(x) /\ x[4] < Size(x[2])
                   [] m.kind = "swap"            -> within(x) /\ x[4] + m.l2 <= Size(x[2])
                   [] m.kind = "insertion_inter" -> across(x) /\ x[4] + 1 < Size(x[2])
                   [] m.kind = "swap_inter"      -> across(x) /\ x[4] + m.l2 <= Size(x[2])
  IN  {x \in Machines \X Machines \X (0 .. Len(Jobs)) \X (0 .. Len(Jobs)) : fits(x)}

\* The improvement an operator sees in the move m at x.
Gain(m, x) ==
  LET within == sol.tw[x[1]]
      across == sol.tw[x[1]] + sol.tw[x[2]]
  IN  CASE m.kind = "insertion"       -> within - InsertionCost(x[1], x[3], x[4], m.l1)
        [] m.kind = "swap"            -> within - SwapCost(x[1], x[3], x[4], m.l1, m.l2)
        [] m.kind = "insertion_inter" -> across - InsertionInterCost(x[1], x[2], x[3], x[4], m.l1)
        [] m.kind = "swap_inter"      -> across - SwapInterCost(x[1], x[2], x[3], x[4], m.l1, m.l2)

\* The place an operator takes: of those with the largest improvement, the first.
Key(x) == FoldLeft(LAMBDA r, n : r * (Len(Jobs) + inst.m) + n, 0, x)
Best(m) ==
  LET gains == [x \in Places(m) |-> Gain(m, x)]
      top == Max({0} \cup {gains[x] : x \in DOMAIN gains})
      tied == {x \in DOMAIN gains : gains[x] = top}
  IN  [gain |-> top,
       at |-> IF top = 0 THEN <<>> ELSE CHOOSE x \in tied : \A y \in tied : Key(x) <= Key(y)]

\* swap_ranges: the ranges [a1, e1) and [a2, e2) of s change places.
SwapRanges(s, a1, e1, a2, e2) ==
  SubSeq(s, 1, a1) \o SubSeq(s, a2 + 1, e2) \o SubSeq(s, e1 + 1, a2) \o SubSeq(s, a1 + 1, e1)
    \o SubSeq(s, e2 + 1, Len(s))

\* update_insertion_move, update_swap_move
Rearranged(s, k, a1, e1, a2, e2) == Reset([s EXCEPT !.seq[k] = SwapRanges(@, a1, e1, a2, e2)], k)

\* Mutant: the second machine goes on where a block as long as the first ends.
Exchanged_SameLength(s, k1, k2, i, j, l1, l2) ==
  LET s1 == s.seq[k1]
      s2 == s.seq[k2]
      seq == [s.seq EXCEPT
               ![k1] = SubSeq(s1, 1, i) \o SubSeq(s2, j + 1, j + l2) \o SubSeq(s1, i + l1 + 1, Len(s1)),
               ![k2] = SubSeq(s2, 1, j) \o SubSeq(s1, i + 1, i + l1) \o SubSeq(s2, j + l1 + 1, Len(s2))]
  IN  Reset(Reset([s EXCEPT !.seq = seq], k1), k2)

\* update_swap_move_inter, and with l2 = 0 update_insertion_move_inter
Exchanged(s, k1, k2, i, j, l1, l2) ==
  LET s1 == s.seq[k1]
      s2 == s.seq[k2]
      seq == [s.seq EXCEPT
               ![k1] = SubSeq(s1, 1, i) \o SubSeq(s2, j + 1, j + l2) \o SubSeq(s1, i + l1 + 1, Len(s1)),
               ![k2] = SubSeq(s2, 1, j) \o SubSeq(s1, i + 1, i + l1) \o SubSeq(s2, j + l2 + 1, Len(s2))]
  IN  Reset(Reset([s EXCEPT !.seq = seq], k1), k2)

\* The solution after the move m at x.
Moved(m, x) ==
  LET i == x[3]
      j == x[4]
  IN  CASE m.kind = "insertion"       -> Rearranged(sol, x[1], i, i + m.l1, j + 1, j + 1)
        [] m.kind = "swap"            -> Rearranged(sol, x[1], i, i + m.l1, j, j + m.l2)
        [] m.kind = "insertion_inter" -> Exchanged(sol, x[1], x[2], i, j, m.l1, 0)
        [] m.kind = "swap_inter"      -> Exchanged(sol, x[1], x[2], i, j, m.l1, m.l2)

\* A move that indexes outside a machine's jobs or tables, or reads processing lists
\* made for another move: an insertion with fewer jobs than the block, a swap whose
\* loop skips a machine without counting it, an exchange with a machine that has
\* enough jobs for one block and not for the other.
Undefined(m) ==
  CASE m.kind = "insertion" -> \E k \in Machines : Size(k) < m.l1
    [] m.kind = "swap" ->
         \E k, l \in Machines : k < l /\ Size(k) < m.l1 + m.l2 /\ Size(l) >= m.l1 + m.l2
    [] m.kind = "insertion_inter" -> \E k \in Machines : Size(k) + 1 < m.l1
    [] m.kind = "swap_inter" ->
         \E k, l \in Machines : /\ k # l /\ Size(k) >= m.l1 /\ Size(l) >= m.l2
                                /\ Size(k) < m.l2 \/ Size(l) < m.l1
--------------------------------------------------------------------------------
\* construct_edd: by due date, each job on the machine that is free first.
Edd(I) ==
  LET load(s) == FoldLeft(LAMBDA t, j : t + I.jobs[j].p, 0, s)
      first(ss) == CHOOSE k \in DOMAIN ss : \A l \in DOMAIN ss :
                     load(ss[k]) < load(ss[l]) \/ (load(ss[k]) = load(ss[l]) /\ k <= l)
  IN  FoldLeft(LAMBDA ss, j : [ss EXCEPT ![first(ss)] = Append(@, j)],
               [k \in 1 .. I.m |-> <<>>], [j \in DOMAIN I.jobs |-> j])

Order == INSTANCE CanonicalOrder WITH start <- <<>>, st <- <<>>

\* canonical_order: the marks stay as they are.
Canonical(I, s) ==
  LET turns == [n \in 1 .. 4 * (Len(I.jobs) + Len(I.intervals)) |-> n]
      ordered(q) == Order!Ordered(FoldLeft(LAMBDA r, n : IF r.at = 0 THEN r ELSE Order!Turn(I, r),
                                           Order!Queues(I, q), turns))
      seq == [k \in DOMAIN s.seq |-> ordered(s.seq[k])]
  IN  FoldLeft(LAMBDA r, k : Timed(I, r, k), [s EXCEPT !.seq = seq], [k \in DOMAIN s.seq |-> k])

Init ==
  /\ inst \in Instances /\ pc = "start"
  /\ LET zero == [k \in Machines |-> 0]
     IN  sol = Canonical(inst, [seq |-> Edd(inst), c |-> [j \in DOMAIN Jobs |-> 0], tw |-> zero,
                                updated |-> [k \in Machines |-> TRUE]])
  /\ W = [k \in Machines |-> [j \in DOMAIN Jobs |-> 0]]
  /\ g = [k \in Machines |-> [of |-> <<>>, rows |-> <<>>]]
  /\ cur = sol /\ best = sol
  /\ round = 0 /\ perturbed = 0 /\ gain = 0

Start ==
  /\ pc = "start" /\ pc' = "first"
  /\ Refresh(sol)
  /\ UNCHANGED <<inst, cur, best, round, perturbed, gain>>

\* A round of RVND that ends with an update: in the shuffled order, some move that
\* improves comes before the others that do.
Move ==
  /\ pc \in {"first", "search"}
  /\ \E m \in Moves :
       /\ ~Undefined(m)
       /\ LET b == Best(m)
          IN  /\ b.gain > 0 /\ gain' = b.gain
              /\ LET s == Moved(m, b.at)
                 IN  /\ Refresh(s)
                     /\ pc' = IF \E k \in Machines : s.seq[k] = <<>> THEN "beyond" ELSE pc
  /\ UNCHANGED <<inst, cur, best, round, perturbed>>

\* A move whose reads are undefined is tried: what it does is not modelled.
Beyond ==
  /\ pc \in {"first", "search"} /\ \E m \in Moves : Undefined(m)
  /\ pc' = "beyond"
  /\ UNCHANGED <<inst, sol, W, g, cur, best, round, perturbed, gain>>

\* A round without update: RVND returns.
Stuck == \A m \in Moves : ~Undefined(m) /\ Best(m).gain = 0

Continue(r, b) == IF r < IR /\ Tw(b) # 0 THEN "perturb" ELSE "done"

\* The first local optimum, in canonical order, becomes sol and best_sol.
First ==
  /\ pc = "first" /\ Stuck
  /\ sol' = Canonical(inst, sol) /\ cur' = sol' /\ best' = sol'
  /\ pc' = Continue(0, best') /\ perturbed' = 0 /\ gain' = 0
  /\ UNCHANGED <<inst, W, g, round>>

\* A later one replaces sol if it is better, and best_sol if better than that.
Accept ==
  /\ pc = "search" /\ Stuck
  /\ cur' = IF Tw(sol) < Tw(cur) THEN sol ELSE cur
  /\ best' = IF Tw(cur') < Tw(best) THEN cur' ELSE best
  /\ round' = 1 + (IF best' = best THEN round ELSE 0)
  /\ sol' = cur'
  /\ pc' = Continue(round', best') /\ perturbed' = 0 /\ gain' = 0
  /\ UNCHANGED <<inst, W, g>>

\* perturb_swap_inter
Perturb ==
  /\ pc = "perturb" /\ perturbed < MaxPerturb
  /\ \E p \in Perturbations, k1, k2 \in Machines :
       /\ k1 # k2 /\ p[1] < Size(k1) /\ p[2] < Size(k2)
       /\ \E i \in 0 .. Size(k1) - p[1] - 1, j \in 0 .. Size(k2) - p[2] - 1 :
            sol' = Exchanged(sol, k1, k2, i, j, p[1], p[2])
  /\ perturbed' = perturbed + 1
  /\ UNCHANGED <<pc, inst, W, g, cur, best, round, gain>>

\* RVND is called on the perturbed copy of sol.
Search ==
  /\ pc = "perturb" /\ pc' = "search"
  /\ Refresh(sol)
  /\ UNCHANGED <<inst, cur, best, round, perturbed, gain>>

Done == pc \in {"done", "beyond"} /\ UNCHANGED vars

Next == Start \/ Move \/ Beyond \/ First \/ Accept \/ Perturb \/ Search \/ Done
Spec == Init /\ [][Next]_vars /\ WF_vars(Next)
--------------------------------------------------------------------------------
\* Every job is on one machine, once.
Complete(s) == /\ UNION {JobsOf(s.seq[k]) : k \in Machines} = DOMAIN Jobs
               /\ MapThenSumSet(LAMBDA k : Len(s.seq[k]), Machines) = Len(Jobs)

WithinHorizon(s) ==
  \A k \in Machines : Load(Jobs, JobsOf(s.seq[k])) <= Last(inst.intervals).b

\* The tables of every machine are of the sequence it has.
Fresh == \A k \in Machines : g[k].of = sol.seq[k]

\* Whatever moves, perturbations and accepted or rejected solutions follow one
\* another, every job stays on one machine, provided that no machine runs past
\* the horizon when the first local optimum is put in canonical order.
JobsAreKept ==
  [][Complete(sol) /\ (pc = "first" /\ pc' # "first" => WithinHorizon(sol)) => Complete(sol')]_vars

\* With tables of the sequences at hand, an operator never claims more than a
\* move gains; it sees exactly that within a machine for insertions and between
\* machines for exchanges.  (Exchanges of two jobs of a machine, and insertions
\* into another machine, may be seen as worse than they are, and are then missed.)
PricesAreReal ==
  Fresh /\ pc \in {"first", "search"} =>
    \A m \in Moves : ~Undefined(m) =>
      \A x \in Places(m) :
        LET real == Tw(sol) - Tw(Moved(m, x))
        IN  /\ Gain(m, x) <= real
            /\ m.kind \in {"insertion", "swap_inter"} => Gain(m, x) = real

\* What the heuristic hands to branch and bound as a solution contains every job.
BestSolutionIsComplete == Complete(best)

================================================================================
