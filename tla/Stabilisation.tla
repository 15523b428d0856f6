---------------------------- MODULE Stabilisation ----------------------------
(***************************************************************************)
(* The four techniques that decide where a node prices: none (base), the   *)
(* Wentges smoothing with a fixed factor (static), with a factor that      *)
(* follows the subgradient (dynamic), and the hybrid of smoothing and a    *)
(* step along the subgradient (PricingStabilization.cpp), driven by        *)
(* compute_lower_bound and solve_pricing.  ColumnGeneration takes of a     *)
(* technique only what it returns; here are the points it prices at, the   *)
(* mispricing loop and the flags it keeps from one call to the next.       *)
(*                                                                         *)
(* The rows of the master are taken together: a column counts the jobs it  *)
(* holds, one dual pays for every job, and duals are the points 0..MaxDual *)
(* of a grid.  The dual of the convexity row is then known, and the master *)
(* is the piecewise linear function MasterAt of the one dual.  Values are  *)
(* integers, so the tolerances of the code (ETA_DIFF, EPS_RC, EPS_BOUND)   *)
(* lie between equal and different.  Smoothing factors are tenths.         *)
(***************************************************************************)
EXTENDS Integers, FiniteSets, FiniteSetsExt, Functions

CONSTANTS
  Col,               \* schedules of one machine: [jobs |-> .., cost |-> ..]
  Jobs, Machines,    \* jobs to cover, convex_rhs
  UB,                \* cost of the incumbent
  MaxDual,           \* cost of an artificial column
  MaxIter,           \* NB_CG_ITERATIONS
  RcRate,            \* RC_FIXING_RATE
  Techniques,        \* those a root may be given
  InitialPools, InitialDiagrams

\* The driver's techniques; "static" is the default.
Kinds == {"base", "static", "dynamic", "hybrid"}

\* The artificial columns of build_rmp cost more than the incumbent.
ASSUME StabilisationAssumption ==
  /\ Col \subseteq [jobs : Nat, cost : Nat] /\ IsFiniteSet(Col)
  /\ Jobs \in Nat \ {0} /\ Machines \in Nat \ {0} /\ MaxDual \in Nat
  /\ UB \in Nat /\ UB <= MaxDual /\ MaxIter \in Nat \ {0} /\ RcRate \in Nat \ {0}
  /\ Techniques \subseteq Kinds
  /\ InitialPools \subseteq SUBSET Col
  /\ InitialDiagrams \subseteq SUBSET Col

VARIABLES
  pc, verdict, value,
  technique,
  dd, dd0, rmp,         \* paths of the diagram, at the start too; columns
  piOut, piIn, piSep,   \* the master's dual, the centre, the point priced last
  etaOut, etaIn,        \* the master's value, and the bound at the centre
  alpha, alphabar, k,   \* smoothing factor, the one in use, tries
  hasCenter, center,    \* hasstabcenter, update_stab_center
  misprice,             \* in_mispricing_schedule
  subgradient,          \* subgradient_in: at the centre
  iterations, prevFix, continueLP,
  priced                \* the column with negative reduced cost, if any

node   == <<verdict, value, technique, dd0>>
points == <<piOut, piIn, piSep>>
eta    == <<etaOut, etaIn>>
smooth == <<alpha, alphabar, k, hasCenter, misprice, subgradient>>
flags  == <<center, continueLP, iterations, prevFix, priced>>
vars   == <<pc, node, dd, rmp, points, eta, smooth, flags>>

Dual == 0 .. MaxDual

Reduced(s, pi) == s.cost - s.jobs * pi   \* without the convexity row
Slope(s) == Jobs - Machines * s.jobs     \* compute_subgradient

\* The Lagrangian function at the dual pi if every machine runs s.
Line(s, pi) == Jobs * pi + Machines * Reduced(s, pi)

\* Mutant: the convexity row counts one machine less.
Lagrange_FewerMachines(D, pi) ==
  Min({Jobs * pi} \cup {Jobs * pi + (Machines - 1) * Reduced(s, pi) : s \in D})

\* compute_lagrange of the best path of D at pi
Lagrange(D, pi) == Min({Jobs * pi} \cup {Line(s, pi) : s \in D})

\* The master over the columns R, and its dual solutions.
MasterAt(R, pi) == Min({Jobs * pi} \cup {Line(s, pi) : s \in R})
Duals(R) == {pi \in Dual : \A q \in Dual : MasterAt(R, q) <= MasterAt(R, pi)}

\* What pricing_algorithm may return at pi.
Best(D, pi) == {s \in D : \A t \in D : Line(s, pi) <= Line(t, pi)}

\* The column s has negative reduced cost for the master.
Improves(s) == Line(s, piOut) < etaOut

\* The bound on a solution that uses s; mutant: and one more machine.
Through_OneMore(D, s, pi) ==
  Jobs * pi + Machines * Min({Reduced(t, pi) : t \in D}) + Reduced(s, pi)

Through(D, s, pi) ==
  Jobs * pi + (Machines - 1) * Min({Reduced(t, pi) : t \in D}) + Reduced(s, pi)

\* evaluate_nodes with the multipliers pi.  An arc goes when every path through
\* it is too dear: some of the columns that are.
Fixed(D, pi) == {D \ S : S \in SUBSET {s \in D : Through(D, s, pi) > UB - 1}}

(***************************************************************************)
(* The node: compute_lower_bound around the techniques.                    *)
(***************************************************************************)

\* clone: a node below the root gets a technique of its own, without history.
Cloned(t) == IF t = "hybrid" THEN "base" ELSE t

Init ==
  /\ pc = "master" /\ verdict = "initialized" /\ value = 0
  /\ technique \in Techniques \cup {Cloned(t) : t \in Techniques}
  /\ dd \in InitialDiagrams /\ dd0 = dd
  /\ rmp \in {R \cap dd : R \in InitialPools}
  /\ piOut = 0 /\ piIn = 0 /\ piSep = 0 /\ etaOut = 0 /\ etaIn = 0
  /\ alpha = 8 /\ alphabar = 0 /\ k = 0
  /\ hasCenter = FALSE /\ center = FALSE /\ misprice = FALSE /\ subgradient = 0
  /\ iterations = 0 /\ prevFix = 0 /\ continueLP = FALSE /\ priced = {}

\* Mutant: the loop goes on when the gap is closed.
InLoop_Closed == /\ iterations < MaxIter
                 /\ dd # {}
                 /\ iterations > 0 => etaIn <= etaOut /\ etaIn <= UB - 1

\* stopping_criteria, and the test on the incumbent's cost
InLoop == /\ iterations < MaxIter
          /\ dd # {}
          /\ iterations > 0 => etaIn < etaOut /\ etaIn <= UB - 1

\* solve_relaxation, and the start of solve.
Master ==
  /\ pc = "master" /\ InLoop /\ pc' = "turn"
  /\ piOut' \in Duals(rmp) /\ etaOut' = MasterAt(rmp, piOut')
  /\ iterations' = iterations + 1
  /\ priced' = {}
  /\ IF technique \in {"static", "dynamic"} THEN k' = 0 ELSE k' = k
  /\ center' = (technique = "hybrid" /\ center)
  /\ UNCHANGED <<node, dd, rmp, piIn, piSep, etaIn, alpha, alphabar, hasCenter, misprice,
                 subgradient, continueLP, prevFix>>

\* The best path becomes the stability centre if its bound is better.
Recenter(pi, e) ==
  /\ center' = (e > etaIn \/ center)
  /\ IF e > etaIn THEN etaIn' = e /\ piIn' = pi ELSE UNCHANGED <<etaIn, piIn>>

\* PricingStabilizationBase::solve
BaseTurn ==
  /\ pc = "turn" /\ technique = "base" /\ pc' = "fix"
  /\ \E s \in Best(dd, piOut) : priced' = {x \in {s} : Improves(x)}
  /\ Recenter(piOut, Lagrange(dd, piOut))
  /\ continueLP' = (etaIn < etaOut)
  /\ UNCHANGED <<node, dd, rmp, piOut, piSep, etaOut, smooth, iterations, prevFix>>

\* compute_pi_eta_sep: the point between centre and master
Mix(ab) == (ab * piIn + (10 - ab) * piOut) \div 10

\* The smoothing factor of the given try.
Factor(try) == IF 10 - try * (10 - alpha) > 0 THEN 10 - try * (10 - alpha) ELSE 0

\* adjust_alpha and update_alpha: ALPHA_CHG is a tenth, ALPHA_MAX just below one.
\* A tenth of the way to one is rounded either way.
Adjusted(a, product) ==
  IF product > 0 THEN {Max({a - 1, 0})}
  ELSE {Min({n, 9}) : n \in {(9 * a + 10) \div 10, (9 * a + 19) \div 10}}

\* A try of the dynamic technique, with the factor ab, that found a column follows
\* the subgradient; the factor it ends with is the next iteration's.
Adapt(s, ab) ==
  IF technique = "dynamic"
  THEN alpha' \in Adjusted(ab, Slope(s) * (piOut - piIn)) /\ alphabar' = alpha'
  ELSE alphabar' = ab /\ UNCHANGED alpha

\* Mutant: one try away from the master's duals is enough.
TriesAgain_Once(ab) == priced' = {} /\ ab > 0 /\ k' < 2

\* The mispricing loop goes on.
TriesAgain(ab) == priced' = {} /\ ab > 0

\* PricingStabilizationStat::solve and PricingStabilizationDynamic::solve: one
\* turn of the mispricing loop.  The bounds of points that misprice are dropped,
\* but for the last.
SmoothedTurn ==
  /\ pc = "turn" /\ technique \in {"static", "dynamic"}
  /\ k' = k + 1
  /\ LET ab == IF hasCenter THEN Factor(k') ELSE 0
         pi == Mix(ab)
         e  == Lagrange(dd, pi)
     IN  /\ piSep' = pi
         /\ \E s \in Best(dd, pi) :
              IF Improves(s) THEN priced' = {s} /\ Adapt(s, ab)
              ELSE UNCHANGED <<priced, alpha>> /\ alphabar' = ab
         /\ IF TriesAgain(ab)
            THEN pc' = "turn" /\ UNCHANGED <<dd, piIn, etaIn, hasCenter, center, continueLP>>
            ELSE /\ pc' = "fix"
                 /\ Recenter(pi, e)
                 /\ hasCenter' = (hasCenter \/ e > etaIn)
                 /\ continueLP' = IF technique = "static" THEN etaIn < etaOut ELSE continueLP
                 /\ IF technique = "dynamic" /\ e > etaIn /\ iterations % RcRate = 0
                    THEN dd' \in Fixed(dd, pi) ELSE dd' = dd
  /\ UNCHANGED <<node, rmp, piOut, etaOut, misprice, subgradient, iterations, prevFix>>

Distance == IF piOut > piIn THEN piOut - piIn ELSE piIn - piOut

\* compute_dual: smoothing while mispricing, and otherwise a step from the centre,
\* 1 - alpha times as long as the way to the master's duals, in a direction
\* between theirs and the subgradient.  In one dimension it goes either way; it
\* is cut off at zero, and a direction that is not a number gives piOut.
HybridDual ==
  LET step == ((10 - alpha) * Distance) \div 10
  IN  IF ~hasCenter THEN {piOut}
      ELSE IF misprice THEN {Mix(alphabar)}
      ELSE IF alpha = 0 THEN {piOut}
      ELSE {Mix(alpha), piOut, IF piIn > step THEN piIn - step ELSE 0, piIn + step}

\* PricingStabilizationHybrid::solve, one turn that prices s at the point pi.  A better
\* centre fixes arcs at once, before the path is known to have negative reduced cost.
HybridPrice(pi, s) ==
  LET e          == Lagrange(dd, pi)
      found      == dd # {} /\ Improves(s)
      stabilized == IF misprice THEN alphabar > 0 ELSE alpha > 0
  IN  /\ piSep' = pi
      /\ Recenter(pi, e)
      /\ hasCenter' = (hasCenter \/ e > etaIn)
      /\ IF e > etaIn THEN subgradient' = Slope(s) /\ dd' \in Fixed(dd, pi)
         ELSE UNCHANGED <<subgradient, dd>>
      /\ priced' = IF found THEN {s} ELSE {}
      /\ misprice' = (~found /\ stabilized)
      /\ IF found THEN alpha' \in Adjusted(alpha, (piOut - piIn') * subgradient')
         ELSE alpha' = alpha
      /\ IF misprice' THEN k' = k + 1 /\ alphabar' = Factor(k')
         ELSE UNCHANGED <<k, alphabar>>
      /\ pc' = IF misprice' THEN "turn" ELSE "fix"

\* An emptied diagram returns the empty schedule.
HybridTurn ==
  /\ pc = "turn" /\ technique = "hybrid"
  /\ \E pi \in HybridDual : \E s \in Best(dd, pi) \cup {t \in Col : dd = {}} : HybridPrice(pi, s)
  /\ UNCHANGED <<node, rmp, piOut, etaOut, continueLP, iterations, prevFix>>

(***************************************************************************)
(* solve_pricing after solve.                                              *)
(***************************************************************************)

\* do_reduced_cost_fixing; the counters are unsigned.
DoFixing == \/ iterations = 1
            \/ ~continueLP
            \/ iterations < RcRate
            \/ prevFix <= iterations - RcRate

\* reduced_cost_fixing at the point priced last, clean-up, solve_relaxation and
\* update_continueLP.  The base technique leaves pi_sep at zero.
Fix ==
  /\ prevFix' = iterations
  /\ dd' \in Fixed(dd, piSep)
  /\ rmp' = rmp \cap dd'
  /\ piOut' \in Duals(rmp')
  /\ etaOut' = MasterAt(rmp', piOut')
  /\ continueLP' = (etaIn < etaOut')
  /\ UNCHANGED <<node, piIn, piSep, etaIn, smooth, center, iterations, priced>>

FixAtCenter ==
  /\ pc = "fix" /\ pc' = "column"
  /\ center /\ DoFixing
  /\ Fix

NoFixAtCenter ==
  /\ pc = "fix" /\ pc' = "column"
  /\ ~(center /\ DoFixing)
  /\ UNCHANGED <<dd, rmp, node, points, eta, smooth, flags>>

AddsColumn == priced # {} /\ continueLP /\ etaIn <= UB - 1

AddColumn ==
  /\ pc = "column" /\ pc' = "master"
  /\ AddsColumn
  /\ rmp' = rmp \cup priced
  /\ UNCHANGED <<node, dd, points, eta, smooth, flags>>

FixAndClean ==
  /\ pc = "column" /\ pc' = "master"
  /\ ~AddsColumn
  /\ Fix

\* The end of compute_lower_bound.
Finish ==
  /\ pc = "master" /\ ~InLoop /\ pc' = "done"
  /\ piOut' \in Duals(rmp)
  /\ IF rmp # {} /\ dd # {}
     THEN verdict' = "LP_bound_computed" /\ value' = MasterAt(rmp, piOut')
     ELSE verdict' = "infeasible" /\ value' = UB
  /\ UNCHANGED <<technique, dd0, dd, rmp, piIn, piSep, eta, smooth, flags>>

Done == pc = "done" /\ UNCHANGED vars

Next == Master \/ BaseTurn \/ SmoothedTurn \/ HybridTurn \/ FixAtCenter \/ NoFixAtCenter
        \/ AddColumn \/ FixAndClean \/ Finish \/ Done

Spec == Init /\ [][Next]_vars
------------------------------------------------------------------------------
JobsIn(x) == FoldFunction(LAMBDA s, n : s.jobs + n, 0, x)
CostOf(x) == FoldFunction(LAMBDA s, n : s.cost + n, 0, x)

\* The solutions still to be found: a path a machine, better than the incumbent.
Solutions(D) == {x \in [1 .. Machines -> D] : JobsIn(x) >= Jobs /\ CostOf(x) <= UB - 1}

Wanted == Solutions(dd0)

\* Whatever point a technique prices and fixes at, inside solve or after it, no
\* schedule better than the incumbent leaves the diagram.
FixingKeepsWanted == Wanted \subseteq Solutions(dd)

\* solve gives up only when no path improves the master: mispricing at a point
\* away from the master's duals is never taken for the end of the node.
GivesUpOnlyAtOptimum == pc = "fix" /\ priced = {} => \A s \in dd : ~Improves(s)

\* The stopping tests end every node, although continueLP, k and the centre's
\* flag are left over from earlier calls.
ConvergesBeforeLimit == iterations < MaxIter

\* A node with any of the techniques keeps the promise of NodeBound.
Bound == INSTANCE NodeBound WITH
  EtaDiff <- 1,
  wanted  <- {CostOf(x) : x \in Wanted},
  bound   <- etaIn,
  verdict <- IF verdict = "initialized" THEN "open"
             ELSE IF iterations >= MaxIter THEN "capped" ELSE verdict,
  value   <- IF verdict = "LP_bound_computed" THEN value ELSE 0

ImplementsNodeBound == Bound!Spec
==============================================================================
