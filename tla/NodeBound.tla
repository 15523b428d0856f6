------------------------------ MODULE NodeBound ------------------------------
(***************************************************************************)
(* What NodeData::compute_lower_bound promises the branch-and-bound tree,  *)
(* without saying how: a dual bound that only rises and never passes the   *)
(* cost of a solution the node still has to find, and a verdict.           *)
(*                                                                         *)
(* Costs are counted in ticks (see ColumnGeneration).                      *)
(***************************************************************************)
EXTENDS Integers

CONSTANT EtaDiff    \* the stopping tolerance, in ticks

VARIABLES wanted,   \* costs of the solutions of the node better than the incumbent
          bound,    \* the dual bound
          verdict,  \* "open", or what the node was found to be
          value     \* the objective reported with "LP_bound_computed"

vars == <<wanted, bound, verdict, value>>

Init == /\ wanted \in SUBSET Nat
        /\ bound = 0
        /\ verdict = "open"
        /\ value = 0

\* The dual bound rises, and stays a bound on every solution still wanted.
Raise == /\ verdict = "open"
         /\ bound' >= bound
         /\ \A c \in wanted : bound' <= c
         /\ UNCHANGED <<wanted, verdict, value>>

\* The node is bounded: the value is within the tolerance of a valid bound.
Compute == /\ verdict = "open"
           /\ verdict' = "LP_bound_computed"
           /\ \A c \in wanted : value' < c + EtaDiff
           /\ UNCHANGED <<wanted, bound>>

\* The node is pruned: it holds nothing better than the incumbent.
Prune == /\ verdict = "open"
         /\ wanted = {}
         /\ verdict' = "infeasible"
         /\ UNCHANGED <<wanted, bound, value>>

\* The iteration limit is hit: nothing is promised about the value.
GiveUp == /\ verdict = "open"
          /\ verdict' = "capped"
          /\ UNCHANGED <<wanted, bound>>

Next == Raise \/ Compute \/ Prune \/ GiveUp

Spec == Init /\ [][Next]_vars
==============================================================================
