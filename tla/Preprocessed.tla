----------------------------- MODULE Preprocessed -----------------------------
(***************************************************************************)
(* Instances as Instance leaves them, for the runs of the components that  *)
(* start from one; the intervals are those between due dates, of which     *)
(* none is to be cut.                                                      *)
(***************************************************************************)
LOCAL State(js, cs, ivs) == INSTANCE Instance WITH
  Files <- {}, pc <- "done", file <- 0, jobs <- js, off <- 0, hmax <- 0, hmin <- 0,
  coarse <- cs, pairs <- {}, cuts <- <<>>, intervals <- ivs

LOCAL None == <<>>

Job(p, d, w) == [p |-> p, d |-> d, w |-> w]

InOrder(js) == State(js, None, None)!InOrder(js)
Coarse(js, m) == State(js, None, None)!CoarseIntervals(js, State(js, None, None)!HorizonOf(js, m))

\* No pair of jobs is special in any interval.
IsUncut(js, m) ==
  LET ordered == InOrder(js)
      cs == Coarse(ordered, m)
  IN  \A k \in DOMAIN cs : State(ordered, None, None)!SpecialPairs(cs[k].a, cs[k].b) = {}

Preprocess(js, m) ==
  LET ordered == InOrder(js)
      cs == Coarse(ordered, m)
      ivs == [k \in DOMAIN cs |-> [a |-> cs[k].a, b |-> cs[k].b,
                                   sigma |-> State(ordered, None, None)!Sigma(cs[k].a, cs[k].b)]]
  IN  [jobs |-> ordered, m |-> m, hmin |-> State(ordered, cs, ivs)!LeastLoad(ordered, m),
       intervals |-> ivs, layers |-> State(ordered, cs, ivs)!Layers]
================================================================================
