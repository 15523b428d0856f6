----------------------------- MODULE MCLocalSearch -----------------------------
EXTENDS LocalSearch, Preprocessed

Uncut(I) == IF IsUncut(I[1], I[2]) THEN {Preprocess(I[1], I[2])} ELSE {}

LostInstance == Uncut(<<<<Job(1, 1, 2), Job(1, 6, 1), Job(2, 6, 3), Job(6, 6, 4), Job(1, 23, 2),
                          Job(6, 26, 5)>>, 2>>)
MCInstances ==
  Uncut(<<<<Job(1, 1, 2), Job(2, 2, 3), Job(3, 4, 1), Job(2, 5, 2), Job(3, 6, 3), Job(1, 7, 2)>>, 2>>)
    \cup Uncut(<<<<Job(1, 1, 1), Job(1, 2, 2), Job(2, 2, 3), Job(2, 2, 1), Job(1, 3, 2), Job(2, 3, 2),
                   Job(3, 4, 1), Job(2, 6, 1), Job(1, 8, 2)>>, 3>>)
MCPerturbations == {<<1, 2>>, <<2, 2>>}
================================================================================
