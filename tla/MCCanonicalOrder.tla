--------------------------- MODULE MCCanonicalOrder ---------------------------
EXTENDS CanonicalOrder, Preprocessed

Jobs(P, D, W) == {j \in [p : P, d : D, w : W] : j.d >= j.p}
MCInstances ==
  {Preprocess(x[1], x[2]) : x \in {x \in
     {<<a, b, c, Job(3, 3, 2)>> : a \in Jobs({1}, {1, 3}, {2}), b \in Jobs({2, 3}, {3, 4}, {3}),
                                  c \in Jobs({1, 4}, {5, 7}, {1, 4})} \X {1, 2} : IsUncut(x[1], x[2])}}
================================================================================
