---------------------------- MODULE MCDiagramTables ----------------------------
EXTENDS DiagramTables, Preprocessed

BuildSpec == INSTANCE PricerConstruct

\* The specification of a preprocessed instance (PricerConstruct), by level.
FromInstance(I) ==
  LET n == Len(I.layers)
      at(x) == IF x \in Terminals THEN x ELSE <<n + 1 - x[1], x[2]>>
      child(s, taken) == at(BuildSpec!GetChild(I.jobs, I.layers, n + 1 - s[1], s[2], taken))
      below(S, l) == S \cup UNION {{child(s, FALSE), child(s, TRUE)} : s \in {s \in S : s[1] = n + 1 - l}}
      states == FoldLeft(below, {<<n, 0>>}, [l \in 1 .. n |-> l]) \ Terminals
  IN  [n |-> n, p |-> [l \in 1 .. n |-> I.jobs[I.layers[n + 1 - l].job].p], root |-> <<n, 0>>,
       lo |-> [s \in states |-> child(s, FALSE)], hi |-> [s \in states |-> child(s, TRUE)]]

\* Levels of jobs of length 1 in which the branches Z lead to the 0-terminal and
\* those of skip pass a level by.
States(n) == {s \in (1 .. n) \X (0 .. n - 1) : s[2] <= n - s[1]}
Levels(n, Z, skip) ==
  LET down(s, b) == LET l == s[1] - (IF <<s, b>> \in skip THEN 2 ELSE 1)
                    IN  IF <<s, b>> \in Z THEN Zero ELSE IF l <= 0 THEN One ELSE <<l, s[2] + b>>
  IN  [n |-> n, p |-> [l \in 1 .. n |-> 1], root |-> <<n, 0>>,
       lo |-> [s \in States(n) |-> down(s, 0)], hi |-> [s \in States(n) |-> down(s, 1)]]

Dead(n, k) == {W \X {0, 1} : W \in UNION {kSubset(i, States(n)) : i \in 0 .. k}}

\* Up to two dead states and one more branch to the 0-terminal; and up to one where
\* a row is complete long after it was made.
FourLevels == {Levels(4, D \cup A, {<<<<3, 0>>, 0>>}) :
                 D \in Dead(4, 2), A \in {{}} \cup {{a} : a \in States(4) \X {0, 1}}}
FiveLevels == {Levels(5, D, {<<<<4, 1>>, 1>>}) : D \in Dead(5, 1)}

MCSpecs ==
  {FromInstance(Preprocess(<<Job(1, 1, 1), Job(2, 1, 1), Job(2, 1, 1)>>, 1)),
   FromInstance(Preprocess(<<Job(2, 2, 1), Job(2, 2, 2), Job(1, 3, 1)>>, 2)),
   [n |-> 0, p |-> <<>>, root |-> One, lo |-> <<>>, hi |-> <<>>]}
  \cup FourLevels \cup FiveLevels
================================================================================
