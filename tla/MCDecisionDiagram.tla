--------------------------- MODULE MCDecisionDiagram ---------------------------
EXTENDS DecisionDiagram, Preprocessed

MCInstances ==
  {Preprocess(<<Job(1, 2, 1), Job(1, 2, 1), Job(1, 2, 1)>>, 1),
   Preprocess(<<Job(1, 2, 1), Job(2, 1, 1), Job(2, 2, 1)>>, 1),
   Preprocess(<<Job(2, 2, 1), Job(2, 2, 2), Job(1, 3, 1)>>, 2)}
================================================================================
