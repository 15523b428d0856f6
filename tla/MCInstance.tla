------------------------------- MODULE MCInstance -------------------------------
(***************************************************************************)
(* Every instance of two jobs with small data on one and two machines,     *)
(* instances of three jobs, and instances of four jobs whose order changes *)
(* within an interval between two due dates.                               *)
(***************************************************************************)
EXTENDS Instance

Line(p, d, w) == [p |-> p, d |-> d, w |-> w]
Lines(P, D, W) == {Line(p, d, w) : p \in P, d \in D, w \in W}
Small == {[m |-> m, lines |-> <<x, y>>] : m \in {1, 2}, x \in Lines(1 .. 3, 0 .. 4, {1, 3}),
                                          y \in Lines({1, 2, 4}, {1, 3}, {1, 2})}
Three == {[m |-> m, lines |-> <<x, y, z>>] : m \in {1, 2}, x \in Lines({1, 2}, {1, 4}, {1, 2}),
            y \in Lines({2, 3}, {1, 4}, {2, 3}), z \in Lines({3, 5}, {2, 6}, {1, 5})}
Four == {[m |-> 1, lines |-> <<Line(1, 6, 1), Line(2, 4, 3), Line(4, 3, 3), Line(5, 2, 4)>>],
         [m |-> 1, lines |-> <<Line(3, 7, 2), Line(3, 1, 5), Line(5, 2, 1), Line(5, 2, 3)>>]}
MCFiles == Small \cup Three \cup Four
================================================================================
