----------------------------- MODULE MCColumnPool -----------------------------
(***************************************************************************)
(* A root and a child, three job lists and five schedules of them: two     *)
(* pairs of schedules are equal.                                           *)
(***************************************************************************)
EXTENDS ColumnPool

MCNode == {"root", "child"}
MCPath == 1 .. 3
MCSet == {11, 12, 21, 22, 31}
MCKey(s) == s \div 10
==============================================================================
