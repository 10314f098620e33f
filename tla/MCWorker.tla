------------------------------ MODULE MCWorker ------------------------------
(***************************************************************************)
(* Small instances of Worker.                                              *)
(***************************************************************************)
EXTENDS Worker, TLC

CONSTANTS t1, t2, h1

OneTask == {t1}
TwoTasks == {t1, t2}
OneHash == {h1}
NoTask == {}
Symmetry == Permutations(Tasks)

=============================================================================
