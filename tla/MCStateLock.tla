----------------------------- MODULE MCStateLock -----------------------------
(***************************************************************************)
(* TLC instances of StateLock: up to four processes, one or two calls.     *)
(***************************************************************************)
EXTENDS StateLock, TLC

CONSTANTS p1, p2, p3, p4

ThreeProcesses == {p1, p2, p3}
FourProcesses == {p1, p2, p3, p4}
Nobody == {}
OneReused == {p1}
Symmetry == Permutations(Processes)

NeverFails == {TRUE}

=============================================================================
