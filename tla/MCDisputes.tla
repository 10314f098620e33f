------------------------------ MODULE MCDisputes ------------------------------
(***************************************************************************)
(* TLC instances of TaskDisputes: a disputed task of one or two workers.   *)
(***************************************************************************)
EXTENDS DisputeProperties

CONSTANTS w1, w2

MCWorkers == {w1, w2}
OneWorker == {w1}

NoDiscount == {0}
AllCreditable == {Legs}

=============================================================================
