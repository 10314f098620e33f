-------------------------------- MODULE MCTask --------------------------------
(***************************************************************************)
(* TLC instances of TaskLifecycle: two or three workers, small amounts, a *)
(* clock whose windows keep the order of the program's constants.          *)
(***************************************************************************)
EXTENDS TaskProperties

CONSTANTS w1, w2, w3

MCWorkers == {w1, w2}
MCThreeWorkers == {w1, w2, w3}

NoDiscount == {0}
AllCreditable == {Legs}
AnyCreditable == {{}, Legs}

=============================================================================
