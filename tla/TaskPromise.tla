----------------------------- MODULE TaskPromise -----------------------------
(***************************************************************************)
(* What an escrowed task promises, without claims accounts, counters,      *)
(* clocks or fees: a prize is set aside, workers engage for it, and the    *)
(* prize leaves the pot only for work done, for removing a worker that     *)
(* walked away, or once, at the end.  TaskLifecycle implements it.         *)
(***************************************************************************)
EXTENDS Integers

CONSTANTS
  Workers,
  Prize,    \* what the creator set aside
  Bounty    \* the most that removing an absent worker costs

VARIABLES
  running,     \* the task is not settled
  reviewed,    \* somebody other than the worker judges the work
  pot,         \* what is left of the prize
  engagement,  \* "none", "working", "delivered" or "contested"
  jobs         \* jobs the worker was paid for

promiseVars == <<running, reviewed, pot, engagement, jobs>>

Init ==
  /\ running = TRUE /\ reviewed \in BOOLEAN /\ pot = Prize
  /\ engagement = [w \in Workers |-> "none"]
  /\ jobs = [w \in Workers |-> 0]

Move(w, from, to) ==
  /\ engagement[w] \in from
  /\ engagement' = [engagement EXCEPT ![w] = to]

\* The rules may only change while nobody is engaged, and never back.
Review ==
  /\ running /\ \A w \in Workers : engagement[w] = "none"
  /\ reviewed' = TRUE
  /\ UNCHANGED <<running, pot, engagement, jobs>>

Engage(w) ==
  /\ running /\ Move(w, {"none"}, "working")
  /\ UNCHANGED <<running, reviewed, pot, jobs>>

Deliver(w) ==
  /\ running /\ reviewed /\ Move(w, {"working"}, "delivered")
  /\ UNCHANGED <<running, reviewed, pot, jobs>>

\* The work is sent back, or its rejection is contested.
SendBack(w) ==
  /\ running
  /\ Move(w, {"delivered"}, "working") \/ Move(w, {"delivered"}, "contested")
  /\ UNCHANGED <<running, reviewed, pot, jobs>>

\* A worker is paid for one engagement, once, out of the pot; the last payment
\* settles the task and what is left of the pot goes back.
PayFor(w) ==
  /\ running
  /\ Move(w, IF reviewed THEN {"delivered", "contested"} ELSE {"working"}, "none")
  /\ jobs' = [jobs EXCEPT ![w] = @ + 1]
  /\ \/ running' = TRUE /\ pot' \in 0..pot
     \/ running' = FALSE /\ pot' = 0
  /\ UNCHANGED reviewed

\* Delivered work is refused without any payment out of the pot.
Refuse(w) ==
  /\ running /\ Move(w, {"delivered"}, "none")
  /\ UNCHANGED <<running, reviewed, pot, jobs>>

\* A worker that did not deliver is removed for at most the bounty.
Remove(w) ==
  /\ running /\ Move(w, {"working"}, "none")
  /\ pot' \in 0..pot /\ pot - pot' <= Bounty
  /\ UNCHANGED <<running, reviewed, jobs>>

\* The creator ends the task: no delivered work may be under review.
CallOff ==
  /\ running
  /\ \A w \in Workers : engagement[w] # "delivered"
  /\ running' = FALSE /\ pot' = 0
  /\ engagement' = [w \in Workers |-> "none"]
  /\ UNCHANGED <<reviewed, jobs>>

\* After the end engagements are only wound up, for nothing.
WindUp(w) ==
  /\ ~running /\ Move(w, {"working", "delivered"}, "none")
  /\ UNCHANGED <<running, reviewed, pot, jobs>>

Next ==
  \/ Review \/ CallOff
  \/ \E w \in Workers :
       \/ Engage(w) \/ Deliver(w) \/ SendBack(w) \/ PayFor(w)
       \/ Refuse(w) \/ Remove(w) \/ WindUp(w)

Spec == Init /\ [][Next]_promiseVars

=============================================================================
