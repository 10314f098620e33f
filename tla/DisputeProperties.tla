--------------------------- MODULE DisputeProperties ---------------------------
(***************************************************************************)
(* What a dispute promises its parties: the properties of TaskDisputes.    *)
(* Of the lifecycle's own properties, CountersAgree is checked of the      *)
(* disputed task as well.                                                  *)
(***************************************************************************)
EXTENDS TaskDisputes, TaskProperties

Opened == DOMAIN disputes

\* A dispute still charged to the worker it was opened against: undecided, or
\* decided against it with the slash outstanding.
HeldAgainst(a) ==
  {i \in Opened :
     /\ disputes[i].defendant = a
     /\ \/ disputes[i].status = "Active"
        \/ WorkerLost(disputes[i]) /\ ~disputes[i].slash_applied}

\* A dispute whose outcome has not reached the agent that opened it.
OutcomesOf(a) ==
  {i \in Opened : disputes[i].initiator = a /\ ~disputes[i].initiator_slash_applied}

\* An agent's two dispute counters are the disputes it is answerable for, and
\* whoever is answerable for one is still registered with its stake: the
\* counters, kept by hand in six instructions, are all that deregister_agent
\* looks at, and a drift lets a loser leave with the stake or locks it in.
LiabilitiesAgree ==
  \A a \in Agents :
    /\ as_defendant[a] = Cardinality(HeldAgainst(a))
    /\ outcomes_due[a] = Cardinality(OutcomesOf(a))
    /\ as_defendant[a] + outcomes_due[a] > 0 => a \in registered

\* The disputes opened and withdrawn since the result of w was submitted to
\* the creator, and how long they kept the task from review.
FrozenSince(w) ==
  {i \in Opened : /\ disputes[i].status = "Cancelled"
                  /\ disputes[i].created_at >= review_deadline_at[w] - ReviewWindow}

FrozenTimes(w) ==
  [i \in FrozenSince(w) |-> disputes[i].resolved_at - disputes[i].created_at]

\* When a result may be accepted in the creator's silence, the creator has had
\* the task in its hands for a whole review window since the submission: time
\* spent disputed does not count, whoever opened and withdrew the disputes
\* (the review-clock debt of cancel_dispute and auto_accept_task_result).
ReviewTimeGivenBack ==
  \A w \in Submitted :
    status = "PendingValidation" /\ mode = "CreatorReview"
      /\ ReviewOverdue(w) /\ ReviewDebtPaid(w)
    => now >= review_deadline_at[w] + SumFunction(FrozenTimes(w))

\* Lamports are only ever moved: what the parties hold, the escrow, the bonds
\* and the stakes add up to what was there at the start, so a slash takes no
\* more than the stake, no bond is settled twice, and nothing of the escrow a
\* ruling divides is lost.
LamportsAndStakesConserved ==
  SumFunction(wallet) + escrow_lamports + BondAmount * Cardinality(bonds)
    + SumFunction(stake) = Stake * Cardinality(Agents)

\* The disputes a step decides against the worker w.
DecidedAgainst(w) ==
  \E i \in Opened :
    /\ disputes[i].status = "Active" /\ disputes[i].defendant = w
    /\ disputes'[i].status = "Resolved" /\ WorkerLost(disputes'[i])

\* A worker whose bond does not come back let its claim or the deadline run out
\* with nothing under review, or lost a ruling: a dispute that nobody ruled on,
\* or that was turned down, never costs a worker that delivered its bond.
BondLostForCause ==
  [][\A w \in bonds \cap Workers :
       w \notin bonds' /\ wallet'[w] < wallet[w] + BondAmount /\ BondAmount > 0
         => \/ /\ submission[w] # "Submitted"
               /\ now > expires_at[w] \/ DeadlinePassed
            \/ status = "RejectFrozen" /\ status' = "Cancelled"
            \/ DecidedAgainst(w)]_allVars

\* Everything a dispute set in motion is over.
Finalized(i) ==
  /\ i \in Opened
  /\ Ended(disputes[i]) /\ disputes[i].initiator_slash_applied
  /\ WorkerLost(disputes[i]) => disputes[i].slash_applied

\* Every dispute is seen through without resolver, initiator or defendant: it
\* ends, the claims it froze are settled and both agents' counters come back.
DisputesEnd == \A i \in 1..MaxDisputes : i \in Opened ~> Finalized(i)

=============================================================================
