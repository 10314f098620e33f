----------------------------- MODULE TaskDisputes -----------------------------
(***************************************************************************)
(* A task whose parties may dispute it: TaskLifecycle, and the instructions *)
(* that open a dispute, withdraw it, rule on it, let it expire, settle the *)
(* claims it left behind and slash the stake of whoever lost.  A dispute   *)
(* freezes the task: every exit of TaskLifecycle is closed until it ends,  *)
(* while deadlines, claim expiries and review windows keep running.        *)
(*                                                                         *)
(* A ruling is the resolver's word against the clock; its two outcomes are *)
(* nondeterministic.  The stake at risk is that of an agent's registration, *)
(* which its owner may take back by deregistering.  Contests are left out: *)
(* one that is configured for review carries no disputes.                  *)
(***************************************************************************)
EXTENDS TaskLifecycle, Sequences

CONSTANTS
  Stake,              \* what every agent registered with
  MinDisputeStake,    \* config.min_stake_for_dispute
  SlashPercentage,    \* config.slash_percentage
  VotingPeriod,       \* a resolver acts this long, with the grace below
  VotingGrace,        \* Dispute::VOTING_DEADLINE_GRACE
  MaxDisputeDuration, \* and in any case no longer than this
  SlashWindow,        \* a lost ruling is slashed no later than this
  MaxDisputes,        \* bound: disputes ever opened on the task
  MaxDepartures       \* bound: agents that deregister

\* The registrations that may open a dispute: the workers' and the creator's.
Agents == Workers \cup {"creator"}

Resolutions == {"Refund", "Complete", "Split"}

ASSUME DisputeAssumption ==
  /\ Stake \in Nat /\ MinDisputeStake \in Nat /\ SlashPercentage \in 0..100
  /\ VotingPeriod \in Nat \ {0} /\ VotingGrace \in Nat
  /\ MaxDisputeDuration \in Nat \ {0} /\ SlashWindow \in Nat
  /\ MaxDisputes \in Nat /\ MaxDepartures \in Nat
  /\ TaskType # "Competitive"

VARIABLES
  disputes,      \* the Dispute accounts of the task, in the order opened
  as_defendant,  \* agent.disputes_as_defendant
  outcomes_due,  \* agent.active_dispute_votes: outcomes not yet finalized
  stake,         \* agent.stake
  registered,    \* the agents that have not deregistered
  slash_pending, \* task.worker_slash_pending
  peers_pending, \* task.peer_settlement_pending
  review_debt    \* validation_config.review_debt_secs

disputeVars == <<disputes, as_defendant, outcomes_due, stake, registered,
                 slash_pending, peers_pending, review_debt>>
allVars == <<vars, disputeVars>>

DisputeInit ==
  /\ Init
  /\ disputes = <<>>
  /\ as_defendant = [a \in Agents |-> 0] /\ outcomes_due = [a \in Agents |-> 0]
  /\ stake = [a \in Agents |-> Stake] /\ registered = Agents
  /\ slash_pending = FALSE /\ peers_pending = FALSE
  /\ review_debt = 0

(***************************************************************************)
(* The windows of a dispute.                                               *)
(***************************************************************************)
ResolutionOpen(d) ==
  /\ now <= d.created_at + MaxDisputeDuration
  /\ now < d.created_at + VotingPeriod + VotingGrace

ExpiryOpen(d) ==
  \/ now > d.created_at + MaxDisputeDuration
  \/ now >= d.created_at + VotingPeriod + VotingGrace

Ended(d) == d.status \in {"Resolved", "Expired", "Cancelled"}
WorkerLost(d) == d.approved /\ d.resolution = "Refund"
InitiatorLost(d) ==
  d.status = "Cancelled" \/ (d.status = "Resolved" /\ ~d.approved)

\* The i-th Dispute account is rewritten.
Update(i, d) == disputes' = [disputes EXCEPT ![i] = d]

(***************************************************************************)
(* initiate_dispute: the creator against a worker with a claim, or a worker *)
(* that has delivered, about its own result.                               *)
(***************************************************************************)
MayInitiate(a, w) ==
  \/ a = "creator" /\ stake[a] >= 2 * MinDisputeStake
  \/ /\ a = w /\ stake[a] >= MinDisputeStake
     /\ expires_at[w] > now /\ submission[w] = "Submitted"

InitiateDispute(a, w, resolution) ==
  /\ Len(disputes) < MaxDisputes /\ now <= ActivityHorizon
  /\ a \in registered /\ w \in claims
  /\ status \in {"InProgress", "PendingValidation"} /\ current_workers > 0
  /\ MayInitiate(a, w)
  /\ status' = "Disputed"
  /\ disputes' = Append(disputes,
       [status |-> "Active", initiator |-> a, defendant |-> w,
        resolution |-> resolution, approved |-> FALSE,
        created_at |-> now, resolved_at |-> 0, worker_stake |-> stake[w],
        pending_terminal |-> "none", peers |-> 0,
        slash_applied |-> FALSE, initiator_slash_applied |-> FALSE])
  /\ as_defendant' = [as_defendant EXCEPT ![w] = @ + 1]
  /\ outcomes_due' = [outcomes_due EXCEPT ![a] = @ + 1]
  /\ UNCHANGED <<now, taskVars, counterVars, claimVars, submissionVars,
                 escrowVars, bonds, wallet, stake, registered, slash_pending,
                 peers_pending, review_debt>>

\* restore_status_after_dispute_cancel: what the frozen counters say.
RestoredStatus ==
  IF live_submissions > 0 THEN "PendingValidation"
  ELSE IF current_workers > 0 THEN "InProgress"
  ELSE "Open"

\* The creator could not review while the task was disputed: the time is added
\* to every review deadline.
ReviewDebt_Never(d) == 0
ReviewDebt(d) == IF RestoredStatus = "PendingValidation" THEN now - d.created_at ELSE 0

\* cancel_dispute: the initiator withdraws, and is counted as the loser.
CancelDispute(i) ==
  LET d == disputes[i]
  IN /\ now <= ActivityHorizon
     /\ d.status = "Active"
     /\ Update(i, [d EXCEPT !.status = "Cancelled", !.resolved_at = now])
     /\ status' = IF status = "Disputed" THEN RestoredStatus ELSE status
     /\ review_debt' = review_debt + IF status = "Disputed" THEN ReviewDebt(d) ELSE 0
     /\ as_defendant' = [as_defendant EXCEPT ![d.defendant] = Dec(@)]
     /\ UNCHANGED <<now, taskVars, counterVars, claimVars, submissionVars,
                    escrowVars, bonds, wallet, outcomes_due, stake, registered,
                    slash_pending, peers_pending>>

(***************************************************************************)
(* What a ruling and an expiry share: the escrow is closed, the review of  *)
(* the defendant's result ends, its claim is closed unless its stake is to *)
(* be slashed first, and the other workers' claims are left to be settled  *)
(* one by one.                                                             *)
(***************************************************************************)
SweepSubmission(w) ==
  /\ IF submission[w] = "Submitted" THEN LeaveReview
     ELSE UNCHANGED <<pending, live_submissions>>
  /\ CloseSubmission(w)

\* A worker that lost keeps its claim, slot and liability for the slash.
ReleaseDefendant_Always(w, lost) ==
  /\ active_tasks' = [active_tasks EXCEPT ![w] = Dec(@)]
  /\ as_defendant' = [as_defendant EXCEPT ![w] = Dec(@)]
  /\ IF lost THEN UNCHANGED claimVars ELSE CloseClaim(w)

ReleaseDefendant(w, lost) ==
  IF lost THEN UNCHANGED <<active_tasks, as_defendant, claimVars>>
  ELSE /\ active_tasks' = [active_tasks EXCEPT ![w] = Dec(@)]
       /\ as_defendant' = [as_defendant EXCEPT ![w] = Dec(@)]
       /\ CloseClaim(w)

EndDispute(i, d, terminal) ==
  LET w == d.defendant
      lost == WorkerLost(d)
      peers == Dec(current_workers)
  IN /\ Update(i, [d EXCEPT !.status = IF peers = 0 THEN terminal ELSE "SettlementPending",
                            !.pending_terminal = terminal, !.peers = peers,
                            !.resolved_at = now])
     /\ peers_pending' = (peers > 0)
     /\ slash_pending' = lost
     /\ current_workers' = peers + IF lost THEN 1 ELSE 0
     /\ ReleaseDefendant(w, lost)
     /\ SweepSubmission(w)
     /\ ReleaseBonds(w)
     /\ escrow_open' = FALSE /\ escrow_lamports' = 0
     /\ UNCHANGED <<now, taskVars, completions, outcomes_due, stake, registered,
                    review_debt>>

\* completion_bond_forfeit_sides: Complete is the creator's fault, Refund the
\* worker's, and the bonds of the party at fault go to the treasury.
BondsAfterRuling(d) ==
  IF d.approved /\ d.resolution = "Complete"
  THEN Both(Forfeit("creator", "treasury"), Refund(d.defendant))
  ELSE Both(Refund("creator"),
            IF WorkerLost(d) THEN Forfeit(d.defendant, "treasury")
            ELSE Refund(d.defendant))

\* The worker's part of what the escrow still owes.
AwardOf(d) ==
  LET owed == Reward - distributed
  IN CASE d.approved /\ d.resolution = "Complete" -> owed
       [] d.approved /\ d.resolution = "Split" -> owed \div 2
       [] OTHER -> 0

\* resolve_dispute: upheld, the resolution asked for is carried out; turned
\* down, the creator is refunded.  No protocol fee is taken.
ResolveDispute(i, approved, terms) ==
  LET d == [disputes[i] EXCEPT !.approved = approved]
      award == AwardOf(d)
      feeless == [terms EXCEPT !.protocol = 0]
      s == SplitOf(award, feeless)
      completes == approved /\ d.resolution = "Complete"
  IN /\ d.status = "Active" /\ status = "Disputed"
     /\ ResolutionOpen(d)
     /\ distributed <= Reward
     /\ award > 0 => WithinCaps(feeless)
     /\ status' = IF completes THEN "Completed" ELSE "Cancelled"
     /\ distributed' = Reward
     /\ tasks_completed' =
          [tasks_completed EXCEPT ![d.defendant] = @ + IF completes THEN 1 ELSE 0]
     /\ Receive(Both(Both(PayOut(d.defendant, s), Pay("creator", escrow_lamports - award)),
                     BondsAfterRuling(d)))
     /\ EndDispute(i, d, "Resolved")

\* expiry_no_show_penalty_allowed: the claim is past and nothing was delivered.
NoShow_ClaimOnly(w) == now > expires_at[w]
NoShow(w) == now > expires_at[w] /\ submission[w] = "none"

\* expire_dispute: nobody ruled in time; the creator is refunded, and only a
\* no-show loses its bond.
ExpireDispute(i) ==
  LET d == disputes[i]
      w == d.defendant
      fault == TaskType = "Exclusive" /\ NoShow(w)
  IN /\ d.status = "Active" /\ status = "Disputed"
     /\ ExpiryOpen(d)
     /\ distributed <= Reward
     /\ status' = "Cancelled"
     /\ Receive(Both(Pay("creator", escrow_lamports),
                     Both(Refund("creator"),
                          IF fault THEN Forfeit(w, "creator") ELSE Refund(w))))
     /\ EndDispute(i, d, "Expired")
     /\ UNCHANGED <<distributed, tasks_completed>>

\* settle_dispute_claim: one more worker of the disputed task is released; the
\* last one ends the dispute.
SettleDisputeClaim(i, w) ==
  LET d == disputes[i]
      last == d.peers = 1
  IN /\ d.status = "SettlementPending" /\ d.peers > 0
     /\ w \in claims /\ w # d.defendant
     /\ current_workers > 0
     /\ current_workers' = current_workers - 1
     /\ active_tasks' = [active_tasks EXCEPT ![w] = Dec(@)]
     /\ SweepSubmission(w) /\ CloseClaim(w)
     /\ Update(i, [d EXCEPT !.peers = @ - 1,
                            !.status = IF last THEN d.pending_terminal ELSE @])
     /\ peers_pending' = (peers_pending /\ ~last)
     /\ UNCHANGED <<now, status, taskVars, completions, tasks_completed,
                    escrowVars, bonds, wallet, as_defendant, outcomes_due, stake,
                    registered, slash_pending, review_debt>>

(***************************************************************************)
(* The permissionless finalizers of a decided dispute.                     *)
(***************************************************************************)
SlashOf(at_risk, current) ==
  LET amount == (at_risk * SlashPercentage) \div 100
  IN IF amount < current THEN amount ELSE current

\* apply_dispute_slash: the worker that lost is slashed, or after the slash
\* window only released.
ApplyDisputeSlash(i) ==
  LET d == disputes[i]
      w == d.defendant
      amount == IF now <= d.resolved_at + SlashWindow
                THEN SlashOf(d.worker_stake, stake[w]) ELSE 0
  IN /\ d.status = "Resolved" /\ WorkerLost(d)
     /\ slash_pending /\ ~d.slash_applied
     /\ w \in claims
     /\ stake' = [stake EXCEPT ![w] = @ - amount]
     /\ Receive(Pay("treasury", amount))
     /\ Update(i, [d EXCEPT !.slash_applied = TRUE])
     /\ as_defendant' = [as_defendant EXCEPT ![w] = Dec(@)]
     /\ SaturatingRelease(w) /\ CloseClaim(w)
     /\ slash_pending' = FALSE
     /\ UNCHANGED <<now, status, taskVars, completions, live_submissions, pending,
                    tasks_completed, submissionVars, escrowVars, bonds,
                    outcomes_due, registered, peers_pending, review_debt>>

\* apply_initiator_slash: the outcome of a dispute reaches its initiator, once.
ApplyInitiatorSlash(i) ==
  LET d == disputes[i]
      a == d.initiator
      amount == IF InitiatorLost(d) THEN SlashOf(stake[a], stake[a]) ELSE 0
  IN /\ Ended(d) /\ ~d.initiator_slash_applied
     /\ outcomes_due[a] > 0
     /\ stake' = [stake EXCEPT ![a] = @ - amount]
     /\ Receive(Pay("treasury", amount))
     /\ Update(i, [d EXCEPT !.initiator_slash_applied = TRUE])
     /\ outcomes_due' = [outcomes_due EXCEPT ![a] = @ - 1]
     /\ UNCHANGED <<now, status, taskVars, counterVars, claimVars, submissionVars,
                    escrowVars, bonds, as_defendant, registered, slash_pending,
                    peers_pending, review_debt>>

\* deregister_agent: an agent that owes nothing takes its stake back for good.
\* Bound: only MaxDepartures agents that were party to a dispute do.
OwesNothing_Initiates(a) ==
  as_defendant[a] = 0 /\ (a \in Workers => active_tasks[a] = 0)

OwesNothing(a) ==
  /\ as_defendant[a] = 0 /\ outcomes_due[a] = 0
  /\ a \in Workers => active_tasks[a] = 0

DeregisterAgent(a) ==
  /\ a \in registered /\ OwesNothing(a)
  /\ Cardinality(Agents \ registered) < MaxDepartures
  /\ \E i \in DOMAIN disputes : a \in {disputes[i].initiator, disputes[i].defendant}
  /\ registered' = registered \ {a}
  /\ stake' = [stake EXCEPT ![a] = 0]
  /\ Receive(Pay(a, stake[a]))
  /\ UNCHANGED <<now, status, taskVars, counterVars, claimVars, submissionVars,
                 escrowVars, bonds, disputes, as_defendant, outcomes_due,
                 slash_pending, peers_pending, review_debt>>

-----------------------------------------------------------------------------
(***************************************************************************)
(* The instructions of TaskLifecycle on a task that may be disputed: the   *)
(* guards below are theirs, and hold trivially where there is no dispute.  *)
(***************************************************************************)
Undisputed(A) == A /\ UNCHANGED disputeVars

\* validate_terminal_claim_not_dispute_reserved.
Reserved_Never == FALSE
Reserved == slash_pending \/ peers_pending

\* auto_accept_task_result pays the creator's lost review time back.
ReviewDebtPaid(w) == now >= review_deadline_at[w] + review_debt

OwnerStep ==
  \/ \E m \in ManualModes : Undisputed(ConfigureTaskValidation(m))
  \/ Undisputed(CancelTask)
  \/ Undisputed(PostCreatorBond)
  \/ \E sweepConfig \in BOOLEAN, swept \in SUBSET Workers :
       ~slash_pending /\ Undisputed(CloseTask(sweepConfig, swept))

AgentStep(w) ==
  \/ w \in registered /\ Undisputed(ClaimTask(w))
  \/ Undisputed(SubmitTaskResult(w))
  \/ \E terms \in Terms : Undisputed(CompleteTask(w, terms))
  \/ Undisputed(PostWorkerBond(w))
  \/ Undisputed(ExpireClaim(w, w))

DisputeCrank(w) ==
  \/ \E terms \in Terms :
       \/ ReviewDebtPaid(w) /\ Undisputed(AutoAcceptTaskResult(w, terms))
       \/ Undisputed(ExpireRejectFrozen(w, terms))
  \/ Undisputed(ExpireClaim(w, "cranker"))
  \/ ~Reserved /\ current_workers > 0 /\ Undisputed(ReclaimTerminalClaim(w))

\* Steps that end a dispute and what it left behind; anyone may send them.
Unwinding(i) ==
  \/ ExpireDispute(i)
  \/ \E w \in Workers : SettleDisputeClaim(i, w)
  \/ ApplyDisputeSlash(i)
  \/ ApplyInitiatorSlash(i)

DisputeNext ==
  \/ Undisputed(Tick)
  \/ OwnerStep
  \/ \E w \in Workers : Undisputed(ReviewStep(w)) \/ AgentStep(w) \/ DisputeCrank(w)
  \/ \E a \in Agents, w \in Workers, r \in Resolutions : InitiateDispute(a, w, r)
  \/ \E i \in DOMAIN disputes :
       \/ CancelDispute(i)
       \/ \E approved \in BOOLEAN, terms \in Terms : ResolveDispute(i, approved, terms)
       \/ Unwinding(i)
  \/ \E a \in Agents : DeregisterAgent(a)

DisputeSpec == DisputeInit /\ [][DisputeNext]_allVars

\* Time passes and the permissionless cranks are sent.  No resolver ever rules
\* by necessity, and no party withdraws, submits or deregisters by necessity.
DisputeFairness ==
  /\ WF_allVars(Undisputed(Tick))
  /\ \A w \in Workers : WF_allVars(DisputeCrank(w))
  /\ \A i \in 1..MaxDisputes :
       WF_allVars(i \in DOMAIN disputes /\ Unwinding(i))
FairDisputeSpec == DisputeSpec /\ DisputeFairness

=============================================================================
