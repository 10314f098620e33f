---------------------------- MODULE TaskProperties ----------------------------
(***************************************************************************)
(* What a task promises its creator, its workers and the protocol: the     *)
(* properties of TaskLifecycle.                                            *)
(***************************************************************************)
EXTENDS TaskLifecycle, Functions

SubmissionStates == {"none", "Submitted", "Rejected"}

Submitted == {w \in Workers : submission[w] = "Submitted"}

(***************************************************************************)
(* Invariants.                                                             *)
(***************************************************************************)

\* Every account field keeps its type; in particular no u8 or u64 counter
\* underflows and nothing but a worker's claim holds an entry deposit.
TypeOK ==
  /\ now \in Nat /\ deadline \in Nat
  /\ status \in Statuses
  /\ mode \in {"Auto"} \cup Manual
  /\ config_open \in BOOLEAN /\ hire_open \in BOOLEAN /\ escrow_open \in BOOLEAN
  /\ current_workers \in Nat /\ completions \in Nat
  /\ live_submissions \in Nat /\ pending \in Nat
  /\ claim_generation \in Nat
  /\ claims \subseteq Workers /\ deposited \subseteq claims
  /\ expires_at \in [Workers -> Nat]
  /\ active_tasks \in [Workers -> Nat] /\ tasks_completed \in [Workers -> Nat]
  /\ submission \in [Workers -> SubmissionStates]
  /\ submission_count \in [Workers -> Nat]
  /\ review_deadline_at \in [Workers -> Nat] /\ rejected_at \in [Workers -> Nat]
  /\ escrow_lamports \in Nat /\ distributed \in Nat
  /\ bonds \subseteq Workers \cup {"creator"}
  /\ wallet \in [Parties -> Int]

\* The counters the instructions maintain by hand agree with the accounts that
\* exist: task.current_workers with the live claims, both live-submission
\* counters with the submissions under review, and each agent's active_tasks
\* with its claim.  Guards of every settlement and cleanup trust them, and a
\* drift would strand claims, brick close_task or split a contest wrongly.
CountersAgree ==
  /\ current_workers = Cardinality(claims)
  /\ live_submissions = Cardinality(Submitted)
  /\ pending = live_submissions
  /\ Submitted \subseteq claims
  /\ \A w \in Workers : active_tasks[w] = IF w \in claims THEN 1 ELSE 0

\* The status is what the accounts say: an Open task has no claim, only a
\* PendingValidation task has results under review unless it is Completed with
\* Collaborative stragglers, and a frozen task has its one bounced claim.
StatusMatchesWork ==
  /\ status = "Open" => claims = {}
  /\ status = "PendingValidation" <=> Submitted # {} /\ status # "Completed"
  /\ status = "InProgress" /\ IsManual => claims # {}
  /\ status = "RejectFrozen" => \E w \in Workers :
        claims = {w} /\ submission[w] = "Rejected"
  /\ status = "Completed" /\ Submitted # {} => TaskType = "Collaborative"
  /\ Submitted # {} => IsManual /\ config_open

\* The escrow account is open until the task is terminal, and until then it
\* holds its rent and exactly the reward not yet distributed: no instruction
\* pays out lamports that escrow.distributed does not account for.
EscrowBacked ==
  /\ escrow_open <=> status \notin Terminal
  /\ escrow_open => /\ distributed <= Reward
                    /\ escrow_lamports = EscrowRent + Reward - distributed
  /\ ~escrow_open => escrow_lamports = 0

\* A worker's completion bond lives no longer than its claim, and no bond
\* outlives the task: a later claim never meets the bond of an earlier one.
BondsHaveOwners ==
  /\ bonds \cap Workers \subseteq claims
  /\ status \in Terminal => bonds = {}

\* Every claim a terminal step leaves behind satisfies reclaim_terminal_claim.
NoClaimStranded ==
  status \in Terminal =>
    \A w \in claims :
      \/ submission[w] # "Submitted"
      \/ status = "Completed" /\ TaskType = "Collaborative" /\ config_open

\* Lamports are only ever moved: what the parties hold, the escrow, the bonds
\* and the entry deposits always add up to what the task started with.
LamportsConserved ==
  SumFunction(wallet) + escrow_lamports + BondAmount * Cardinality(bonds)
    + EntryDeposit * Cardinality(deposited) = 0

(***************************************************************************)
(* Action properties.                                                      *)
(***************************************************************************)

\* After the terminal step no completion is recorded and nothing is paid out
\* of the escrow again, whoever cranks the task.
TerminalIsFinal ==
  [][(status \in Terminal) =>
       /\ status' = status /\ completions' = completions
       /\ escrow_lamports' = 0 /\ distributed' = distributed
       /\ tasks_completed' = tasks_completed]_vars

\* A creator who let the selection window of a contest pass gets nothing of
\* the prize back while entries are live, only the escrow's rent.
NoClawbackAfterGhost ==
  [][status = "PendingValidation" /\ Contest /\ now >= GhostAt =>
       /\ wallet'["creator"] <= wallet["creator"] + EscrowRent
       /\ status' \in {"PendingValidation", "Completed"}]_vars

\* A submitted result leaves review without payment only by a verdict the
\* review mode grants to the creator or the attestor, before a contest's ghost
\* boundary, or because the Collaborative slots were filled by others.
SubmittedWorkIsJudged ==
  [][\A w \in Workers :
       w \in Submitted /\ w \notin Submitted' /\ tasks_completed'[w] = tasks_completed[w]
         => \/ status = "PendingValidation" /\ (Contest => now < GhostAt)
            \/ status = "Completed" /\ TaskType = "Collaborative"]_vars

\* A worker whose bond does not come back was a no-show (its claim or the
\* deadline is past and it has no result under review) or lost a frozen
\* dispute.
BondLostOnlyByNoShow ==
  [][\A w \in bonds \cap Workers :
       w \notin bonds' /\ wallet'[w] < wallet[w] + BondAmount /\ BondAmount > 0
         => \/ /\ submission[w] # "Submitted"
               /\ now > expires_at[w] \/ DeadlinePassed
            \/ status = "RejectFrozen" /\ status' = "Cancelled"]_vars

\* Changes requested from a worker leave it the full review window: its claim
\* is not removed before, unless a peer's completion ended the task.
ResubmitWindowHonoured ==
  [][\A w \in claims :
       submission[w] = "Rejected" /\ w \notin claims' /\ mode = "CreatorReview"
         => \/ status \in Terminal \cup {"RejectFrozen"}
            \/ now > rejected_at[w] + ReviewWindow]_vars

LegFeeBps(leg) == IF leg = "operator" THEN OperatorFeeBps ELSE ReferrerFeeBps

\* Every settlement pays the operator and the referrer their fee on what it
\* releases, unless the payee cannot be credited: the attested settlement,
\* which passes no marketplace legs, is never reached by a task that has one.
LegsNeverSkipped ==
  [][tasks_completed' # tasks_completed =>
       \E creditable \in CreditableLegs : \A leg \in Legs :
         wallet'[leg] - wallet[leg] =
           IF leg \in creditable
           THEN Portion(distributed' - distributed, LegFeeBps(leg)) ELSE 0]_vars

(***************************************************************************)
(* Liveness.                                                               *)
(***************************************************************************)

\* No claim is kept forever: without the creator or any authority acting, a
\* worker's slot, rent and agent budget come back.  Under ExternalAttestation
\* only the attestor can answer a result.
ClaimsAreReleased ==
  \A w \in Workers :
    w \in claims /\ mode # "ExternalAttestation" ~> w \notin claims

\* A submitted result is answered: it is paid, or a verdict sends it back.
SubmissionsAreAnswered ==
  \A w \in Workers : w \in Submitted ~> w \notin Submitted

\* A frozen task thaws even if no authority ever rules.
FreezesEnd == status = "RejectFrozen" ~> status \in Terminal

(***************************************************************************)
(* Refinement: the program keeps the abstract promise.                     *)
(***************************************************************************)
Engagement ==
  [w \in Workers |->
     IF w \notin claims THEN "none"
     ELSE IF submission[w] = "Submitted" THEN "delivered"
     ELSE IF status = "RejectFrozen" THEN "contested"
     ELSE "working"]

Promise ==
  INSTANCE TaskPromise WITH
    Prize <- Reward, Bounty <- CleanupReward,
    running <- status \notin Terminal,
    reviewed <- IsManual,
    pot <- IF escrow_open THEN Reward - distributed ELSE 0,
    engagement <- Engagement,
    jobs <- tasks_completed

\* Every step of the program is a step of TaskPromise: the prize leaves the
\* escrow only for judged work, for cleanup, or at the single final step, and
\* each engagement is paid at most once.
PromiseKept == Promise!Spec

=============================================================================
