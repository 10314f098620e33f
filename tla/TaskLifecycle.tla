---------------------------- MODULE TaskLifecycle ----------------------------
(***************************************************************************)
(* One agenc-coordination task from its creation to its terminal state:    *)
(* claims, submissions, review, settlement of the escrowed reward,         *)
(* completion bonds, contest entry deposits, and the permissionless cranks *)
(* that move a task on when a party goes silent.                           *)
(*                                                                         *)
(* Every action is one instruction of the Solana program.  Instructions    *)
(* are atomic: a failed require! rolls the whole transaction back, so a    *)
(* guard that does not hold leaves every variable unchanged.               *)
(*                                                                         *)
(* The task is SOL-denominated, has no parent task and is not disputed;    *)
(* a worker stands for an agent registration and its authority wallet.     *)
(*                                                                         *)
(* An operator named X_Mistake, just before an operator X, is a deliberate *)
(* mistake in X.  Nothing uses it: the runs check that a property fails    *)
(* when it takes the place of X.                                           *)
(***************************************************************************)
EXTENDS RewardSplit, FiniteSets

CONSTANTS
  Workers,             \* agents that may claim the task
  TaskType,            \* "Exclusive", "Collaborative" or "Competitive"
  Hired,               \* the task was minted by a hire from a listing
  InitialMode,         \* "Auto", or "CreatorReview" for humanless tasks
  ManualModes,         \* review modes the creator may configure
  MaxWorkers,          \* task.max_workers
  Reward,              \* task.reward_amount = escrow.amount
  EscrowRent,          \* rent-exempt minimum of the escrow account
  CleanupReward,       \* lamports paid for expiring a stale claim
  EntryDeposit,        \* contest entry deposit
  BondAmount,          \* completion bond, a quarter of the reward
  ProtocolFeeBps,      \* task.protocol_fee_bps
  OperatorFeeBps,      \* fee leg of the embedding site
  ReferrerFeeBps,      \* fee leg of the referrer
  ReputationDiscounts, \* fee discounts workers' reputations may earn
  CreditableLegs,      \* the sets of legs that may be creditable
  InitialDeadline,     \* task.deadline, 0 for none
  MaxClaimDuration,    \* claim lifetime of a task without deadline
  CompletionBuffer,    \* claim lifetime past the deadline
  GracePeriod,         \* only the worker may expire its claim this long
  ReviewWindow,        \* the creator's time to review a submission
  SelectionWindow,     \* the creator's time to pick a contest winner
  MaxRevisionRounds,   \* submissions before request_changes is refused
  ActivityHorizon,     \* bound: no new window is opened after this time
  MaxTime,             \* bound: the last instant of the model's clock
  MaxClaims            \* bound: claims ever made on the task

\* Accounts other than workers' that hold lamports in this model; "cranker"
\* stands for every wallet that cranks a task it has no part in.
Others == {"creator", "treasury", "operator", "referrer", "cranker"}
Parties == Workers \cup Others

Statuses == {"Open", "InProgress", "PendingValidation", "RejectFrozen",
             "Completed", "Cancelled", "Disputed"}
Terminal == {"Completed", "Cancelled"}
Manual == {"CreatorReview", "ExternalAttestation"}
Contest == TaskType = "Competitive"
RequiredCompletions == IF TaskType = "Collaborative" THEN MaxWorkers ELSE 1

\* The fee terms a settlement may meet: the worker's reputation and the
\* payees' balances decide which.
Terms ==
  {[protocol |-> EffectiveFeeBps(ProtocolFeeBps, d), operator |-> OperatorFeeBps,
    referrer |-> ReferrerFeeBps, creditable |-> legs] :
     d \in ReputationDiscounts, legs \in CreditableLegs}

ASSUME WorkersAssumption == IsFiniteSet(Workers) /\ Workers \cap Others = {}
ASSUME TaskAssumption ==
  /\ TaskType \in TaskTypes
  /\ ManualModes \subseteq Manual
  /\ TaskType = "Competitive" => ManualModes \subseteq {"CreatorReview"}
  /\ MaxWorkers \in 1..4
  /\ TaskType = "Exclusive" => MaxWorkers = 1
  /\ Hired \in BOOLEAN /\ InitialMode \in {"Auto", "CreatorReview"}
  /\ Hired \/ InitialMode = "CreatorReview" => TaskType = "Exclusive"
ASSUME AmountsAssumption ==
  /\ Reward \in Nat \ {0}
  /\ TaskType = "Collaborative" => Reward >= MaxWorkers
  /\ EscrowRent \in Nat /\ CleanupReward \in Nat
  /\ EntryDeposit \in Nat /\ BondAmount \in Nat
ASSUME FeesAssumption ==
  /\ ProtocolFeeBps \in 0..2000
  /\ OperatorFeeBps \in 0..MaxOperatorFeeBps
  /\ OperatorFeeBps > 0 => Hired
  /\ ReferrerFeeBps \in 0..MaxReferrerFeeBps
  /\ ReputationDiscounts \subseteq Nat
  /\ CreditableLegs \subseteq SUBSET Legs
ASSUME TimesAssumption ==
  /\ InitialDeadline \in Nat
  /\ TaskType = "Competitive" => InitialDeadline > 0
  /\ MaxClaimDuration \in Nat \ {0} /\ CompletionBuffer \in Nat
  /\ GracePeriod \in Nat /\ ReviewWindow \in Nat \ {0}
  /\ SelectionWindow \in Nat /\ MaxRevisionRounds \in Nat
  /\ ActivityHorizon \in Nat /\ MaxTime \in Nat /\ MaxClaims \in Nat

VARIABLES
  now,                \* Clock::unix_timestamp
  status,             \* task.status
  deadline,           \* task.deadline
  mode,               \* "Auto", or the mode of the validation config
  config_open,        \* the TaskValidationConfig account exists
  hire_open,          \* the HireRecord still occupies its listing's capacity
  current_workers,    \* task.current_workers
  completions,        \* task.completions
  live_submissions,   \* task.live_submissions
  pending,            \* validation_config.pending_submission_count
  claim_generation,   \* task.claim_generation
  claims,             \* the workers whose TaskClaim account exists
  expires_at,         \* claim.expires_at
  deposited,          \* the workers whose claim account holds an entry deposit
  active_tasks,       \* worker.active_tasks owed to this task
  tasks_completed,    \* worker.tasks_completed earned on this task
  submission,         \* TaskSubmission of the worker's claim address
  submission_count,   \* submission.submission_count
  review_deadline_at, \* submission.review_deadline_at
  rejected_at,        \* submission.rejected_at
  escrow_open,        \* the TaskEscrow account exists
  escrow_lamports,    \* its balance
  distributed,        \* escrow.distributed
  bonds,              \* the parties whose CompletionBond account exists
  wallet              \* lamports of every party, relative to the start

taskVars == <<deadline, mode, config_open, hire_open, claim_generation>>
submissionVars == <<submission, submission_count, review_deadline_at, rejected_at>>
claimVars == <<claims, expires_at, deposited>>
escrowVars == <<escrow_open, escrow_lamports, distributed>>
counterVars == <<current_workers, completions, live_submissions, pending,
                 active_tasks, tasks_completed>>
vars == <<now, status, taskVars, counterVars, claimVars, submissionVars,
          escrowVars, bonds, wallet>>

IsManual == mode \in Manual
ContestConfigured == Contest /\ IsManual
DeadlinePassed == deadline > 0 /\ now > deadline
GhostAt == deadline + SelectionWindow

(***************************************************************************)
(* Lamport movements: a function from parties to what each one receives.   *)
(***************************************************************************)
Pay(p, amount) == [q \in Parties |-> IF q = p THEN amount ELSE 0]
Both(f, g) == [q \in Parties |-> f[q] + g[q]]
NoPay == [q \in Parties |-> 0]
Receive(f) == wallet' = [q \in Parties |-> wallet[q] + f[q]]

PayOut(w, s) ==
  Both(Both(Pay(w, s.worker), Pay("treasury", s.protocol)),
       Both(Pay("operator", s.operator), Pay("referrer", s.referrer)))

\* A bond is returned to its poster; paying an absent bond is a no-op.
Refund_Blind(p) == Pay(p, BondAmount)
Refund(p) == Pay(p, IF p \in bonds THEN BondAmount ELSE 0)
Forfeit(p, to) == Pay(to, IF p \in bonds THEN BondAmount ELSE 0)
Deposit(w, to) == Pay(to, IF w \in deposited THEN EntryDeposit ELSE 0)

(***************************************************************************)
(* Pieces that several instructions share.                                 *)
(***************************************************************************)
\* sync_task_validation_status: what a review step leaves the status at.
SyncedStatus_Reopens(st, pending_count, workers) ==
  IF st \in {"Completed", "RejectFrozen"} THEN st
  ELSE IF pending_count > 0 THEN "PendingValidation" ELSE "Open"

SyncedStatus(st, pending_count, workers) ==
  IF st \in {"Completed", "RejectFrozen"} THEN st
  ELSE IF pending_count > 0 THEN "PendingValidation"
  ELSE IF workers > 0 THEN "InProgress"
  ELSE "Open"

SubmissionPending(w) == w \in claims /\ submission[w] = "Submitted"

\* The claim account is closed; its rent and what it still holds go to w.
CloseClaim(w) ==
  /\ claims' = claims \ {w}
  /\ expires_at' = [expires_at EXCEPT ![w] = 0]
  /\ deposited' = deposited \ {w}

CloseSubmission(w) ==
  /\ submission' = [submission EXCEPT ![w] = "none"]
  /\ submission_count' = [submission_count EXCEPT ![w] = 0]
  /\ review_deadline_at' = [review_deadline_at EXCEPT ![w] = 0]
  /\ rejected_at' = [rejected_at EXCEPT ![w] = 0]

\* The submission is marked Rejected but keeps its account.
MarkRejected(w) ==
  /\ submission' = [submission EXCEPT ![w] = "Rejected"]
  /\ rejected_at' = [rejected_at EXCEPT ![w] = now]
  /\ UNCHANGED submission_count

\* A submission leaves Submitted: both live-submission counters drop, checked.
LeaveReview_OneCounter ==
  /\ pending > 0 /\ live_submissions > 0
  /\ pending' = pending - 1 /\ UNCHANGED live_submissions

LeaveReview ==
  /\ pending > 0 /\ live_submissions > 0
  /\ pending' = pending - 1
  /\ live_submissions' = live_submissions - 1

\* release_claim_slot: a checked release of the worker slot.
ReleaseSlot(w) ==
  /\ current_workers > 0 /\ active_tasks[w] > 0
  /\ current_workers' = current_workers - 1
  /\ active_tasks' = [active_tasks EXCEPT ![w] = @ - 1]

Dec(n) == IF n = 0 THEN 0 ELSE n - 1

\* The saturating release the recovery instructions use.
SaturatingRelease(w) ==
  /\ current_workers' = Dec(current_workers)
  /\ active_tasks' = [active_tasks EXCEPT ![w] = Dec(@)]

(***************************************************************************)
(* execute_completion_rewards for worker w: the share leaves the escrow,   *)
(* the counters advance, and the completion that reaches the required      *)
(* number completes the task and closes the escrow to the creator.  A      *)
(* settlement that leaves the escrow open must leave it rent exempt, which *)
(* the runtime enforces.  `extra` is what else the instruction pays out.   *)
(***************************************************************************)
Completes == completions + 1 >= RequiredCompletions

ExecuteCompletionRewards(w, terms, extra) ==
  LET base == RewardPerWorker(TaskType, Reward, RequiredCompletions, completions)
      s == SplitOf(base, terms)
      left == escrow_lamports - SplitTotal(s)
  IN /\ SplitAllowed(base, terms)
     /\ left >= IF Completes THEN 0 ELSE EscrowRent
     /\ distributed' = distributed + SplitTotal(s)
     /\ ReleaseSlot(w)
     /\ completions' = completions + 1
     /\ tasks_completed' = [tasks_completed EXCEPT ![w] = @ + 1]
     /\ escrow_open' = (escrow_open /\ ~Completes)
     /\ escrow_lamports' = IF Completes THEN 0 ELSE left
     /\ Receive(Both(Both(PayOut(w, s), extra),
                     Pay("creator", IF Completes THEN left ELSE 0)))

\* Both completion bonds go back to the parties that posted them.
RefundBonds(w) == Both(Refund("creator"), Refund(w))
ReleaseBonds_CreatorOnly(w) == bonds' = bonds \ {"creator"}
ReleaseBonds(w) == bonds' = bonds \ {"creator", w}

\* A dismissed worker gets its completion bond and its entry deposit back.
DismissalPay_Forfeits(w) == Both(Forfeit(w, "creator"), Deposit(w, w))
DismissalPay(w) == Both(Refund(w), Deposit(w, w))

\* Exclusive and contest reviews settle only a sole live submission.
SoleSubmission_Never == TRUE
SoleSubmission ==
  (TaskType # "Collaborative" /\ Completes) \/ Contest => live_submissions = 1

(***************************************************************************)
(* The task as create_task and hire_from_listing leave it.                 *)
(***************************************************************************)
Init ==
  /\ now = 0
  /\ status = "Open" /\ deadline = InitialDeadline
  /\ mode = InitialMode /\ config_open = (InitialMode # "Auto")
  /\ hire_open = Hired
  /\ current_workers = 0 /\ completions = 0
  /\ live_submissions = 0 /\ pending = 0 /\ claim_generation = 0
  /\ claims = {}
  /\ expires_at = [w \in Workers |-> 0] /\ deposited = {}
  /\ active_tasks = [w \in Workers |-> 0]
  /\ tasks_completed = [w \in Workers |-> 0]
  /\ submission = [w \in Workers |-> "none"]
  /\ submission_count = [w \in Workers |-> 0]
  /\ review_deadline_at = [w \in Workers |-> 0]
  /\ rejected_at = [w \in Workers |-> 0]
  /\ escrow_open = TRUE /\ escrow_lamports = EscrowRent + Reward
  /\ distributed = 0
  /\ bonds = {}
  /\ wallet = Pay("creator", -(EscrowRent + Reward))

Tick ==
  /\ now < MaxTime
  /\ now' = now + 1
  /\ UNCHANGED <<status, taskVars, counterVars, claimVars, submissionVars,
                 escrowVars, bonds, wallet>>

\* configure_task_validation: the creator turns on (or changes) manual review.
\* A hired task keeps its mode, and a referred one is never attested.
Configurable_Hired(m) ==
  /\ m # "CreatorReview" => ReferrerFeeBps = 0
  /\ status = "Open" /\ current_workers = 0 /\ completions = 0

Configurable(m) ==
  /\ ~hire_open
  /\ m # "CreatorReview" => ReferrerFeeBps = 0
  /\ status = "Open" /\ current_workers = 0 /\ completions = 0

ConfigureTaskValidation(m) ==
  /\ Configurable(m)
  /\ mode' = m /\ config_open' = TRUE /\ pending' = 0
  /\ UNCHANGED <<now, status, deadline, hire_open, claim_generation,
                 current_workers, completions, live_submissions, active_tasks,
                 tasks_completed, claimVars, submissionVars, escrowVars, bonds,
                 wallet>>

\* claim_task_with_job_spec: a worker takes a slot; a contest entrant also
\* leaves the entry deposit in its claim account.
ClaimTask(w) ==
  /\ claim_generation < MaxClaims /\ now <= ActivityHorizon
  /\ w \notin claims
  /\ \/ status \in {"Open", "InProgress"}
     \/ /\ status = "PendingValidation" /\ IsManual
        /\ TaskType \in {"Collaborative", "Competitive"}
  /\ deadline > 0 => now < deadline
  /\ current_workers < MaxWorkers
  /\ claims' = claims \cup {w}
  /\ expires_at' = [expires_at EXCEPT ![w] =
       IF deadline > 0 THEN deadline + CompletionBuffer ELSE now + MaxClaimDuration]
  /\ deposited' = IF ContestConfigured THEN deposited \cup {w} ELSE deposited
  /\ Receive(Pay(w, IF ContestConfigured THEN -EntryDeposit ELSE 0))
  /\ claim_generation' = claim_generation + 1
  /\ current_workers' = current_workers + 1
  /\ active_tasks' = [active_tasks EXCEPT ![w] = @ + 1]
  /\ status' = IF status = "PendingValidation" THEN status ELSE "InProgress"
  /\ UNCHANGED <<now, deadline, mode, config_open, hire_open, completions,
                 live_submissions, pending, tasks_completed, submissionVars,
                 escrowVars, bonds>>

\* submit_task_result: a first result, or a new one after a rejection.
SubmitTaskResult(w) ==
  /\ now <= ActivityHorizon
  /\ w \in claims
  /\ status \in {"InProgress", "PendingValidation"}
  /\ IsManual
  /\ ~DeadlinePassed
  /\ now <= expires_at[w]
  /\ submission[w] # "Submitted"
  /\ submission' = [submission EXCEPT ![w] = "Submitted"]
  /\ submission_count' = [submission_count EXCEPT ![w] = @ + 1]
  /\ review_deadline_at' = [review_deadline_at EXCEPT ![w] =
       now + IF mode = "CreatorReview" THEN ReviewWindow ELSE 0]
  /\ rejected_at' = [rejected_at EXCEPT ![w] = 0]
  /\ pending' = pending + 1 /\ live_submissions' = live_submissions + 1
  /\ status' = "PendingValidation"
  /\ UNCHANGED <<now, taskVars, current_workers, completions, active_tasks,
                 tasks_completed, claimVars, escrowVars, bonds, wallet>>

(***************************************************************************)
(* Settlement of a reviewed submission: the creator's verdict, the crank   *)
(* that replaces a silent creator, and the attestor's approval share it.   *)
(***************************************************************************)
AcceptSubmission(w, terms) ==
  /\ status = "PendingValidation" /\ IsManual /\ SubmissionPending(w)
  /\ SoleSubmission
  /\ LeaveReview
  /\ ExecuteCompletionRewards(w, terms, Both(RefundBonds(w), Deposit(w, w)))
  /\ status' = IF Completes THEN "Completed"
               ELSE SyncedStatus(status, pending', current_workers')
  /\ CloseClaim(w) /\ CloseSubmission(w) /\ ReleaseBonds(w)
  /\ UNCHANGED <<now, taskVars>>

\* The creator's verdicts on a contest end at the ghost boundary.
BeforeGhost_Never == TRUE
BeforeGhost == Contest => now < GhostAt

\* accept_task_result: in a contest only before the ghost boundary.
AcceptTaskResult(w, terms) ==
  /\ mode = "CreatorReview"
  /\ BeforeGhost
  /\ AcceptSubmission(w, terms)

\* submission.review_deadline_at has come.
ReviewOverdue_Swapped(w) == now < review_deadline_at[w]
ReviewOverdue(w) == now >= review_deadline_at[w]

\* auto_accept_task_result: anyone, once the creator's review window is over.
AutoAcceptTaskResult(w, terms) ==
  /\ mode = "CreatorReview" /\ ~Contest
  /\ ReviewOverdue(w)
  /\ AcceptSubmission(w, terms)

\* validate_task_result, approved by the attestor: no marketplace legs.
ValidateTaskResult(w, terms) ==
  /\ mode = "ExternalAttestation"
  /\ AcceptSubmission(w, [terms EXCEPT !.operator = 0, !.referrer = 0])

\* validate_task_result, refused: the slot is released and the claim closed,
\* but the Rejected submission keeps its account.
RefuseTaskResult(w) ==
  /\ status = "PendingValidation" /\ mode = "ExternalAttestation"
  /\ SubmissionPending(w)
  /\ LeaveReview /\ ReleaseSlot(w)
  /\ status' = SyncedStatus(status, pending', current_workers')
  /\ MarkRejected(w) /\ CloseClaim(w)
  /\ Receive(DismissalPay(w))
  /\ bonds' = bonds \ {w}
  /\ UNCHANGED <<now, taskVars, completions, tasks_completed,
                 review_deadline_at, escrowVars>>

\* reject_task_result: the creator turns a submission down for good.
RejectTaskResult(w) ==
  /\ status = "PendingValidation" /\ mode = "CreatorReview"
  /\ SubmissionPending(w)
  /\ BeforeGhost
  /\ LeaveReview /\ ReleaseSlot(w)
  /\ status' = SyncedStatus(status, pending', current_workers')
  /\ CloseClaim(w) /\ CloseSubmission(w)
  /\ Receive(DismissalPay(w))
  /\ bonds' = bonds \ {w}
  /\ UNCHANGED <<now, taskVars, completions, tasks_completed, escrowVars>>

\* A clock that is set and would run out too early is moved to `until`.
Extended_Never(t, until) == t
Extended(t, until) == IF t > 0 /\ t < until THEN until ELSE t

\* request_changes: the claim survives and both clocks grant a full window.
RequestChanges(w) ==
  LET until == now + ReviewWindow IN
  /\ now <= ActivityHorizon
  /\ status = "PendingValidation" /\ mode = "CreatorReview" /\ ~Contest
  /\ SubmissionPending(w)
  /\ submission_count[w] < MaxRevisionRounds
  /\ expires_at' = [expires_at EXCEPT ![w] = Extended(@, until)]
  /\ deadline' = Extended(deadline, until)
  /\ LeaveReview /\ MarkRejected(w)
  /\ status' = SyncedStatus(status, pending', current_workers)
  /\ UNCHANGED <<now, mode, config_open, hire_open, claim_generation,
                 current_workers, completions, active_tasks, tasks_completed,
                 claims, deposited, review_deadline_at, escrowVars, bonds, wallet>>

\* reject_and_freeze: the creator contests the result; claim and bonds stay
\* until an authority rules or the freeze times out in the worker's favour.
RejectAndFreeze(w) ==
  /\ now <= ActivityHorizon
  /\ TaskType = "Exclusive" /\ mode = "CreatorReview"
  /\ status = "PendingValidation" /\ SubmissionPending(w)
  /\ LeaveReview /\ MarkRejected(w)
  /\ review_deadline_at' = [review_deadline_at EXCEPT ![w] = now + ReviewWindow]
  /\ status' = "RejectFrozen"
  /\ UNCHANGED <<now, taskVars, current_workers, completions, active_tasks,
                 tasks_completed, claimVars, escrowVars, bonds, wallet>>

\* resolve_reject_frozen, for the worker: paid, and the creator's bond is
\* forfeited to the treasury.
ResolveFrozenForWorker(w, terms) ==
  /\ status = "RejectFrozen" /\ w \in claims
  /\ ExecuteCompletionRewards(w, terms,
       Both(Both(Refund(w), Forfeit("creator", "treasury")), Deposit(w, w)))
  /\ status' = IF Completes THEN "Completed" ELSE status
  /\ CloseClaim(w) /\ CloseSubmission(w) /\ ReleaseBonds(w)
  /\ UNCHANGED <<now, taskVars, live_submissions, pending>>

\* resolve_reject_frozen, for the creator: the escrow is refunded and the
\* worker's bond is forfeited to the treasury.
ResolveFrozenForCreator(w) ==
  /\ status = "RejectFrozen" /\ w \in claims
  /\ ReleaseSlot(w)
  /\ status' = "Cancelled"
  /\ escrow_open' = FALSE /\ escrow_lamports' = 0
  /\ Receive(Both(Both(Refund("creator"), Forfeit(w, "treasury")),
                  Both(Pay("creator", escrow_lamports), Deposit(w, w))))
  /\ CloseClaim(w) /\ CloseSubmission(w) /\ ReleaseBonds(w)
  /\ UNCHANGED <<now, taskVars, completions, live_submissions, pending,
                 tasks_completed, distributed>>

\* The authority's window to rule on a frozen task is over.
FreezeOver_Swapped(w) == now < review_deadline_at[w]
FreezeOver(w) == now > review_deadline_at[w]

\* expire_reject_frozen: nobody ruled in time, anyone settles for the worker.
ExpireRejectFrozen(w, terms) ==
  /\ status = "RejectFrozen" /\ w \in claims
  /\ FreezeOver(w)
  /\ ExecuteCompletionRewards(w, terms, Both(RefundBonds(w), Deposit(w, w)))
  /\ status' = IF Completes THEN "Completed" ELSE status
  /\ CloseClaim(w) /\ CloseSubmission(w) /\ ReleaseBonds(w)
  /\ UNCHANGED <<now, taskVars, live_submissions, pending>>

\* Only a task without manual review is completed by its worker alone.
SelfCertified_Always == TRUE
SelfCertified == ~IsManual

\* complete_task: a task without manual review, signed by the worker.
CompleteTask(w, terms) ==
  /\ w \in claims /\ SelfCertified
  /\ status = "InProgress"
  /\ ~DeadlinePassed
  /\ Contest => completions = 0
  /\ ExecuteCompletionRewards(w, terms, Both(RefundBonds(w), Deposit(w, w)))
  /\ status' = IF Completes THEN "Completed" ELSE status
  /\ CloseClaim(w) /\ ReleaseBonds(w)
  /\ UNCHANGED <<now, taskVars, live_submissions, pending, submissionVars>>

\* The creator's selection window is over.
GhostShareDue_Swapped == now < GhostAt
GhostShareDue == now >= GhostAt

(***************************************************************************)
(* distribute_ghost_share: from the ghost boundary on, anyone splits what  *)
(* is left of a contest's prize evenly over the live submissions.          *)
(***************************************************************************)
DistributeGhostShare(w, terms) ==
  LET slice == GhostSlice(Reward - distributed, live_submissions)
      s == SplitOf(slice, terms)
      last == live_submissions = 1
      left == escrow_lamports - SplitTotal(s)
  IN /\ status = "PendingValidation" /\ Contest /\ mode = "CreatorReview"
     /\ SubmissionPending(w)
     /\ GhostShareDue
     /\ live_submissions > 0 /\ distributed <= Reward
     /\ slice > 0 => SplitAllowed(slice, terms)
     /\ left >= IF last THEN 0 ELSE EscrowRent
     /\ distributed' = distributed + SplitTotal(s)
     /\ ReleaseSlot(w) /\ LeaveReview
     /\ completions' = completions + 1
     /\ tasks_completed' = [tasks_completed EXCEPT ![w] = @ + 1]
     /\ status' = IF last THEN "Completed" ELSE status
     /\ escrow_open' = (escrow_open /\ ~last)
     /\ escrow_lamports' = IF last THEN 0 ELSE left
     /\ Receive(Both(Both(PayOut(w, s), Deposit(w, w)),
                     Pay("creator", IF last THEN left ELSE 0)))
     /\ CloseClaim(w) /\ CloseSubmission(w)
     /\ UNCHANGED <<now, taskVars, bonds>>

\* Entry deposits swept by a cancellation: a contest's go to the treasury.
SweptDeposits_OneOnly(swept) ==
  Pay(IF ContestConfigured THEN "treasury" ELSE "creator",
      IF swept \cap deposited # {} THEN EntryDeposit ELSE 0)

SweptDeposits(swept) ==
  IF ContestConfigured
  THEN Pay("treasury", EntryDeposit * Cardinality(swept \cap deposited))
  ELSE [q \in Parties |-> IF q \in swept \cap deposited THEN EntryDeposit ELSE 0]

\* validate_cancel_prereqs: before any claim, or after the deadline passed
\* without a result.
Cancellable_AnyStatus ==
  \/ status = "Open"
  \/ DeadlinePassed /\ (completions = 0 \/ current_workers = 0)

Cancellable ==
  \/ status = "Open"
  \/ /\ status = "InProgress" /\ DeadlinePassed
     /\ completions = 0 \/ current_workers = 0
     /\ Contest => live_submissions = 0

(***************************************************************************)
(* cancel_task: the creator takes the remaining reward back before anyone  *)
(* worked, or after the deadline passed without a result.  Every live      *)
(* claim is closed; a bonded worker that did not show up pays the creator. *)
(***************************************************************************)
CancelTask ==
  LET noShow == status = "InProgress" /\ current_workers > 0
  IN /\ Cancellable
     /\ distributed <= Reward
     /\ status' = "Cancelled"
     /\ escrow_open' = FALSE /\ escrow_lamports' = 0
     /\ current_workers' = 0
     /\ \E swept \in SUBSET claims, bonded \in Workers :
          /\ Cardinality(swept) = current_workers
          /\ noShow => bonded \in swept
          /\ claims' = claims \ swept
          /\ deposited' = deposited \ swept
          /\ expires_at' = [w \in Workers |->
               IF w \in swept THEN 0 ELSE expires_at[w]]
          /\ active_tasks' = [w \in Workers |->
               IF w \in swept THEN Dec(active_tasks[w]) ELSE active_tasks[w]]
          /\ bonds' = bonds \ {"creator", bonded}
          /\ Receive(Both(
               Both(Pay("creator", escrow_lamports), Refund("creator")),
               Both(IF noShow THEN Forfeit(bonded, "creator") ELSE Refund(bonded),
                    SweptDeposits(swept))))
     /\ UNCHANGED <<now, taskVars, completions, live_submissions, pending,
                    tasks_completed, submissionVars, distributed>>

\* The cleanup reward, capped at what the escrow still owes; it counts as
\* distributed.
CleanupPaid ==
  IF CleanupReward < Reward - distributed THEN CleanupReward ELSE Reward - distributed

PayCleanup_Uncounted ==
  /\ distributed <= Reward /\ escrow_lamports >= CleanupPaid
  /\ escrow_lamports' = escrow_lamports - CleanupPaid
  /\ UNCHANGED distributed

PayCleanup ==
  /\ distributed <= Reward /\ escrow_lamports >= CleanupPaid
  /\ escrow_lamports' = escrow_lamports - CleanupPaid
  /\ distributed' = distributed + CleanupPaid

\* claim_is_expirable: the worker has a grace period to itself.
Expired(w, caller) ==
  now > expires_at[w] /\ (caller = w \/ now > expires_at[w] + GracePeriod)

\* Which expiries treat the worker's completion bond as a no-show's.
BondLost(w) ==
  /\ TaskType = "Exclusive"
  /\ status = "InProgress" \/ submission[w] = "none"

(***************************************************************************)
(* expire_claim: a claim that outlived its expiry without a pending result *)
(* is removed, by its worker at once or by anyone after the grace period.  *)
(* The caller earns a cleanup reward out of the escrow; a no-show loses    *)
(* its completion bond to the creator and its entry deposit to the         *)
(* treasury.                                                               *)
(***************************************************************************)
ExpireClaim(w, caller) ==
  /\ w \in claims /\ Expired(w, caller)
  /\ status \in {"InProgress", "PendingValidation"}
  /\ submission[w] # "Submitted"
  /\ ContestConfigured => submission[w] = "none"
  /\ PayCleanup
  /\ SaturatingRelease(w)
  /\ status' = IF IsManual THEN SyncedStatus(status, pending, current_workers')
               ELSE IF current_workers' = 0 /\ status = "InProgress" THEN "Open"
               ELSE status
  /\ bonds' = IF BondLost(w) THEN bonds \ {w} ELSE bonds
  /\ Receive(Both(Pay(caller, CleanupPaid),
             Both(IF BondLost(w) THEN Forfeit(w, "creator") ELSE NoPay,
                  Deposit(w, IF ContestConfigured THEN "treasury" ELSE w))))
  /\ CloseClaim(w)
  /\ UNCHANGED <<now, taskVars, completions, live_submissions, pending,
                 tasks_completed, submissionVars, escrow_open>>

\* A result left under review when the other workers completed the task.
StragglerReclaimable_Never == FALSE
StragglerReclaimable ==
  status = "Completed" /\ TaskType = "Collaborative" /\ config_open

\* reclaim_terminal_claim: a claim the terminal step left behind is closed.  A
\* bounced submission goes with it; a Collaborative straggler whose result was
\* never reviewed leaves the review counters too and keeps its deposit.
ReclaimTerminalClaim(w) ==
  LET straggler == submission[w] = "Submitted"
  IN /\ status \in Terminal /\ w \in claims
     /\ IF straggler
        THEN StragglerReclaimable /\ LeaveReview
        ELSE UNCHANGED <<pending, live_submissions>>
     /\ SaturatingRelease(w)
     /\ Receive(Deposit(w, IF straggler THEN w ELSE "treasury"))
     /\ CloseClaim(w) /\ CloseSubmission(w)
     /\ UNCHANGED <<now, status, taskVars, completions, tasks_completed,
                    escrowVars, bonds>>

\* post_completion_bond, by the creator and by the claiming worker.
PostBond(p) ==
  /\ TaskType = "Exclusive" /\ p \notin bonds
  /\ bonds' = bonds \cup {p}
  /\ Receive(Pay(p, -BondAmount))
  /\ UNCHANGED <<now, status, taskVars, counterVars, claimVars, submissionVars,
                 escrowVars>>

PostCreatorBond ==
  /\ status \in {"Open", "InProgress", "PendingValidation"}
  /\ PostBond("creator")

PostWorkerBond(w) ==
  /\ status \in {"InProgress", "PendingValidation"}
  /\ w \in claims /\ expires_at[w] > now
  /\ PostBond(w)

\* close_task: the creator releases the hire's listing capacity and recovers
\* the rent of the review accounts it supplies; the Task account stays.
CloseTask(sweepConfig, sweptSubmissions) ==
  /\ status \in Terminal /\ current_workers = 0
  /\ "creator" \notin bonds
  /\ sweepConfig => pending = 0 /\ live_submissions = 0
  /\ \A w \in sweptSubmissions : submission[w] = "Rejected"
  /\ hire_open' = FALSE
  /\ config_open' = (config_open /\ ~sweepConfig)
  /\ submission' = [w \in Workers |->
       IF w \in sweptSubmissions THEN "none" ELSE submission[w]]
  /\ submission_count' = [w \in Workers |->
       IF w \in sweptSubmissions THEN 0 ELSE submission_count[w]]
  /\ review_deadline_at' = [w \in Workers |->
       IF w \in sweptSubmissions THEN 0 ELSE review_deadline_at[w]]
  /\ rejected_at' = [w \in Workers |->
       IF w \in sweptSubmissions THEN 0 ELSE rejected_at[w]]
  /\ UNCHANGED <<now, status, deadline, mode, claim_generation, counterVars,
                 claimVars, escrowVars, bonds, wallet>>

-----------------------------------------------------------------------------
CreatorStep ==
  \/ \E m \in ManualModes : ConfigureTaskValidation(m)
  \/ CancelTask
  \/ PostCreatorBond
  \/ \E sweepConfig \in BOOLEAN, swept \in SUBSET Workers : CloseTask(sweepConfig, swept)

ReviewStep(w) ==
  \/ \E terms \in Terms :
       \/ AcceptTaskResult(w, terms)
       \/ ValidateTaskResult(w, terms)
       \/ ResolveFrozenForWorker(w, terms)
  \/ RejectTaskResult(w)
  \/ RequestChanges(w)
  \/ RejectAndFreeze(w)
  \/ RefuseTaskResult(w)
  \/ ResolveFrozenForCreator(w)

WorkerStep(w) ==
  \/ ClaimTask(w)
  \/ SubmitTaskResult(w)
  \/ \E terms \in Terms : CompleteTask(w, terms)
  \/ PostWorkerBond(w)
  \/ ExpireClaim(w, w)

\* Instructions anyone may send once their time has come.
Crank(w) ==
  \/ \E terms \in Terms :
       \/ AutoAcceptTaskResult(w, terms)
       \/ DistributeGhostShare(w, terms)
       \/ ExpireRejectFrozen(w, terms)
  \/ ExpireClaim(w, "cranker")
  \/ ReclaimTerminalClaim(w)

Next ==
  \/ Tick
  \/ CreatorStep
  \/ \E w \in Workers : ReviewStep(w) \/ WorkerStep(w) \/ Crank(w)

Spec == Init /\ [][Next]_vars

\* Time passes, and for every worker's claim somebody sends the cranks that
\* apply to it.  Nothing is assumed of the creator, attestor or authorities.
Fairness == WF_vars(Tick) /\ \A w \in Workers : WF_vars(Crank(w))
FairSpec == Spec /\ Fairness

=============================================================================
