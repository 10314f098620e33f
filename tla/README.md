# A TLA+ development of agenc-protocol

The repository's core is `programs/agenc-coordination`, a Solana program in
which creators put tasks in escrow, agents claim them, deliver, are reviewed
and are paid, and in which anyone may crank a task on when a party goes silent.
Around it stand TypeScript packages: SDKs that build, send and confirm
transactions, front ends (CLI, MCP, React), and a worker daemon that serves tasks
unattended and must survive crashes, lost answers and lagging nodes.

This directory specifies the program, the SDK's transaction pipeline and the
worker daemon in TLA+, model-checks small instances with TLC and proves the
central invariants with TLAPS. The reference is the code of the default build
(for the program: the `mainnet-canary` feature off).

## 1. Inventory

**The program.** Solana executes one instruction at a time on the accounts it
names and rolls a failing one back. There are therefore no data races; what is
hard is *order*:
any signer may send any instruction at any time, the parties' interests differ,
counters are maintained by hand in some fifteen handlers, windows open and
close, and each terminal step must leave nothing behind that no later
instruction accepts.

**The clients.** A process outside the chain sees accounts one request at a time,
through a node that may lag; its transactions may land late, or unnoticed; it may
die between any two steps; and several processes may be started on one state
directory. What is hard is to conclude something that is still true.

| Component | State | Operations | Hard behaviour | What makes it correct |
|---|---|---|---|---|
| Task lifecycle (`claim_task`, `submit_task_result`, `accept_/auto_accept_/reject_/validate_task_result`, `request_changes`, `complete_task`, `cancel_task`, `expire_claim`, `reclaim_terminal_claim`) | `Task`, `TaskClaim`, `TaskSubmission`, `TaskValidationConfig`, the agent's `active_tasks` | claim, submit, review, settle, cancel, expire, sweep | every interleaving of several workers, a creator, an attestor and cranks; deadlines racing late answers | counters equal the accounts they count; the status matches them; nothing is stranded; nothing moves after the end |
| Settlement (`completion_helpers`) | `TaskEscrow`, payees' balances | share, split into worker / protocol / operator / referrer, close the escrow | integer division, uncreditable payees, cleanup rewards out of the same escrow | the escrow always covers what is owed; lamports are conserved; the worker keeps its floor |
| Contest ghost split (`distribute_ghost_share`) | the contest's live entries | even slice per live entry after the selection window | the creator wakes up while the cranks run | no clawback and no silent dismissal after the boundary |
| Review freeze (`reject_and_freeze`, `reject_frozen_exits`) | status `RejectFrozen`, the freeze's deadline | freeze, rule either way, time out | nobody rules | every freeze ends; each bond goes where the ruling says |
| Completion bonds (`post_completion_bond`, `bond_helpers`, `reclaim_completion_bond`) | one `CompletionBond` per task and wallet | post, refund, forfeit | the address outlives a claim; every exit settles bonds that may be absent | bonds are lost only for cause, never paid twice, never left at the end |
| Disputes (`initiate_`, `resolve_`, `expire_`, `cancel_dispute`, `settle_dispute_claim`, slashes, resolver roster) | `Dispute`, status `Disputed`, slashed stake, dispute counters | open, rule (refund, complete, split), expire, cancel, settle peers, slash | a dispute races every exit of the lifecycle; partial settlement of several claims | every dispute is seen through, the counters that hold a party's stake agree with the disputes, bonds are lost for cause only, review time is given back |
| Bid marketplace (`bid_marketplace`) | `BidBook`, `Bid`, bidders' bonds | create, update, cancel, accept, expire, promote, demote | many signers maintain the best bid and the number of active bids | the counters agree, the accepted bid is eligible, bonds return |
| Listings and hires | `ServiceListing.open_jobs`, `HireRecord` | hire, close, pause | the slot is released by `close_task` only | open jobs never exceed the capacity and never leak |
| Governance | `Proposal`, votes, timelock | create, vote, execute, cancel | windows, capped weights, snapshots | only passed proposals execute, once, in their window |
| Rate limits | daily windows, cooldowns per agent and wallet | consume, roll over, merge | merging an old and a new record | no quota is reset early |
| Agents and stake | `AgentRegistration`, stake, reputation | register, slash, suspend, withdraw, delegate, deregister | withdrawal while work or disputes are outstanding | stake at risk cannot leave |
| Moderation | attestor roster, records, heartbeat | attest, revoke, exit | a silent attestor | publication is attested or the gate's liveness rule holds |
| Goods, skills, feed | listings, purchases, ratings | single-step records | last unit of supply | no overselling |
| Dependent tasks, private completion, SPL rewards | parent link, proof, token escrow | variants of creation and settlement | external programs | the same escrow invariants |
| Worker state lock (`packages/agenc-worker/src/state.ts`) | `.active.lock`, reaper markers, private temporaries | acquire, take over from a dead owner, release | link, stat and unlink of several processes interleave; owner or reaper dies; pids are reused; fsync fails | never two owners, no live lock removed, stale locks reclaimed |
| Worker journal (`runtime.ts`, `state.ts`) | `state.json`: one open claim with its phase, a ledger of submitted results | claim, execute, submit, resume, restore a revision | a crash between any two steps, ambiguous transactions, accounts read at different times, a full ledger | no claim or result is forgotten, no round is worked on twice, no old result handed in again, the file can be loaded |
| Worker settlements (`runtime.ts`) | outcomes in the ledger, `totalEarnedBaseline` | check settlements | several payments, one counter of earnings | what is reported as earned was paid, and once; every payment is reported |
| SDK transaction pipeline (`packages/sdk-ts/src/client`) | one call: its attempts, blockhash, signature | prepare, sign, send, confirm, retry, resolve | lost answers, expiry, lagging status, abandoned forks | at most one transaction in flight, and what is reported is true |
| Generated clients | none | instruction builders, codecs (about 70 000 lines) | none of their own | – |
| Watchers, indexer client, front ends | none of the protocol's | polling, subscriptions, UI | – | – |
| Release and upgrade scripts | files, git, the Solana loader | operator tooling | – | – |

Components interact through accounts: an instruction of one reads and writes
the accounts of another. The lifecycle calls settlement and bonds in the same
instruction; contests, freezes and disputes are exits of the lifecycle; bids and
listings are entries into it; `close_task` gives a slot back to a listing; the
worker daemon and the clients see it through transactions and account reads.
The worker's loop runs under the state lock, so that the journal has one writer;
it claims and submits through the SDK's pipeline and clears a marker on the
evidence the pipeline reports; it reads back the accounts the lifecycle writes.

## 2. Modules

| Module | Role |
|---|---|
| `RewardSplit` | The settlement arithmetic as pure operators: shares, ghost slices, effective fee, caps, leg crediting. |
| `RewardSplitProofs` | Theorems about the arithmetic for all amounts and fees; lemmas about sums over finite sets. |
| `TaskLifecycle` | One SOL task, one action per instruction. Extends `RewardSplit`. |
| `TaskProperties` | Invariants, the conservation law, action properties, liveness, and the refinement mapping. |
| `TaskPromise` | The abstract specification: a prize, engagements, and the few ways the prize may leave the pot. |
| `MCTask` | TLC's workers. |
| `TaskTypeProofs` | Type correctness and the conservation of lamports. |
| `TaskInvariantProofs` | The inductive invariant and the safety theorems. |
| `TaskStepProofs` | What no step may do to submitted work, a contest's prize and posted bonds; the resubmission window and the marketplace legs, each with its own invariant; the refinement of `TaskPromise`. |
| `TaskDisputes` | Extends `TaskLifecycle`: disputes, rulings, expiry, settlement of peers, slashes, deregistration, and the lifecycle's steps beside them. |
| `DisputeProperties` | What a dispute promises its parties; the conservation law with stakes. |
| `DisputeProofs` | What the runs with disputes check, except liveness, for any number of agents and disputes: dispute counters, types, stakes, the task's counters, the review clock, bonds. |
| `MCDisputes` | TLC's workers. |
| `StateLock` | The worker's lock: one action per system call on a shared name, any number of processes. |
| `MCStateLock` | TLC's processes. |
| `StateLockProofs` | Mutual exclusion and what it rests on. |
| `TransactionSend` | One call of the SDK's `send` against a cluster. |
| `TransactionSendProofs` | At most one broadcast, and the truth of what is reported. |
| `WorkerChain` | The chain as one worker meets it: its accounts and its transactions. The environment of the daemon. |
| `WorkerJournal` | Extends `WorkerChain`: the write-ahead journal, claiming, executing, submitting, resuming, crashes. |
| `Worker` | Extends `WorkerJournal`: the settlement check, the loop, the properties and fairness. |
| `MCWorker` | TLC's tasks and hashes. |
| `WorkerProofs` | The journal can always be loaded and earnings are booked once; for a prompt worker nothing is forgotten, repeated or stale. |

### How `TaskLifecycle` corresponds to the code

* Every variable is an account field or the existence of an account; its comment
  names it. `claims` is the set of `TaskClaim` accounts, `submission[w]` the
  `TaskSubmission` at the address derived from the claim (it can outlive the
  claim after a refusal, and the same worker's next claim finds it again),
  `bonds` the `CompletionBond` accounts, `wallet` the lamports of each party
  relative to the start. Rent of accounts other than the escrow is left out: its
  payer always gets it back. `tasks_completed` is what this task adds to the
  agent's counter.
* Every action is one handler: its guards are the handler's `require!`s in the
  scope of the model, and its effects include every helper the handler calls
  (`execute_completion_rewards`, `sync_task_validation_status`, bond and deposit
  settlement, closing accounts). A failed `require!` rolls the instruction back,
  so a false guard leaves the state alone.
* `ExecuteCompletionRewards` is the settlement all completing handlers share. It
  also carries the rule the runtime adds: an account left open must stay rent
  exempt (`left >= EscrowRent`). This matters once cleanup rewards have been paid
  from a Collaborative escrow: without the rule an intermediate share could be
  paid out of the rent.
* `CancelTask` chooses which claims and which bond the creator passes as remaining
  accounts: the code requires as many claims as `current_workers`.
* `CloseTask` chooses which review accounts the creator supplies to be swept. The
  `Task` account itself is kept, so the specification goes on.
* `Terms` are the fee terms a settlement may meet: the worker's reputation decides
  the discount, the payees' balances whether a leg can be credited.

### How `TaskDisputes` corresponds to the code

* `disputes` is the sequence of `Dispute` accounts of the task in the order opened;
  at most one is undecided, because opening one needs a live status and makes it
  `Disputed`. `resolved` rulings are kept as `approved`, which the code stores in
  the retired vote fields.
* `as_defendant` and `outcomes_due` are the agents' fields `disputes_as_defendant`
  and `active_dispute_votes` (the latter is a historical name: it now counts the
  disputes an agent opened whose outcome has not been applied to it).
  `slash_pending` and `peers_pending` are the task's two reservation bits.
* `Undisputed(A)` is an instruction of the lifecycle that touches none of these
  accounts. Most need no further guard, since their own status guards exclude
  `Disputed`; `ClaimTask` needs a registered agent, `AutoAcceptTaskResult` adds
  the review debt to its deadline, `ReclaimTerminalClaim` and `CloseTask` respect
  the reservations. Deadlines, claim expiries and review windows run on meanwhile.
* `EndDispute` is what `resolve_dispute` and `expire_dispute` share. A worker that
  lost keeps its claim, its slot and its liability until `ApplyDisputeSlash`;
  other workers' claims are settled one at a time by `SettleDisputeClaim`.
* A ruling is the resolver's choice and its resolution is the one asked for.

### How `StateLock` corresponds to the code

* `lock` and `marker[n]` are directory entries: the inode under `.active.lock` and
  under its reaper marker for nonce `n`. An inode is who wrote it, in which
  attempt of which call; the code tells inodes apart by device and inode number,
  and owners by the nonce in the file. Private temporaries and hard-linked
  observations have names nobody else uses and are the local variables `seen`
  and `seen_marker`.
* Each action is one `linkSync`, `statSync`, `unlinkSync`, `fsync` or read of an
  owner, with the branch the code takes on its result; between two actions any
  other process may run. `Retry` is the `continue` of the loop of eight attempts.
* `Crash` may happen anywhere. A dead process does not come back: a restarted
  worker is a new process. `Unidentified` processes are those whose pid has
  been reused and whose start time is not recorded; the code then fails closed.

### How `TransactionSend` corresponds to the code

* `attempt`, `rechecks` and the local signature are the locals of `send` and of
  the transport's `sendAndConfirm`; `pc` names the awaits between which the
  cluster moves. `View` is what a node may answer: the status, or nothing yet.
* The cluster executes a broadcast transaction at most once while its blockhash
  is alive, raises its commitment step by step, and may abandon a block that is
  only processed; `abandoned` remembers that this has happened.
* `outcome` is what the caller gets: success, or an `AgencError` with or without
  the signature and with or without the program's code.

### How the worker modules correspond to the code

* `open` and `ledger` are `openClaim` and `submissions` of `state.json`, written
  by one atomic replacement; `got` holds what the current step has read, one
  account per action, so other parties act between two reads of one decision.
* Dates are reduced to `fresh`: younger than `TRANSACTION_RECONCILIATION_GRACE_MS`.
  A marker ages only when none of its transactions can still land, no node lags
  on its task and no read is under way (`MarkerAges`); see the
  limits below for what happens otherwise.
* `Verdict` is the cascade of early returns of `resumeOpenClaim`, in its order.
  The phases `executed` and `uploading` are one: the upload is repeatable.
* A settlement closes claim and submission together and a `Task` account is never
  closed, so "missing task" and "Accepted submission" are never read and their
  branches are left out; so are Disputed and frozen tasks, on which the worker
  only waits. Registration, funding and hire checks, job specifications and
  uploads appear as steps that may fail.
* The order in which a settlement check examines the ledger is arbitrary.
* A Collaborative task may leave PendingValidation when one claim on it is released, although
  a peer's result may still be under review: peers' accounts are not in the model, and the worker
  meets a status that is at most as restrictive as the program's.

An operator `X_Mistake` written just before an operator `X` is a deliberate
mistake in `X`. Nothing uses it; replacing `X` by it must make a property fail,
which shows that the property says something about the code.

### Abstract specification

`TaskPromise` has no accounts, counters, clocks, fees or bonds. It says: while
the task runs, workers engage, deliver and are sent back; the pot shrinks only
when delivered (or, without review, ongoing) work is paid, once per engagement,
or by a bounded bounty when somebody who did not deliver is removed; the end
comes once, takes what is left, and never while delivered work is under review
(unless it comes with a payment); afterwards engagements are only wound up.
`TaskProperties!PromiseKept` states that `TaskLifecycle` implements it, with the
engagement of a worker computed from its claim, its submission and the status.

## 3. What each run checks

| Run | Instance | Question |
|---|---|---|
| `exclusive_review` | Exclusive, hired, `CreatorReview`, operator leg 10%, two reputation discounts, bonds, deadline; fair | Bonds, freezes, revisions and expiry on the richest single-worker path; with time and cranks alone every submission is answered and every freeze ends; fees are never skipped and the abstract promise is kept. |
| `contest` | Three entrants, three slots, entry deposits, referrer leg that may be uncreditable; fair | The ghost boundary: nobody is dismissed or stranded after it, every claim comes back, deposits and lamports are conserved. |
| `collab` | Two slots, odd reward, deadline, no leg (so that it may be attested); starts in Auto, either review mode; fair | Intermediate settlements, self-certified work, refusals with orphaned submissions, stragglers, cancellation: counters, status, escrow, the promise, and the release of every claim. |
| `dispute_team` | Two slots and two workers, three claims, one dispute by any of the three parties, no deadline; fair | The counters of the task and of the agents agree with the accounts, nobody answerable leaves with its stake, every dispute is seen through. |
| `dispute_solo` | One Exclusive worker, bonds, a change request, two disputes, both parties may deregister; the reward is smaller than the bond | Review time is given back, lamports and stakes are conserved, bonds are lost for cause. |
| `lock_exclusive` | Three processes, two calls each, fsync may fail, one reused pid; no reaper dies with its marker | Never two owners, no live lock removed, only stale ones reaped. |
| `lock_recovery` | Three processes, all of which may die anywhere; fair | A stale lock does not stay out of reach, a stale marker neither. |
| `lock_reaper_crash` | Four processes, reapers may die | Expected to fail, see below. |
| `send` | Two retries, two rechecks, both transports, forks, commitment "confirmed"; fair | At most one broadcast; success, unsigned and coded errors mean what the callers take them for; every call returns. |
| `worker_journal` | Two Collaborative tasks, both may be in the ledger; two rounds, two faults | Claims stay tracked, each round is worked on once, what is under review is current; of several payments behind one counter each is booked once. |
| `worker_progress` | One task that is not Collaborative, two rounds, two faults, a lagging node; fair | No result forgotten, the file loads; the worker gets free again and reports its payment. |
| `worker_lost_payment` | Two tasks, no faults; fair | Expected to fail, see below. |

`TypeOK` of `TaskLifecycle`, `StateLock` and `TransactionSend` is not in a
configuration: it is proved.

The shares of a task and the ghost slices of a contest are not in a run either:
`RewardSplitProofs` covers every reward.

**Findings.**

* `lock_reaper_crash` (state.ts:1093). A process that dies holding a reaper marker
  leaves a second stale file, and that one is removed by a comparison and an
  unlink that nothing protects. Two processes may both find the marker dead; the
  slower removes the marker of the faster, a third publishes its own, and two
  reapers of one stale lock are at work: one of them removes the lock of a live
  owner. The comments promise exclusion without this exception. It takes one crash
  and four processes started together. The proofs assume it away;
  `lock_recovery` shows that the stale marker at least does not block the lock for good.
* `worker_lost_payment` (runtime.ts:1944). `checkSettlements` reads the tasks first and
  `totalEarned` last. A payment that arrives in between for a task already
  examined is credited to the task found paid and absorbed by the baseline; the
  other task then waits for an advance that has already been booked, until a
  third payment comes. While it waits it also occupies the ledger. The README
  of the package and the comments promise a deferral.

**Limits that are assumptions of the passing runs.** Three switches of the worker
modules stand for circumstances in which the code is known not to keep all its
promises. Setting any of them in `MCWorker_journal.cfg` makes `ClaimsAreTracked` and
`ResultsAreCurrent` fail, and with one Collaborative task, three rounds and three faults
`ResultsAreTracked` and `ExecutedOncePerRound` too, while `JournalLoads` and
`EarningsBookedOnce` go on holding (section 4):

* `SlowReads`: the age of a marker is judged after the reads (runtime.ts:1607), so
  reads slower than what remains of the grace period retire the marker of a claim
  that has landed, and the task is then claimed and worked on anew.
* `Lag`: the grace period protects only the phase `claiming`; a node that still
  shows the state before the claim makes the worker clear its marker and run
  the executor again. `worker_progress` sets it, on a task that is not
  Collaborative: there at least no result that was handed in is forgotten. On a
  Collaborative one it can be, after three faults, when the second claim lands late.
* `LongReviews`: if a claim may expire under review and a change request revives it,
  claim, submission and task read around it make the worker hand in the refused
  bytes as the revision (runtime.ts:1691); the other failures follow from that
  transaction landing after the worker has moved on.

The second half of the hazard of incoherent reads, an age measured after the reads it is to
judge, is therefore outside the passing runs, which cover its first half: reviews between the reads.

**What "accepted" does not mean.** A Completed task whose accounts are gone is taken for an
acceptance of this worker's result as soon as `totalEarned` has advanced, for whatever reason
(runtime.ts:1899-1911, 1960-1985). With one task in the ledger the evidence is specific. With two, a
result that was refused, and whose task another worker then completed, is recorded as accepted when the
other task pays. "`accepted` implies paid" is therefore not a property of this code and no run
or theorem claims it; the comment at runtime.ts:1849-1853 asks for a corroboration that the accounts
cannot give once they are closed. What holds for any number of tasks is `EarningsBookedOnce`: however the
acceptances are attributed, the amounts reported never add up to more than was paid, because an
acceptance is recorded only with an advance that no other has used.

**Observation on disputes.** `submit_task_result` is refused while the task is
`Disputed` (submit_task_result.rs:82) but the claim's clock runs on. A creator that
opens a dispute shortly before a claim ends, and finds no resolver, can therefore
make a working agent a no-show in the sense of expire_dispute.rs:42 and take its
bond. The comment above that function ("dispute initiation cannot shorten the
worker's claim window") and decision D16 of `docs/DESIGN_DECISIONS.md` ("an honest
worker is never slashed merely because the resolver disappeared") can be read to
exclude it. `BondLostForCause` says what the code guarantees: nothing was under
review and the claim was past.

Finally, the comment on `TaskStatus::can_transition_to` (state.rs:110-126) lists no
InProgress → Open, which `expire_claim` performs; the comment is incomplete, the
handlers do not consult the table.

### Bounds and why they are enough

* *Time.* `MaxTime` is the last instant, `ActivityHorizon` the last one at which
  a window may be opened (claim, submission, requested changes, freeze). The gap
  exceeds every window plus the grace period, so each window opened also closes
  inside the model. Windows are one to four instants and keep the order of the program's
  constants (claim buffer and grace shorter than a review window, selection longer); every
  comparison in the code is met from below, at the boundary and from above. The
  code's values are an hour of claim buffer, a minute of grace, a review window of a
  day by default and two days of selection.
* *Claims.* `MaxClaims` (three, or five in the contest) lets a slot be released
  and claimed again, by the same or another worker, including a worker whose
  earlier submission or bond could have survived.
* *Workers.* Two for one or two slots, three for the contest, so that a ghost
  split has a first, a middle and a last entrant. `dispute_team` has two, so that a
  dispute has a peer to settle; `dispute_solo` has one and spends the states on a
  second dispute, which meets the debts of the first.
* *Disputes.* The voting period and its grace are one instant each, so a dispute has two
  instants in which it may be ruled on and from the third on may only expire; it may be
  withdrawn all along. The maximal duration, longer than both here as in the
  program's defaults, does not cut them short. The slash window of one instant
  or none lets a slash come in time and late. `dispute_team` ends with the
  latest expiry and lets one agent leave: there the question is what a
  dispute leaves behind. Half of the stake is slashed, so that a slash is
  told from none and from all; the reward of `dispute_solo` is smaller than the bond
  so that an award does not hide a lost bond. Fees are zero in both runs: the
  settlement is the lifecycle's, whose runs have them.
* *Amounts.* Small, but chosen so that division leaves remainders (21 and 33
  lamports, 20% and 10% fees), that all amounts in play differ, and that a cleanup
  reward can eat into a share. `EscrowRent` is positive so that paying out of
  the rent is visible.
* *Lock.* `MaxAttempts` three or four suffices to lose a race, take over a marker and
  try again; a fourth process is needed for the finding and no more. Two calls
  let a former owner come back and meet its own nonces.
* *Send.* Two retries give three attempts, so that a first, a middle and a last
  one exist; two rechecks have one before and one at the limit. The theorems
  hold for every number of both.
* *Worker.* Two rounds: an original and a revision. Two faults: a crash, and another during
  the recovery from it. `worker_journal` has two tasks and room for both in the ledger, so that two
  payments may be found in one check, or one after the other, or one before and one after
  `totalEarned` is read; Collaborative ones, so that peers complete them under the worker's hands. One hash
  is enough: executing a round again counts even if the output is the same. `worker_progress` has one task and
  spends the states on a lagging node and liveness. No run has more tasks than the ledger has
  room for, so the branch of `commitSubmission` for a full ledger is covered by the theorems
  `JournalAlwaysLoads` and `ResultsAlwaysTracked`, which hold for any number of tasks and any limit.
* A task really stops once it is terminal and swept, or when the model's clock
  ends, so the runs do not check for deadlock.

### Fairness

`FairSpec` assumes weak fairness of `Tick` and, for each worker, of `Crank(w)`:
`auto_accept_task_result`, `distribute_ghost_share`, `expire_reject_frozen`,
`expire_claim` by a stranger and `reclaim_terminal_claim`. These are the
permissionless instructions, for which the code pays a bounty or which the waiting party can
send itself. Nothing is assumed of the creator, the attestor, the authority, or
of workers doing anything. Under `ExternalAttestation` the code has no timeout exit, so a
silent attestor does leave a submission unanswered: `ClaimsAreReleased` exempts a task in
that mode, and `SubmissionsAreAnswered` is checked of a hired task, which cannot enter it.

`FairDisputeSpec` assumes the same of `Tick` and the cranks, and weak fairness of
`Unwinding(i)`: expiry, settlement of peers and both slashes of a dispute, which
anyone may send. Nothing is assumed of the resolver, the initiator or the defendant.

`StateLock`: weak fairness of each process's steps, since a process that has not
died runs on; nobody need ask for the lock or release it. `TransactionSend`: the
client runs, its deadline passes, block heights pass; no answer need arrive
and no block need be produced.

`Worker`: the loop ticks, and a settlement check is followed by a resume again and
again (the timer rounds of `runUp`; strong, since a tick may also be a mere
check). A transaction lands, fails or is dropped, and a lagging node catches up
(the network). Reviews, expiries and sweeps are what `FairSpec` of the lifecycle
shows for a live task, here assumed of the environment; every task is eventually
cancelled or completed (strong, since it may be re-engaged meanwhile). Dates age,
although reading may keep interrupting them (strong). Faults are finitely many.

Two ways a task can wait are the code's own and are not promised otherwise: a
Collaborative task without a deadline that has some completions and no worker
can be neither cancelled nor completed until somebody claims it; and after
cleanup rewards have been paid, a Collaborative escrow can hold too little for an
intermediate share on top of its rent, and that settlement is refused.

## 4. What is proved

The theorems about the lifecycle are for any finite set of workers and any values of the
constants allowed by the named assumptions of `TaskLifecycle`
(`WorkersAssumption`, `TaskAssumption`, `AmountsAssumption`, `FeesAssumption`,
`TimesAssumption`), which state what `create_task` and the hire instructions
validate. The bounds on time and claims are constants too, so the theorems hold
for every value of them.

* `TypeCorrect`: `TypeOK` always holds. It is inductive by itself because every
  decrement is guarded or saturating. It says that no `u8` or `u64` counter
  underflows and that only live claims hold deposits.
* `LamportsAlwaysConserved` (`TaskTypeProofs`): every instruction leaves `Lamports`, the total of
  wallets, escrow, bonds and deposits, as it was. What an instruction does to the escrow is
  compared with what it adds to the wallets; that settlements pay exactly their base comes from
  `RewardSplitProofs`. The total is a sum over the set of wallets, and induction over that set is
  avoided: `RewardSplitProofs` says that a function on the subsets of a finite set *adds up*, shows
  that there is exactly one (a counterexample would have a smallest one), and derives what the
  sum of a function changed at one place, of two functions, or of equal shares is.
* `CountersAlwaysAgree`, `StatusAlwaysMatchesWork`, `EscrowAlwaysBacked`,
  `BondsAlwaysHaveOwners`. None is inductive alone: the status is computed from
  the counters, the counters stay right because the status says which accounts
  exist, the escrow is touched according to the status. They are proved together as `IInv`
  with `Auxiliary`, which adds what they silently use: at most `MaxWorkers`
  slots are taken (so an Exclusive task's claim is the only one), bonds
  and freezes occur on Exclusive tasks only, freezes under review only, and the validation config is open
  while a reviewed task is live. There is one lemma per action; shared pieces
  (a submission leaving review, a claim released, a settlement, an untouched
  escrow) are lemmas of their own.
* `ClaimsNeverStranded` follows from `IInv` by itself: a terminal task with a
  submission under review is a Completed Collaborative one.
* `TerminalStatesAreFinal`: an action property, from `IInv` and the guards.
* `SubmittedWorkAlwaysJudged`, `NoClawbackEver`, `BondsAreLostForCause`
  (`TaskStepProofs`): action properties that need nothing beyond `IInv`. Each is
  proved action by action; the bond theorem adds up what every settlement,
  dismissal, expiry and cancellation pays the bonded worker.
* `PromiseAlwaysKept` (`TaskStepProofs`): the refinement of `TaskPromise`, one lemma per
  instruction. Each shows which engagement the instruction moves (`OneEngagement`: whatever
  happens to a claim, no other worker's engagement changes, which for freezing rests on
  the single claim of an Exclusive task), what leaves the pot, and which action of
  `TaskPromise` that is. `IInv` supplies that the pot is never overdrawn and is
  empty after the end.
* `LegsAreNeverSkipped` (`TaskStepProofs`): the attested settlement passes no
  operator or referrer leg, so the theorem rests on the invariant `LegTerms`: a hire's
  record stays open until the task ends, and a task that is ever attested owes
  no leg. `FeesAssumption` supplies that only hires have an operator fee.
* `ResubmitWindowAlwaysHonoured` (`TaskStepProofs`): from the invariant
  `Windows`, which says that both clocks of a bounced worker, its claim's expiry and
  the task's deadline, cover its window until the window is over. It assumes
  `NeverAttested`: the task is hired or referred (by `LegTerms` it is then never
  attested), or the attested mode is not on offer. The run that checks the
  property (`exclusive_review`) is of a hired task. On other tasks a submission an attestor refused stays `Rejected` when
  its claim is closed; once the task is open and reconfigured, the same worker can
  claim again under an expiry that owes nothing to that old rejection. No changes
  were requested there, so the property says nothing of interest about it.
* `LiabilitiesAlwaysAgree` (`DisputeProofs`), for any workers, stakes, windows and
  number of disputes (`DisputeAssumption`). The counters are compared with the cardinality of
  sets of accounts, so each instruction is shown to add one dispute to such a set, to take one out,
  or to leave it as it is. Not inductive alone: that nobody is charged after having left
  needs that whoever holds a claim has exactly one active task and therefore cannot
  deregister (`Engaged`), that an active dispute carries no verdict yet, and that one
  waiting for settlements knows how it will end (`Fresh`). `DisputeInvariant` proves
  them together; the lifecycle's instructions enter it only through the way they engage or
  release a worker.
* `DisputedTypeCorrect`, `StakesAlwaysConserved` (`DisputeProofs`): the accounts of the task keep their
  types under `DisputeSpec` too, and wallets, escrow, bonds and stakes always add up to the stakes
  the agents registered with. The invariant is `DisputeAccounts`: disputes' own invariant, the
  lifecycle's types, no deposits (disputes of contests are not modelled), and the total. An
  instruction of the lifecycle beside the disputes enters by the same relative law as above,
  a ruling by what it divides the escrow into, a slash by what it moves to the treasury.
* `DisputedCountersAgree` (`DisputeProofs`). The lifecycle's own invariant derives which accounts
  exist from the status, and a dispute suspends the status and later restores it from the
  counters; so here the counters have to be right by themselves. The invariant
  (`DisputeCounters`) keeps of the status only what it excludes (`Tally`: an open task has no
  claims, nothing is under review while it is open, in progress or frozen), and says of the
  disputes (`Phases`) that at most one is undecided, that its task is `Disputed` and its defendant
  still has a claim, and that a decided one has ended the task and the review of the
  defendant's result. The last is what makes the slash, which comes later, release the right slot.
* `ReviewTimeAlwaysGivenBack` (`DisputeProofs`). The debt is one number, added up over all withdrawn
  disputes and never reset; what it owes is a sum per result, over the disputes withdrawn since that
  result was handed in. The invariant `DebtInv` says that the debt covers every such sum: a
  withdrawal adds to the sum of a result under review what it adds to the debt
  (which needs the counters, because the debt is only charged when one is live), and a review that has
  only begun owes nothing yet (which needs that no dispute is dated in the future). It is about
  the creator's review only: an attested result has no review window.
* `DisputedBondsLostForCause` (`DisputeProofs`): an action property. An instruction of the lifecycle
  answers as it does in `BondsAreLostForCause`, whose lemmas ask only for well-formed accounts and for
  nothing under review while the task is in progress. A ruling is followed lamport by lamport:
  it takes no protocol fee, and under the caps alone the share cannot become a charge, even of an award of
  nothing (`WorkerNotCharged`). Because bonds are posted on Exclusive tasks only, a ruling that takes
  one leaves no peers to be settled and is final in the same step.
* `RewardSplitProofs`: the worker gets at least a lamport and nobody a negative amount
  (`WorkerIsPaid`), and with a marketplace leg the worker keeps 60 %
  (`WorkerFloor`, for every amount). That the parts of a settlement add up to its base is a mere
  lemma (`SettlementPaysBase`), since the worker's part is what the others leave; the content is
  that this is never negative.
  The shares of a Collaborative task add up to its reward (`SharesExhaustReward`: an
  explicit formula for what `n` shares pay, its two ends and its step) and differ
  by a lamport at most (`SharesAreEven`). `GhostSlicesStayEven` is the invariant of
  a contest's split: what is left per entrant lies between the same two
  neighbouring amounts after each slice, and the last slice leaves nothing.
* `StateLockProofs`, for any set of processes and any number of attempts and calls:
  `TypeCorrect` and, from the inductive `Invariant`, `AlwaysExclusive`,
  `OwnersAlwaysKeepTheirLock` and `OnlyStaleLocksAreEverReaped`. The invariant says
  who may be behind each directory entry: a reaper between its check and its unlink
  still holds the marker of the very lock it has checked, so nobody else can
  have removed that lock meanwhile. This is what fails when a reaper
  dies with its marker (`lock_reaper_crash`); the theorems other than `TypeCorrect`
  therefore assume `~ReaperCrashes`, as the passing runs do.
* `TransactionSendProofs`, for any number of retries and rechecks, either transport
  and any commitment: `NeverTwoBroadcasts`, `UnsignedErrorsAreUnsent`,
  `CodedErrorsAreFinal`, and `SuccessIsAlwaysConfirmed` for a commitment above
  "processed". The invariant relates the client's place in the code to what it
  has let the cluster see. A coded error is about the program's verdict on
  this transaction, which a cluster that abandons the block may revise: the
  property excludes exactly the attempts in whose history that occurred.
* `WorkerProofs`, for any set of tasks and hashes, any number of rounds and faults
  and any size of the ledger:
  - `JournalAlwaysLoads` needs no further assumption, however late transactions land and however
    stale the reads. Its invariant `LoadInv` says that where the worker is in the code agrees with the
    journal: a result has a hash from its execution on, a settlement check has only picked
    unsettled entries of the ledger, a change request it has seen is of such an entry that nothing
    else was found out about, and submissions are counted no faster than rounds.
  - `EarningsAlwaysBookedOnce` needs none either. It is inductive with `LoadInv`: a check
    books an advance of the counter to the one task it found accepted, which raises the sum by what it
    raises the baseline (`SumOfSums`, `SumOfShares`), or to several without amounts, which moves the
    baseline only; a task that was decided before is never decided again. Nodes may show an old
    total, but never more than was paid.
  - `ClaimsAlwaysTracked`, `ResultsAlwaysTracked`, `ResultsAlwaysCurrent` and `AlwaysExecutedOncePerRound`
    assume `Prompt`: no node lags, reads are faster than the grace period and no claim expires under
    review. These are the switches of the run `worker_journal`, without which the properties fail
    (section 3). They rest on `IInv`, which adds `TrackInv` to `LoadInv`. For a task that is
    neither open nor in the ledger the chain holds nothing of this worker; for the open one
    and those in the ledger the chain is exactly as far as the journal says, or the claim is lost
    and will be found so; only a fresh marker has a transaction in flight; and `WhatIsRead`
    relates what a resume or a settlement check has read, account by account, to what is there now,
    where reviews and sweeps may have come in between. `TrackInv` was checked by
    TLC on Collaborative instances with one and two tasks before it was proved.
    What the other parties can do is summarised by one relation, `Moves`, and what a landing
    does by another, `Lands`, so that each step of the worker is shown once to preserve the
    invariant and none is combined with a step of the environment.
  - Two assumptions say of the constant that stands for "no account" and "no entry" that it
    differs from every value it could be confused with (`AbsentAssumption`, `NoEntryAssumption`).

### Only model-checked

* Liveness (`SubmissionsAreAnswered`, `FreezesEnd`, `ClaimsAreReleased`,
  `DisputesEnd`, `StaleLocksAreReclaimed`, `SendReturns`, `OpenClaimsEnd`, `PaymentsAreReported`):
  outside the prover's reach, since it needs ENABLED and fairness.
* `ResultsAreTracked` with a lagging node on a task that is not Collaborative (`worker_progress`);
  the theorem is for a prompt worker.
* Every safety property of a passing run is proved, with the restrictions named above
  (`NeverAttested`, `~ReaperCrashes`, a prompt worker). Those of `exclusive_review`, `contest` and
  `collab` are proved of `Spec`, which has no disputes. `StatusMatchesWork` is about undisputed tasks only
  (a `Disputed` one may have results under review); that `EscrowBacked` and
  `BondsHaveOwners` also hold under `DisputeSpec` is neither checked nor proved.

## 5. What is not modelled

* Bid-awarded tasks (`BidExclusive`), SPL rewards, dependent tasks and
  private completion as variants of the lifecycle. The modelled task is
  SOL-denominated and has no parent.
* Of disputes: the resolver roster and its conflict-of-interest checks (who may rule
  is left open), disputes of contests, the reserve a disputed SPL task keeps, the rate
  limits on opening one, records of older program versions and the repair of their
  counters. The reputation stake, suspension and delegation of an agent.
* The eligibility of the worker (status, stake, capabilities, own-task ban, its
  limit of ten tasks) and the moderation and pause gates in front of the entry
  instructions: they only restrict who may take a step.
* Reputation gain and the protocol's statistics: they do not feed back into the
  task except as the worker's fee discount, which is a choice among `Terms`.
* Recovery of accounts of tasks created by earlier program versions, and the
  deferred closing of `Task` accounts with retirement proofs.
* The `mainnet-canary` build, which replaces parts of some handlers and leaves
  instructions out.
* Of the worker daemon: registration, funding and hire binding, job specifications,
  the parsing and migration of the state file, SPL payments, receipts, pruning of
  old ledger entries, and the executor. They are steps that may fail.
* Of the SDK's pipeline: simulation, fee and compute-budget selection, and the
  formatting of errors; only whether an error carries a signature and a code.
* The generated clients (two copies of the IDL types and the Codama output) have no
  behaviour but encoding. They, the CLI's templates, the React and MCP front
  ends, the indexer's query client and the upgrade and extension scripts make up
  by far the largest part of the TypeScript in the repository, so only a small share of all
  its lines can be modelled with any meaning. The protocol's own logic is Rust, in
  `programs/agenc-coordination`; the modelled part of it is about twice the size
  of the modelled TypeScript.

`PROJECT.json` lists every component with its status, and the hazards, with the
properties that cover each one or the reason why none does yet.

## 6. Plan

In order of weight; each module comes with its MC instance, properties and
type invariant proof.

1. More proofs over disputes: a `TaskPromise` that knows disputes, refined by
   `DisputeSpec`, and the lifecycle's action properties (judged work, resubmission
   windows, legs) under it.
2. `BidBook`: three bids of two bidders; the number of active bids, the best bid
   and the accepted bid; composed with a one-slot task.
3. `Listings`: capacity of one listing over several hires, each an abstract task
   that ends and is closed. Property: open jobs equal the hires not yet closed.
4. `Governance`: three voters with capped weights; quorum, majority, timelock and
   execution window. Abstract specification: a decision taken at most once.
5. `RateLimits`: windows, cooldowns and the merge of two records, against the
   reference definition "calls in the current window".
6. `AgentStake`: the reputation stake, its slashes and delegations, and what may be
   withdrawn while tasks and disputes are open.
7. The outcome `accepted` and the deferral of `checkSettlements` with a per-task evidence of
   payment, once the code has one: then that "accepted" was paid becomes a property.
8. The marketplace watchers of the SDK (polling and subscriptions merged into one
   stream), and the stages of the upgrade scripts.
9. Moderation roster and goods supply, if they show anything beyond single steps.

## 7. Running

From this directory, `tlc -config MCTask_contest.cfg MCTask` checks one run
(`tlc -config TransactionSend.cfg TransactionSend` the one without an MC module),
`tlapm TaskInvariantProofs.tla` one module's proofs. The slowest runs, `collab`, `worker_journal`,
`dispute_solo` and `dispute_team`, take one to four minutes, the others less than one; `WorkerProofs` takes two to three minutes, each of the
other proof modules about a minute or less.
