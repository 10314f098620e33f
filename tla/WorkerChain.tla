----------------------------- MODULE WorkerChain -----------------------------
(***************************************************************************)
(* What one marketplace worker sees of the chain: its tasks, its own claim *)
(* and submission accounts on them, and its transactions on their way.     *)
(* This is the environment of the worker daemon; the instructions are      *)
(* those of TaskLifecycle, cut down to what the worker reads.              *)
(*                                                                         *)
(* A Task account is never closed, and a settlement closes the claim and   *)
(* the submission together, so neither a missing task nor an Accepted      *)
(* submission is ever read.  Disputed and frozen tasks, on which the       *)
(* worker only waits, are left out.                                        *)
(***************************************************************************)
EXTENDS Integers, FiniteSets

CONSTANTS
  Tasks,          \* the tasks the worker may take
  Collaborative,  \* those that several workers complete together
  Hashes,         \* result hashes the executor may produce
  LongReviews,    \* whether a claim may outlive its expiry under review
  Lag,            \* whether a read may be answered by a node that lags
  MaxRounds,      \* bound: claims and change requests per task
  None            \* an absent account, record or transaction

ASSUME TasksAssumption == IsFiniteSet(Tasks) /\ Collaborative \subseteq Tasks
ASSUME SwitchesAssumption == LongReviews \in BOOLEAN /\ Lag \in BOOLEAN
ASSUME RoundsAssumption == MaxRounds \in Nat

Engaged == {"InProgress", "PendingValidation"}
Ended == {"Completed", "Cancelled"}
TaskStatuses == Engaged \cup Ended \cup {"Open"}
ClaimStates == {"none", "live", "expired"}
Submissions ==
  [status: {"Submitted", "Rejected"}, count: 1..MaxRounds, hash: Hashes,
   thread: BOOLEAN]  \* whether rejection_hash names a change request

VARIABLES
  task,    \* the status of each task
  claim,   \* this worker's claim on it
  sub,     \* this worker's submission to it, or None
  round,   \* claims and change requests this worker was granted on it
  paid,    \* tasks this worker was paid for, one reward each
  behind,  \* what a lagging node still shows of each task, or None
  call,    \* the transaction the worker is waiting for, or None
  strays   \* transactions it no longer waits for that may still land

accounts == <<task, claim, sub, round, paid, behind>>
network == <<call, strays>>
chain == <<accounts, network>>

Snapshots == [task: TaskStatuses, claim: ClaimStates, sub: Submissions \cup {None}]
Snapshot(t) == [task |-> task[t], claim |-> claim[t], sub |-> sub[t]]

Transactions == [kind: {"claim", "submit"}, task: Tasks, hash: Hashes \cup {None}]
Calls == [tx: Transactions, state: {"flight", "landed", "failed"}]

ASSUME AbsentAssumption ==
  None \notin Tasks \cup Hashes \cup Submissions \cup Snapshots \cup Calls

ChainInit ==
  /\ task = [t \in Tasks |-> "Open"]
  /\ claim = [t \in Tasks |-> "none"]
  /\ sub = [t \in Tasks |-> None]
  /\ round = [t \in Tasks |-> 0]
  /\ paid = {}
  /\ behind = [t \in Tasks |-> None]
  /\ call = None
  /\ strays = {}

ChainTypeOK ==
  /\ task \in [Tasks -> TaskStatuses]
  /\ claim \in [Tasks -> ClaimStates]
  /\ sub \in [Tasks -> Submissions \cup {None}]
  /\ round \in [Tasks -> 0..MaxRounds]
  /\ paid \subseteq Tasks
  /\ behind \in [Tasks -> Snapshots \cup {None}]
  /\ call \in Calls \cup {None}
  /\ strays \subseteq Transactions

Landed(s) == s # None /\ s.status = "Submitted"
Refused(s) == s # None /\ s.status = "Rejected"

\* totalEarned of the worker's AgentRegistration, one unit per reward.
TotalEarned == Cardinality(paid)

\* The accounts of t change, and a node may not have noticed yet.
Become(t, status, c, s) ==
  /\ task' = [task EXCEPT ![t] = status]
  /\ claim' = [claim EXCEPT ![t] = c]
  /\ sub' = [sub EXCEPT ![t] = s]
  /\ behind' = IF Lag THEN [behind EXCEPT ![t] = Snapshot(t)] ELSE behind

Grant(t) == round' = [round EXCEPT ![t] = @ + 1]

CatchUp(t) ==
  /\ behind[t] # None
  /\ behind' = [behind EXCEPT ![t] = None]
  /\ UNCHANGED <<task, claim, sub, round, paid, network>>

\* What reading the field f of task t may return.
Readable(t, f) ==
  {Snapshot(t)[f]} \cup (IF behind[t] = None THEN {} ELSE {behind[t][f]})

-----------------------------------------------------------------------------
(* The worker's transactions.                                              *)

\* claim_task_with_job_spec
Claimable(t) ==
  /\ claim[t] = "none"
  /\ \/ task[t] = "Open"
     \/ t \in Collaborative /\ task[t] = "InProgress"
  /\ round[t] < MaxRounds

\* submit_task_result
Submittable(t) == claim[t] = "live" /\ task[t] \in Engaged /\ ~Landed(sub[t])

Executable(x) ==
  IF x.kind = "claim" THEN Claimable(x.task) ELSE Submittable(x.task)

Perform(x) ==
  LET t == x.task IN
  IF x.kind = "claim"
  THEN Become(t, "InProgress", "live", sub[t]) /\ Grant(t)
  ELSE /\ Become(t, "PendingValidation", claim[t],
            [status |-> "Submitted", hash |-> x.hash, thread |-> FALSE,
             count |-> IF sub[t] = None THEN 1 ELSE sub[t].count + 1])
       /\ UNCHANGED round

Land ==
  /\ call # None /\ call.state = "flight"
  /\ Executable(call.tx)
  /\ Perform(call.tx)
  /\ call' = [call EXCEPT !.state = "landed"]
  /\ UNCHANGED <<paid, strays>>

\* The instruction fails, in its simulation or in a block.
Fail ==
  /\ call # None /\ call.state = "flight"
  /\ ~Executable(call.tx)
  /\ call' = [call EXCEPT !.state = "failed"]
  /\ UNCHANGED <<accounts, strays>>

LandStray ==
  \E x \in strays :
    /\ Executable(x)
    /\ Perform(x)
    /\ strays' = strays \ {x}
    /\ UNCHANGED <<paid, call>>

\* Its blockhash is too old, or executing it has failed.
DropStray ==
  \E x \in strays : strays' = strays \ {x} /\ UNCHANGED <<accounts, call>>

-----------------------------------------------------------------------------
(* The other parties.                                                      *)

\* What a task whose claim is released goes back to.
Released(t) ==
  {"Open"} \cup (IF t \in Collaborative THEN {"InProgress"} ELSE {})

\* accept_task_result, auto_accept_task_result and their kind: the worker is
\* paid and both its accounts are closed.  A Collaborative task may go on.
Accept(t) ==
  /\ Landed(sub[t]) /\ task[t] = "PendingValidation"
  /\ \E s \in {"Completed"} \cup (IF t \in Collaborative THEN Released(t) ELSE {}) :
       Become(t, s, "none", None)
  /\ paid' = paid \cup {t}
  /\ UNCHANGED <<round, network>>

\* reject_task_result closes the submission; a refusing attestor leaves it.
Reject(t) ==
  /\ Landed(sub[t]) /\ task[t] = "PendingValidation"
  /\ \E s \in Released(t), left \in {None, [sub[t] EXCEPT !.status = "Rejected"]} :
       Become(t, s, "none", left)
  /\ UNCHANGED <<round, paid, network>>

\* request_changes: the claim lives on.
RequestChanges(t) ==
  /\ Landed(sub[t]) /\ task[t] = "PendingValidation"
  /\ round[t] < MaxRounds
  /\ Become(t, "InProgress", "live",
            [sub[t] EXCEPT !.status = "Rejected", !.thread = TRUE])
  /\ Grant(t)
  /\ UNCHANGED <<paid, network>>

\* The claim outlives its expiry, and expire_claim removes it.
ExpireClaim(t) ==
  /\ \/ /\ claim[t] = "live"
        /\ LongReviews \/ ~Landed(sub[t])
        /\ Become(t, task[t], "expired", sub[t])
     \/ /\ claim[t] = "expired"
        /\ task[t] \in Engaged
        /\ ~Landed(sub[t])
        /\ \E s \in Released(t) : Become(t, s, "none", sub[t])
  /\ UNCHANGED <<round, paid, network>>

\* cancel_task, of an unclaimed task or of one whose deadline has passed.
Cancel(t) ==
  /\ task[t] \in {"Open", "InProgress"}
  /\ Become(t, "Cancelled", "none", sub[t])
  /\ UNCHANGED <<round, paid, network>>

\* Another worker takes the task, gives it up, or completes it; peers may
\* complete a Collaborative task under this worker's hands.
OthersWork(t) ==
  /\ \/ /\ task[t] = "Open"
        /\ Become(t, "InProgress", "none", sub[t])
     \/ /\ task[t] = "InProgress" /\ claim[t] = "none"
        /\ Become(t, "Open", "none", sub[t])
     \/ /\ task[t] \in Engaged
        /\ claim[t] = "none" \/ t \in Collaborative
        /\ Become(t, "Completed", claim[t], sub[t])
  /\ UNCHANGED <<round, paid, network>>

\* reclaim_terminal_claim and close_task sweep what an ended task left.
Sweep(t) ==
  /\ task[t] \in Ended
  /\ claim[t] # "none" \/ Refused(sub[t])
  /\ Become(t, task[t], "none", None)
  /\ UNCHANGED <<round, paid, network>>

ChainNext ==
  \/ Land \/ Fail \/ LandStray \/ DropStray
  \/ \E t \in Tasks :
       \/ CatchUp(t) \/ Accept(t) \/ Reject(t) \/ RequestChanges(t)
       \/ ExpireClaim(t) \/ Cancel(t) \/ OthersWork(t) \/ Sweep(t)

=============================================================================
