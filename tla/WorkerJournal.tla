---------------------------- MODULE WorkerJournal ----------------------------
(***************************************************************************)
(* The worker's write-ahead journal: at most one open claim and a ledger   *)
(* of submitted results, replaced atomically in state.json.  The worker    *)
(* journals before every step it must not repeat or forget: the claim      *)
(* transaction, the run of the executor, the submission.  It may crash     *)
(* between any two steps; the next tick reads the chain, one account at a  *)
(* time, and decides how to go on.                                         *)
(*                                                                         *)
(* The dates in the journal only matter as "younger than the grace period":*)
(* `fresh`.  The grace period outlasts a blockhash and the lag of a node,  *)
(* so a marker gets old only when none of its transactions can still land. *)
(*                                                                         *)
(* An operator named X_Mistake, just before an operator X, is a deliberate *)
(* mistake in X that nothing uses.                                         *)
(***************************************************************************)
EXTENDS WorkerChain

CONSTANTS
  SlowReads,     \* whether the reads of one task may outlast the grace period
  MaxUnsettled,  \* MAX_UNSETTLED_SUBMISSIONS
  MaxFaults      \* bound: crashes, failed reads, lost answers, failed jobs

ASSUME SlowReadsAssumption == SlowReads \in BOOLEAN
ASSUME UnsettledAssumption == MaxUnsettled \in Nat
ASSUME FaultsAssumption == MaxFaults \in Nat

VARIABLES
  open,      \* the journal's open claim, or None
  ledger,    \* the journal's record of each submitted task, or None
  baseline,  \* the journal's totalEarned at the last settlement
  pc,        \* what the worker is doing; this and the rest dies with it
  at,        \* the task it is doing it for, or None
  got,       \* what it has read so far of that task
  todo,      \* unsettled tasks the settlement check has yet to examine
  found,     \* the outcomes it has found so far
  revived,   \* the claim it will restore for a change request, or None
  faults,    \* faults so far
  outputs    \* history: the executor outputs that were journalled

journal == <<open, ledger, baseline>>
checking == <<todo, found, revived>>
worker == <<pc, at, got, checking>>
vars == <<chain, journal, worker, faults, outputs>>

Phases == {"claiming", "claimed", "executed", "submitting"}
Markers == [task: Tasks, phase: Phases, fresh: BOOLEAN,
            rev: 0..MaxRounds, hash: Hashes \cup {None}]
Outcomes == {"pending", "accepted", "rejected", "cancelled", "straggler"}
Unknown == -1
Records == [fresh: BOOLEAN, straggler: BOOLEAN, outcome: Outcomes,
            earned: {Unknown} \cup 0..Cardinality(Tasks)]
Outputs == [task: Tasks, round: 0..MaxRounds, hash: Hashes]

ASSUME NoEntryAssumption == None \notin Markers \cup Records

Marker(t, phase, fresh, rev, hash) ==
  [task |-> t, phase |-> phase, fresh |-> fresh, rev |-> rev, hash |-> hash]
NewRecord == [fresh |-> TRUE, straggler |-> FALSE, outcome |-> "pending",
              earned |-> Unknown]
Unsettled == {t \in Tasks : ledger[t] # None /\ ledger[t].outcome = "pending"}

NoOutcomes == [t \in Tasks |-> "pending"]
Nothing == [task |-> {}, claim |-> {}, sub |-> {}]

JournalInit ==
  /\ open = None
  /\ ledger = [t \in Tasks |-> None]
  /\ baseline = 0
  /\ pc = "idle" /\ at = None /\ got = Nothing
  /\ todo = {} /\ found = NoOutcomes /\ revived = None
  /\ faults = 0
  /\ outputs = {}

Goto(step) == pc' = step /\ UNCHANGED <<at, got>>
Rest(step) == pc' = step /\ at' = None /\ got' = Nothing

Fault == faults < MaxFaults /\ faults' = faults + 1

\* The error ends the tick; the journal stays as it was saved last.
GiveUp ==
  /\ Fault
  /\ Rest("idle")
  /\ todo' = {} /\ found' = NoOutcomes /\ revived' = None
  /\ UNCHANGED <<accounts, journal, outputs>>

\* A crash leaves the transaction it waited for to its fate.
Abandoned == IF call # None /\ call.state = "flight" THEN {call.tx} ELSE {}

Crash ==
  /\ pc # "idle"
  /\ GiveUp
  /\ call' = None
  /\ strays' = strays \cup Abandoned

\* Reading an account, fetching the job specification or the change request,
\* running the executor, uploading: all may fail or time out.
StepFails ==
  /\ pc \in {"resume", "unsure", "execute", "deliver", "unsent", "settle",
             "examine"}
  /\ GiveUp
  /\ UNCHANGED network

\* The age of a date is taken after the reads it is to judge.
Reading == got # Nothing

MarkerAges ==
  /\ open # None /\ open.fresh
  /\ SlowReads \/ ~Reading
  /\ call = None /\ strays = {} /\ behind[open.task] = None
  /\ open' = [open EXCEPT !.fresh = FALSE]
  /\ UNCHANGED <<chain, ledger, baseline, worker, faults, outputs>>

RecordAges ==
  \E t \in Tasks :
    /\ ledger[t] # None /\ ledger[t].fresh /\ behind[t] = None
    /\ SlowReads \/ ~Reading
    /\ ledger' = [ledger EXCEPT ![t].fresh = FALSE]
    /\ UNCHANGED <<chain, open, baseline, worker, faults, outputs>>

\* One account of the task at hand is read.
Read(f) ==
  /\ got[f] = {}
  /\ \E v \in Readable(at, f) : got' = [got EXCEPT ![f] = {v}]
  /\ UNCHANGED <<chain, journal, pc, at, checking, faults, outputs>>

HasRead(fields) == \A f \in fields : got[f] # {}
Seen(f) == CHOOSE v \in got[f] : TRUE

-----------------------------------------------------------------------------
(* Claiming a task.                                                        *)

\* passesLocalFilters, as far as the journal is concerned.
Free(t) == open = None /\ ledger[t] = None

Send(kind, t, hash) ==
  call' = [tx |-> [kind |-> kind, task |-> t, hash |-> hash], state |-> "flight"]

\* processCandidate up to the claim: the marker is saved before the send.
ClaimCandidate(t) ==
  /\ pc = "candidate"
  /\ Free(t)
  /\ "Open" \in Readable(t, "task")
  /\ open' = Marker(t, "claiming", TRUE, 0, None)
  /\ Send("claim", t, None)
  /\ pc' = "claim" /\ at' = t /\ got' = Nothing
  /\ UNCHANGED <<accounts, strays, ledger, baseline, checking, faults, outputs>>

NoCandidate ==
  /\ pc = "candidate"
  /\ Rest("idle")
  /\ UNCHANGED <<chain, journal, checking, faults, outputs>>

\* The SDK returns: with the truth, or without an answer.  A transaction that
\* is still in flight then may land later.
Answered(states) ==
  /\ call # None /\ call.state \in states
  /\ call' = None
  /\ UNCHANGED <<accounts, strays, faults>>

Unanswered ==
  /\ call # None
  /\ Fault
  /\ call' = None
  /\ strays' = strays \cup Abandoned
  /\ UNCHANGED accounts

ClaimLanded ==
  /\ pc = "claim"
  /\ Answered({"landed"})
  /\ open' = Marker(at, "claimed", FALSE, 0, None)
  /\ Goto("execute")
  /\ UNCHANGED <<ledger, baseline, checking, outputs>>

\* An error without a signature or with a program code is definite.
ClaimFailed ==
  /\ pc = "claim"
  /\ \/ Answered({"failed"}) /\ Goto("refuted")
     \/ Unanswered /\ Goto("unsure")
  /\ UNCHANGED <<journal, checking, outputs>>

\* Either way the claim account is read before anything is concluded.
RecoverClaim ==
  /\ pc \in {"refuted", "unsure"}
  /\ \E c \in Readable(at, "claim") :
       IF c # "none"
       THEN open' = Marker(at, "claimed", FALSE, 0, None) /\ Goto("execute")
       ELSE IF pc = "refuted"
       THEN open' = None /\ Rest("candidate")
       ELSE UNCHANGED open /\ Rest("idle")
  /\ UNCHANGED <<chain, ledger, baseline, checking, faults, outputs>>

-----------------------------------------------------------------------------
(* Executing and submitting.                                               *)

\* executeAndSubmit: the output is journalled as soon as the executor ends.
RunExecutor ==
  /\ pc = "execute"
  /\ \E h \in Hashes :
       /\ open' = Marker(at, "executed", FALSE, open.rev, h)
       /\ outputs' = outputs \cup {[task |-> at, round |-> round[at], hash |-> h]}
  /\ Goto("deliver")
  /\ UNCHANGED <<chain, ledger, baseline, checking, faults>>

\* continueExecutedResult: after the upload, the exact submission is saved.
Deliver ==
  /\ pc = "deliver"
  /\ open' = Marker(at, "submitting", TRUE, open.rev, open.hash)
  /\ Goto("submit")
  /\ UNCHANGED <<chain, ledger, baseline, checking, faults, outputs>>

\* submitPreparedResult: the grace period starts anew with every send.
SubmitPrepared ==
  /\ pc = "submit"
  /\ open' = [open EXCEPT !.fresh = TRUE]
  /\ Send("submit", at, open.hash)
  /\ Goto("sent")
  /\ UNCHANGED <<accounts, strays, ledger, baseline, checking, faults, outputs>>

\* commitSubmission: the result moves from the open claim to the ledger, or
\* stays open when the ledger is full.
CommitSubmission(t) ==
  IF ledger[t] = None /\ Cardinality(Unsettled) >= MaxUnsettled
  THEN UNCHANGED journal
  ELSE /\ open' = None
       /\ ledger' = [ledger EXCEPT ![t] = IF @ = None THEN NewRecord ELSE @]
       /\ UNCHANGED baseline

SubmitLanded ==
  /\ pc = "sent"
  /\ Answered({"landed"})
  /\ CommitSubmission(at)
  /\ Rest("idle")
  /\ UNCHANGED <<checking, outputs>>

SubmitFailed ==
  /\ pc = "sent"
  /\ \/ Answered({"failed"})
     \/ Unanswered
  /\ Goto("unsent")
  /\ UNCHANGED <<journal, checking, outputs>>

\* submissionMatchesIntent: the same bytes, in a round later than the refused.
Matches(s) == s.hash = open.hash /\ (open.rev = 0 \/ s.count > open.rev)

RecoverSubmission ==
  /\ pc = "unsent"
  /\ \E s \in Readable(at, "sub") :
       IF Landed(s) /\ Matches(s) THEN CommitSubmission(at) ELSE UNCHANGED journal
  /\ Rest("idle")
  /\ UNCHANGED <<chain, checking, faults, outputs>>

-----------------------------------------------------------------------------
(* resumeOpenClaim.                                                        *)

\* isRevisionRequested: refused, but task and claim are still engaged.
RevisionRequested ==
  /\ Refused(Seen("sub"))
  /\ Seen("claim") = "live"
  /\ Seen("task") \in Engaged

\* restoreRevisionRound: the refused attempt leaves the ledger.
NewRevision == RevisionRequested /\ open.rev # Seen("sub").count

RestoreRevisionRound ==
  /\ open' = Marker(at, "claimed", FALSE, Seen("sub").count, None)
  /\ ledger' = [ledger EXCEPT ![at] = None]
  /\ UNCHANGED baseline

\* The chain already holds what the journal was about to hand in.
Recognised ==
  /\ Landed(Seen("sub"))
  /\ IF open.phase = "submitting" THEN Matches(Seen("sub")) ELSE open.rev = 0

\* The fate of a sent transaction is not settled, or contradicts the journal.
InDoubt_Hasty == open.phase = "submitting" /\ Landed(Seen("sub"))
InDoubt_Forever == open.phase = "submitting"
InDoubt ==
  open.phase = "submitting" /\ (open.fresh \/ Landed(Seen("sub")))

Dismissed ==
  /\ Refused(Seen("sub")) /\ ~RevisionRequested
  /\ \/ Seen("task") = "Open" /\ Seen("claim") # "live"
     \/ Seen("task") \in Ended

ClaimInDoubt_Never == FALSE
ClaimInDoubt ==
  Seen("claim") = "none" /\ open.phase = "claiming" /\ open.fresh

\* Neither account is left, and the task is free or over.
Gone ==
  /\ Seen("claim") = "none" /\ Seen("sub") = None
  /\ Seen("task") \in Ended \cup {"Open"}

\* The accounts were read at different times, or nothing can be done yet.
Incoherent ==
  \/ Seen("claim") = "none"
  \/ /\ open.rev # 0 /\ ~RevisionRequested
     /\ open.phase \in {"claiming", "claimed"}
  \/ Seen("task") # "InProgress"
     /\ ~(RevisionRequested /\ Seen("task") = "PendingValidation")

\* A result that was sent may have been accepted, and its accounts closed.
IfGone_Clear == "clear"
IfGone == IF open.phase = "submitting" THEN "commit" ELSE "clear"

Verdict ==
  IF Recognised THEN "commit"
  ELSE IF InDoubt THEN "wait"
  ELSE IF Dismissed THEN "commit"
  ELSE IF ClaimInDoubt THEN "wait"
  ELSE IF Gone THEN IfGone
  ELSE IF Incoherent THEN "wait"
  ELSE CASE open.phase = "submitting" -> "submit"
         [] open.phase = "executed" -> "deliver"
         [] OTHER -> "execute"

\* A revision is not started without the change request it is to answer.
StartWork_Blindly == Goto("execute")
StartWork ==
  IF RevisionRequested /\ ~Seen("sub").thread THEN Rest("idle")
  ELSE Goto("execute")

ResumeReads ==
  /\ pc = "resume" /\ open # None
  /\ \E f \in {"task", "claim", "sub"} : Read(f)

ResumeNothing ==
  /\ pc = "resume" /\ open = None
  /\ Rest("candidate") \/ Rest("idle")
  /\ UNCHANGED <<chain, journal, checking, faults, outputs>>

ResumeOpenClaim ==
  /\ pc = "resume" /\ HasRead({"task", "claim", "sub"})
  /\ IF NewRevision
     THEN RestoreRevisionRound /\ StartWork
     ELSE \/ Verdict = "commit" /\ CommitSubmission(at) /\ Rest("idle")
          \/ Verdict = "wait" /\ UNCHANGED journal /\ Rest("idle")
          \/ /\ Verdict = "clear"
             /\ open' = None /\ UNCHANGED <<ledger, baseline>>
             /\ Rest("candidate") \/ Rest("idle")
          \/ /\ Verdict \in {"submit", "deliver"}
             /\ UNCHANGED journal
             /\ Goto(Verdict)
          \/ /\ Verdict = "execute"
             /\ open' = [open EXCEPT !.phase = "claimed", !.fresh = FALSE]
             /\ UNCHANGED <<ledger, baseline>>
             /\ StartWork
  /\ UNCHANGED <<chain, checking, faults, outputs>>

=============================================================================
