------------------------------- MODULE Worker -------------------------------
(***************************************************************************)
(* The worker daemon: the settlement check over the ledger, the loop of    *)
(* runTickOnce and runUp that alternates it with resuming the open claim   *)
(* and trying a new candidate, and what the worker promises.  The loop     *)
(* serializes these steps, and the state lock (StateLock) keeps a second   *)
(* process out.                                                            *)
(***************************************************************************)
EXTENDS WorkerJournal, Functions

\* Outcomes that the account of the worker's earnings must confirm.
Acceptances == {t \in Tasks : found[t] = "accepted"}

\* Every tick starts here; `up` also checks settlements between candidates.
Settle ==
  /\ pc = "idle"
  /\ pc' = "settle"
  /\ todo' = Unsettled
  /\ UNCHANGED <<chain, journal, at, got, found, revived, faults, outputs>>

Record == ledger[at]
Old == ~Record.fresh

\* Which tasks are looked into beyond their status.
NeedsAccounts(status) ==
  \/ status \in Engaged /\ Old /\ open = None /\ revived = None
  \/ status = "Completed"
  \/ status = "Open" /\ Old

SettleNext ==
  /\ pc = "settle" /\ todo # {}
  /\ \E t \in todo, status \in TaskStatuses :
       /\ status \in Readable(t, "task")
       /\ at' = t /\ todo' = todo \ {t}
       /\ got' = [Nothing EXCEPT !.task = {status}]
  /\ pc' = "examine"
  /\ UNCHANGED <<chain, journal, found, revived, faults, outputs>>

ExamineReads ==
  /\ pc = "examine" /\ NeedsAccounts(Seen("task"))
  /\ \E f \in {"claim", "sub"} : Read(f)

\* Completed says the task is over, not that this worker was paid: a result
\* still under review is a straggler, and two closed accounts an acceptance,
\* if the worker's earnings agree.
CompletedOutcome_NeedsEvidence ==
  IF Refused(Seen("sub")) THEN "rejected" ELSE "pending"
CompletedOutcome ==
  CASE Refused(Seen("sub")) -> "rejected"
    [] Landed(Seen("sub")) ->
         IF at \in Collaborative THEN "straggling" ELSE "pending"
    [] Seen("sub") = None /\ Seen("claim") # "none" -> "pending"
    [] OTHER -> IF Record.straggler THEN "straggler" ELSE "accepted"

OpenOutcome ==
  IF Refused(Seen("sub")) /\ Seen("claim") # "live" THEN "rejected" ELSE "pending"

Outcome ==
  CASE Seen("task") = "Cancelled" -> "cancelled"
    [] Seen("task") = "Completed" -> CompletedOutcome
    [] Seen("task") = "Open" /\ Old -> OpenOutcome
    [] OTHER -> "pending"

\* A refused result whose claim is still live goes back to work.
Examine ==
  /\ pc = "examine"
  /\ NeedsAccounts(Seen("task")) => HasRead({"claim", "sub"})
  /\ found' = [found EXCEPT ![at] = Outcome]
  /\ revived' =
       IF NeedsAccounts(Seen("task")) /\ RevisionRequested
       THEN Marker(at, "claimed", FALSE, Seen("sub").count, None)
       ELSE revived
  /\ Rest("settle")
  /\ UNCHANGED <<chain, journal, todo, faults, outputs>>

\* The state saved at the end of a check, when the worker's account shows e.
Decided(t, e) ==
  /\ found[t] \notin {"pending", "straggling"}
  /\ found[t] = "accepted" => e > baseline

Earned_Each(t, e) == IF found[t] = "accepted" THEN e - baseline ELSE 0
Earned(t, e) ==
  IF found[t] # "accepted" THEN 0
  ELSE IF Cardinality(Acceptances) = 1 THEN e - baseline ELSE Unknown

Reconciled_KeepsRevived(t, e) ==
  IF Decided(t, e)
  THEN [ledger[t] EXCEPT !.outcome = found[t], !.earned = Earned(t, e)]
  ELSE ledger[t]
Reconciled(t, e) ==
  IF Decided(t, e)
  THEN [ledger[t] EXCEPT !.outcome = found[t], !.earned = Earned(t, e)]
  ELSE IF found[t] = "straggling" THEN [ledger[t] EXCEPT !.straggler = TRUE]
  ELSE IF revived # None /\ revived.task = t THEN None
  ELSE ledger[t]

NewBaseline(e) == IF Acceptances # {} /\ e > baseline THEN e ELSE baseline

\* A node that has caught up with every task has also seen every payment.
EarnedReadable ==
  IF \A t \in Tasks : behind[t] = None THEN {TotalEarned} ELSE 0..TotalEarned

SettleDone ==
  /\ pc = "settle" /\ todo = {}
  /\ \E e \in EarnedReadable :
       /\ ledger' = [t \in Tasks |-> Reconciled(t, e)]
       /\ baseline' = NewBaseline(e)
  /\ open' = IF revived = None THEN open ELSE revived
  /\ found' = NoOutcomes /\ revived' = None
  /\ \/ Rest("idle")
     \/ /\ pc' = "resume" /\ got' = Nothing
        /\ at' = IF open' = None THEN None ELSE open'.task
  /\ UNCHANGED <<chain, todo, faults, outputs>>

-----------------------------------------------------------------------------
Tick ==
  \/ Settle \/ SettleNext \/ ExamineReads \/ Examine \/ SettleDone
  \/ ResumeReads \/ ResumeNothing \/ ResumeOpenClaim
  \/ \E t \in Tasks : ClaimCandidate(t)
  \/ NoCandidate \/ ClaimLanded \/ ClaimFailed \/ RecoverClaim
  \/ RunExecutor \/ Deliver \/ SubmitPrepared \/ SubmitLanded
  \/ SubmitFailed \/ RecoverSubmission

Environment ==
  \/ (ChainNext /\ UNCHANGED <<journal, worker, faults, outputs>>)
  \/ MarkerAges \/ RecordAges

Next == Tick \/ Crash \/ StepFails \/ Environment

Init == ChainInit /\ JournalInit
Spec == Init /\ [][Next]_vars

-----------------------------------------------------------------------------
TypeOK ==
  /\ ChainTypeOK
  /\ open \in Markers \cup {None}
  /\ ledger \in [Tasks -> Records \cup {None}]
  /\ baseline \in 0..Cardinality(Tasks)
  /\ at \in Tasks \cup {None}
  /\ todo \subseteq Tasks
  /\ revived \in Markers \cup {None}
  /\ faults \in 0..MaxFaults
  /\ outputs \subseteq Outputs

Tracked(t) == (open # None /\ open.task = t) \/ ledger[t] # None

\* A claim the worker holds, or may still come to hold, is in the journal
\* whatever crashed or went unanswered (processCandidate, resumeOpenClaim).
ClaimsAreTracked ==
  /\ \A t \in Tasks : claim[t] # "none" => Tracked(t)
  /\ \A x \in strays : Tracked(x.task)

\* Nor is a result forgotten that was handed in and may have been paid
\* (commitSubmission, checkSettlements).
ResultsAreTracked ==
  \A t \in Tasks : Landed(sub[t]) \/ t \in paid => Tracked(t)

\* The journal can be loaded again: its entries are well formed (and so is the
\* rest of the state), it holds no more than the ledger's limit, and no task is
\* both open and in the ledger, which makes currentState refuse the file for good.
JournalLoads ==
  /\ TypeOK
  /\ open # None => ledger[open.task] = None
  /\ Cardinality(Unsettled) <= MaxUnsettled

\* The executor's output is journalled once for every round of work the chain
\* grants, and never produced again (executeAndSubmit, continueExecutedResult).
ExecutedOncePerRound ==
  [][RunExecutor => \A o \in outputs : o.task = at => o.round # round[at]]_vars

\* What is under review was produced for this very round: no transaction of an
\* earlier one lands late (TRANSACTION_RECONCILIATION_GRACE_MS).
ResultsAreCurrent ==
  \A t \in Tasks : Landed(sub[t]) =>
    [task |-> t, round |-> round[t], hash |-> sub[t].hash] \in outputs

Settled(t) == ledger[t] # None /\ ledger[t].outcome # "pending"

Booked(t) == IF Settled(t) /\ ledger[t].earned # Unknown THEN ledger[t].earned ELSE 0
Shared == {t \in Tasks : Settled(t) /\ ledger[t].earned = Unknown}

\* What is reported as earned, task by task, never adds up to more than the
\* worker was paid.  All payments show in one counter: each of its advances is
\* booked once, to the task accepted alone, or left to several without a
\* share of theirs (checkSettlements).
EarningsBookedOnce ==
  /\ SumFunctionOnSet([t \in Tasks |-> Booked(t)], Tasks)
       + (IF Shared = {} THEN 0 ELSE 1) <= baseline
  /\ baseline <= TotalEarned

-----------------------------------------------------------------------------
(* Progress, once faults are over, if every task ends and every claim and  *)
(* review with it.  Each tick checks settlements and then resumes.         *)
Ends(t) ==
  \/ Cancel(t)
  \/ OthersWork(t) /\ task'[t] = "Completed"

Aside == UNCHANGED <<journal, worker, faults, outputs>>

Fairness ==
  /\ WF_vars(Tick) /\ SF_vars(SettleDone /\ pc' = "resume")
  /\ SF_vars(MarkerAges) /\ SF_vars(RecordAges)
  /\ WF_vars((Land \/ Fail) /\ Aside) /\ WF_vars((LandStray \/ DropStray) /\ Aside)
  /\ \A t \in Tasks :
       /\ WF_vars(CatchUp(t) /\ Aside)
       /\ WF_vars((Accept(t) \/ Reject(t) \/ RequestChanges(t)) /\ Aside)
       /\ WF_vars(ExpireClaim(t) /\ Aside)
       /\ SF_vars(Ends(t) /\ Aside)

FairSpec == Spec /\ Fairness

\* No task is worked on for ever: the open claim is submitted or given up, and
\* the worker is free again (resumeOpenClaim).
OpenClaimsEnd == []<>(open = None)

\* A payment is sooner or later reported for the task that was paid: earnings
\* that have not advanced only defer the settlement (checkSettlements).
PaymentsAreReported ==
  \A t \in Tasks : t \in paid ~> Settled(t) /\ ledger[t].outcome = "accepted"

=============================================================================
