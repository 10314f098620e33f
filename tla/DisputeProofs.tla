---------------------------- MODULE DisputeProofs ----------------------------
(***************************************************************************)
(* What holds of a task that may be disputed, for any workers, stakes,     *)
(* windows and number of disputes: the counters that keep a party's stake  *)
(* are the disputes it is answerable for; lamports only move between       *)
(* accounts; the counters of the task and its agents agree with the claims *)
(* and submissions; disputes do not spend the time to review; and they cost*)
(* a worker its bond only for cause.                                       *)
(***************************************************************************)
EXTENDS DisputeProperties, TaskStepProofs, SequenceTheorems

DisputeStatuses == {"Active", "SettlementPending", "Resolved", "Expired", "Cancelled"}

Records ==
  [status : DisputeStatuses, initiator : Agents, defendant : Workers,
   resolution : Resolutions, approved : BOOLEAN,
   created_at : Nat, resolved_at : Nat, worker_stake : Int,
   pending_terminal : {"none", "Resolved", "Expired"}, peers : Nat,
   slash_applied : BOOLEAN, initiator_slash_applied : BOOLEAN]

\* The fields a dispute reads and the ones it keeps.
DisputeType ==
  /\ disputes \in Seq(Records)
  /\ as_defendant \in [Agents -> Nat] /\ outcomes_due \in [Agents -> Nat]
  /\ stake \in [Agents -> Int]

\* Who has a claim is engaged once, and still registered.  This is why a
\* dispute can only be opened against somebody who cannot have left.
Engaged ==
  /\ now \in Nat /\ current_workers \in Nat
  /\ claims \subseteq Workers \cap registered
  /\ active_tasks \in [Workers -> Nat]
  /\ \A w \in Workers : active_tasks[w] = IF w \in claims THEN 1 ELSE 0

\* A dispute that is charged to its defendant, and one due to its initiator.
Charged(d) == d.status = "Active" \/ (WorkerLost(d) /\ ~d.slash_applied)
Due(d) == ~d.initiator_slash_applied

\* Nothing has been decided about an active dispute, and one that waits for
\* its claims to be settled knows how it ends.
InPhase(d) ==
  /\ d.status = "Active" => ~d.approved /\ ~d.slash_applied
  /\ d.status = "SettlementPending" => d.pending_terminal # "none"

Fresh == \A i \in Opened : InPhase(disputes[i])

DInv == DisputeType /\ Engaged /\ Fresh /\ LiabilitiesAgree

-----------------------------------------------------------------------------
(***************************************************************************)
(* Steps of the lifecycle: they leave the disputes alone and engage or     *)
(* release workers, in one of three ways.                                  *)
(***************************************************************************)
Untouched ==
  now' \in {now, now + 1} /\ UNCHANGED <<claims, active_tasks, current_workers>>

Released(w) ==
  now' = now /\ claims' = claims \ {w} /\ (ReleaseSlot(w) \/ SaturatingRelease(w))

Joined(w) ==
  /\ now' = now /\ w \notin claims /\ w \in registered
  /\ claims' = claims \cup {w}
  /\ current_workers' = current_workers + 1
  /\ active_tasks' = [active_tasks EXCEPT ![w] = @ + 1]

LEMMA UntouchedEngaged ==
  ASSUME Engaged, Untouched, registered' = registered
  PROVE  Engaged'
BY DEF Engaged, Untouched

LEMMA ReleasedEngaged ==
  ASSUME Engaged, NEW w \in Workers, Released(w), registered' = registered
  PROVE  Engaged'
BY DEF Engaged, Released, ReleaseSlot, SaturatingRelease, Dec

LEMMA JoinedEngaged ==
  ASSUME Engaged, NEW w \in Workers, Joined(w), registered' = registered
  PROVE  Engaged'
BY DEF Engaged, Joined

LEMMA CancelEngaged ==
  ASSUME Engaged, CancelTask, registered' = registered
  PROVE  Engaged'
<1>1. /\ now' = now /\ current_workers' = 0
      /\ \E swept \in SUBSET claims :
           /\ claims' = claims \ swept
           /\ active_tasks' = [w \in Workers |->
                IF w \in swept THEN Dec(active_tasks[w]) ELSE active_tasks[w]]
  BY DEF CancelTask
<1> QED
  BY <1>1 DEF Engaged, Dec

LEMMA SettlementReleases ==
  ASSUME NEW w \in Workers, NEW terms, NEW extra,
         ExecuteCompletionRewards(w, terms, extra), CloseClaim(w), now' = now
  PROVE  Released(w)
BY DEF ExecuteCompletionRewards, CloseClaim, Released

LEMMA ReviewEngaged ==
  ASSUME Engaged, NEW w \in Workers, ReviewStep(w), registered' = registered
  PROVE  Engaged'
<1>1. ASSUME NEW terms \in Terms,
             \/ AcceptTaskResult(w, terms) \/ ValidateTaskResult(w, terms)
             \/ ResolveFrozenForWorker(w, terms)
      PROVE  Released(w)
  BY <1>1, SettlementReleases
  DEF AcceptTaskResult, ValidateTaskResult, AcceptSubmission, ResolveFrozenForWorker
<1>2. CASE RejectTaskResult(w) \/ RefuseTaskResult(w) \/ ResolveFrozenForCreator(w)
  <2>1. Released(w)
    BY <1>2 DEF RejectTaskResult, RefuseTaskResult, ResolveFrozenForCreator,
                CloseClaim, Released
  <2> QED
    BY <2>1, ReleasedEngaged
<1>3. CASE RequestChanges(w) \/ RejectAndFreeze(w)
  <2>1. Untouched
    BY <1>3 DEF RequestChanges, RejectAndFreeze, claimVars, Untouched
  <2> QED
    BY <2>1, UntouchedEngaged
<1> QED
  BY <1>1, <1>2, <1>3, ReleasedEngaged DEF ReviewStep

LEMMA AgentEngaged ==
  ASSUME Engaged, NEW w \in Workers, AgentStep(w)
  PROVE  Engaged' /\ UNCHANGED disputeVars
<1>1. UNCHANGED disputeVars
  BY DEF AgentStep, Undisputed
<1>2. registered' = registered
  BY <1>1 DEF disputeVars
<1>3. CASE w \in registered /\ ClaimTask(w)
  <2>1. Joined(w)
    BY <1>3 DEF ClaimTask, Joined
  <2> QED
    BY <1>1, <1>2, <2>1, JoinedEngaged
<1>4. ASSUME NEW terms \in Terms, CompleteTask(w, terms)
      PROVE  Released(w)
  BY <1>4, SettlementReleases DEF CompleteTask
<1>5. CASE ExpireClaim(w, w)
  <2>1. Released(w)
    BY <1>5 DEF ExpireClaim, CloseClaim, Released
  <2> QED
    BY <1>1, <1>2, <2>1, ReleasedEngaged
<1>6. CASE SubmitTaskResult(w) \/ PostWorkerBond(w)
  <2>1. Untouched
    BY <1>6 DEF SubmitTaskResult, PostWorkerBond, PostBond, claimVars,
                counterVars, Untouched
  <2> QED
    BY <1>1, <1>2, <2>1, UntouchedEngaged
<1> QED
  BY <1>1, <1>2, <1>3, <1>4, <1>5, <1>6, ReleasedEngaged DEF AgentStep, Undisputed

LEMMA CrankEngaged ==
  ASSUME Engaged, NEW w \in Workers, DisputeCrank(w)
  PROVE  Engaged' /\ UNCHANGED disputeVars
<1>1. UNCHANGED disputeVars
  BY DEF DisputeCrank, Undisputed
<1>2. registered' = registered
  BY <1>1 DEF disputeVars
<1>3. ASSUME NEW terms \in Terms,
             AutoAcceptTaskResult(w, terms) \/ ExpireRejectFrozen(w, terms)
      PROVE  Released(w)
  BY <1>3, SettlementReleases
  DEF AutoAcceptTaskResult, AcceptSubmission, ExpireRejectFrozen
<1>4. ASSUME ExpireClaim(w, "cranker") \/ ReclaimTerminalClaim(w)
      PROVE  Released(w)
  BY <1>4 DEF ExpireClaim, ReclaimTerminalClaim, CloseClaim, Released
<1> QED
  BY <1>1, <1>2, <1>3, <1>4, ReleasedEngaged DEF DisputeCrank, Undisputed

LEMMA OwnerEngaged ==
  ASSUME Engaged, OwnerStep
  PROVE  Engaged' /\ UNCHANGED disputeVars
<1>1. UNCHANGED disputeVars
  BY DEF OwnerStep, Undisputed
<1>2. registered' = registered
  BY <1>1 DEF disputeVars
<1>3. CASE CancelTask
  BY <1>1, <1>2, <1>3, CancelEngaged
<1>4. ASSUME \/ \E m \in ManualModes : ConfigureTaskValidation(m)
             \/ PostCreatorBond
             \/ \E b \in BOOLEAN, s \in SUBSET Workers : CloseTask(b, s)
      PROVE  Untouched
  BY <1>4 DEF ConfigureTaskValidation, PostCreatorBond, PostBond, CloseTask,
              claimVars, counterVars, Untouched
<1> QED
  BY <1>1, <1>2, <1>3, <1>4, UntouchedEngaged DEF OwnerStep, Undisputed

\* What such a step leaves alone stays right.
LEMMA UndisputedInv ==
  ASSUME DInv, Engaged', UNCHANGED disputeVars
  PROVE  DInv'
BY DEF DInv, disputeVars, DisputeType, Fresh, LiabilitiesAgree, HeldAgainst,
       OutcomesOf, Opened, WorkerLost

-----------------------------------------------------------------------------
(***************************************************************************)
(* Counting: what one rewritten Dispute account does to the two counters.  *)
(***************************************************************************)
DefendantsAgree == \A a \in Agents : as_defendant[a] = Cardinality(HeldAgainst(a))
OutcomesAgree == \A a \in Agents : outcomes_due[a] = Cardinality(OutcomesOf(a))
LiableStay ==
  \A a \in Agents : as_defendant[a] + outcomes_due[a] > 0 => a \in registered

LEMMA LiabilityParts ==
  LiabilitiesAgree <=> DefendantsAgree /\ OutcomesAgree /\ LiableStay
BY DEF LiabilitiesAgree, DefendantsAgree, OutcomesAgree, LiableStay

LEMMA HeldFinite ==
  ASSUME DisputeType, NEW a \in Agents
  PROVE  /\ IsFiniteSet(HeldAgainst(a)) /\ Cardinality(HeldAgainst(a)) \in Nat
         /\ IsFiniteSet(OutcomesOf(a)) /\ Cardinality(OutcomesOf(a)) \in Nat
<1>1. Opened = 1..Len(disputes) /\ Len(disputes) \in Nat
  BY DEF DisputeType, Opened
<1>2. IsFiniteSet(1..Len(disputes))
  BY <1>1, FS_Interval
<1>3. HeldAgainst(a) \in SUBSET (1..Len(disputes)) /\ OutcomesOf(a) \in SUBSET (1..Len(disputes))
  BY <1>1 DEF HeldAgainst, OutcomesOf
<1>4. IsFiniteSet(HeldAgainst(a)) /\ IsFiniteSet(OutcomesOf(a))
  BY <1>2, <1>3, FS_Subset
<1> QED
  BY <1>4, FS_CardinalityType

LEMMA Rewritten ==
  ASSUME DisputeType, NEW i \in Opened, NEW d \in Records, Update(i, d)
  PROVE  /\ disputes' \in Seq(Records) /\ Opened' = Opened
         /\ disputes'[i] = d
         /\ \A j \in Opened : j # i => disputes'[j] = disputes[j]
<1>1. i \in 1..Len(disputes) /\ Opened = 1..Len(disputes)
  BY DEF DisputeType, Opened
<1>2. disputes' = [disputes EXCEPT ![i] = d]
  BY DEF Update
<1> QED
  BY <1>1, <1>2, ExceptSeq DEF DisputeType, Opened

\* The dispute is charged to its defendant before and after, or never was.
LEMMA HeldKept ==
  ASSUME DisputeType, DefendantsAgree, NEW i \in Opened, NEW d \in Records, Update(i, d),
         d.defendant = disputes[i].defendant, Charged(d) <=> Charged(disputes[i]),
         as_defendant' = as_defendant
  PROVE  DefendantsAgree'
<1>1. \A a \in Agents : HeldAgainst(a)' = HeldAgainst(a)
  BY Rewritten DEF HeldAgainst, Charged, WorkerLost
<1> QED
  BY <1>1 DEF DefendantsAgree

\* It ceases to be charged, and the counter is taken down by one.
LEMMA HeldDropped ==
  ASSUME DisputeType, DefendantsAgree, NEW i \in Opened, NEW d \in Records, Update(i, d),
         d.defendant = disputes[i].defendant, Charged(disputes[i]), ~Charged(d),
         as_defendant' = [as_defendant EXCEPT ![d.defendant] = Dec(@)]
  PROVE  DefendantsAgree'
<1> DEFINE w == d.defendant
<1>0. w \in Workers /\ w \in Agents
  BY DEF Records, Agents
<1>1. \A a \in Agents : a # w => HeldAgainst(a)' = HeldAgainst(a)
  BY Rewritten DEF HeldAgainst
<1>2. HeldAgainst(w)' = HeldAgainst(w) \ {i} /\ i \in HeldAgainst(w)
  BY Rewritten DEF HeldAgainst, Charged, WorkerLost
<1>3. Cardinality(HeldAgainst(w)') = Cardinality(HeldAgainst(w)) - 1
  BY <1>0, <1>2, HeldFinite, FS_RemoveElement
<1>4. as_defendant[w] = Cardinality(HeldAgainst(w)) /\ as_defendant[w] \in Nat
  BY <1>0 DEF DefendantsAgree, DisputeType
<1>5. Cardinality(HeldAgainst(w)') \in Nat
  BY <1>0, <1>2, HeldFinite, FS_RemoveElement, FS_CardinalityType
<1>6. as_defendant'[w] = Cardinality(HeldAgainst(w)')
  BY <1>0, <1>3, <1>4, <1>5 DEF DisputeType, Dec
<1> QED
  BY <1>0, <1>1, <1>6 DEF DefendantsAgree, DisputeType

LEMMA OutcomesKept ==
  ASSUME DisputeType, OutcomesAgree, NEW i \in Opened, NEW d \in Records, Update(i, d),
         d.initiator = disputes[i].initiator, Due(d) <=> Due(disputes[i]),
         outcomes_due' = outcomes_due
  PROVE  OutcomesAgree'
<1>1. \A a \in Agents : OutcomesOf(a)' = OutcomesOf(a)
  BY Rewritten DEF OutcomesOf, Due
<1> QED
  BY <1>1 DEF OutcomesAgree

LEMMA OutcomesDropped ==
  ASSUME DisputeType, OutcomesAgree, NEW i \in Opened, NEW d \in Records, Update(i, d),
         d.initiator = disputes[i].initiator, Due(disputes[i]), ~Due(d),
         outcomes_due' = [outcomes_due EXCEPT ![d.initiator] = @ - 1]
  PROVE  OutcomesAgree'
<1> DEFINE v == d.initiator
<1>0. v \in Agents
  BY DEF Records
<1>1. \A a \in Agents : a # v => OutcomesOf(a)' = OutcomesOf(a)
  BY Rewritten DEF OutcomesOf
<1>2. OutcomesOf(v)' = OutcomesOf(v) \ {i} /\ i \in OutcomesOf(v)
  BY Rewritten DEF OutcomesOf, Due
<1>3. Cardinality(OutcomesOf(v)') = Cardinality(OutcomesOf(v)) - 1
  BY <1>0, <1>2, HeldFinite, FS_RemoveElement
<1> QED
  BY <1>0, <1>1, <1>3 DEF OutcomesAgree, DisputeType

-----------------------------------------------------------------------------
(***************************************************************************)
(* The instructions of a dispute.                                          *)
(***************************************************************************)
\* What a rewritten account leaves to show.
LEMMA RewrittenInv ==
  ASSUME DInv, Engaged', NEW i \in Opened, NEW d \in Records, Update(i, d),
         InPhase(d), DefendantsAgree', OutcomesAgree',
         as_defendant' \in [Agents -> Nat], outcomes_due' \in [Agents -> Nat],
         stake' \in [Agents -> Int], registered' = registered,
         \A a \in Agents : /\ as_defendant'[a] <= as_defendant[a]
                           /\ outcomes_due'[a] <= outcomes_due[a]
  PROVE  DInv'
<1>1. DisputeType'
  BY Rewritten DEF DInv, DisputeType
<1>2. Fresh'
  BY Rewritten DEF DInv, Fresh
<1>3. LiableStay'
  BY LiabilityParts DEF DInv, LiableStay, DisputeType
<1> QED
  BY <1>1, <1>2, <1>3 DEF DInv, LiabilitiesAgree, DefendantsAgree, OutcomesAgree, LiableStay

\* initiate_dispute: a registered agent against the holder of a claim, who is
\* registered because it is engaged.
LEMMA InitiateInv ==
  ASSUME DInv, NEW a \in Agents, NEW w \in Workers, NEW r \in Resolutions,
         InitiateDispute(a, w, r)
  PROVE  DInv'
<1> DEFINE n == Len(disputes)
           d == [status |-> "Active", initiator |-> a, defendant |-> w,
                 resolution |-> r, approved |-> FALSE,
                 created_at |-> now, resolved_at |-> 0, worker_stake |-> stake[w],
                 pending_terminal |-> "none", peers |-> 0,
                 slash_applied |-> FALSE, initiator_slash_applied |-> FALSE]
<1>1. /\ disputes' = Append(disputes, d)
      /\ as_defendant' = [as_defendant EXCEPT ![w] = @ + 1]
      /\ outcomes_due' = [outcomes_due EXCEPT ![a] = @ + 1]
      /\ a \in registered /\ w \in claims /\ registered' = registered /\ stake' = stake
      /\ Untouched
  BY DEF InitiateDispute, counterVars, claimVars, Untouched
<1>2. w \in Agents
  BY DEF Agents
<1>3. d \in Records
  BY <1>2 DEF DInv, DisputeType, Engaged, Records, DisputeStatuses
<1>4. /\ disputes' \in Seq(Records) /\ n \in Nat
      /\ Opened = 1..n /\ Opened' = 1..(n + 1)
      /\ disputes'[n + 1] = d
      /\ \A j \in Opened : disputes'[j] = disputes[j]
  <2> HIDE DEF d
  <2> QED
    BY <1>1, <1>3, AppendProperties DEF DInv, DisputeType, Opened
<1>5. n + 1 \notin Opened
  BY <1>4
<1>6. Engaged'
  BY <1>1, UntouchedEngaged DEF DInv
<1>7. DefendantsAgree'
  <2>1. \A v \in Agents : v # w => HeldAgainst(v)' = HeldAgainst(v)
    BY <1>4, <1>5 DEF HeldAgainst, WorkerLost
  <2>2. HeldAgainst(w)' = HeldAgainst(w) \cup {n + 1} /\ n + 1 \notin HeldAgainst(w)
    BY <1>4, <1>5 DEF HeldAgainst, WorkerLost
  <2>3. Cardinality(HeldAgainst(w)') = Cardinality(HeldAgainst(w)) + 1
    BY <1>2, <2>2, HeldFinite, FS_AddElement DEF DInv
  <2> QED
    BY <1>1, <1>2, <2>1, <2>3, LiabilityParts DEF DInv, DefendantsAgree, DisputeType
<1>8. OutcomesAgree'
  <2>1. \A v \in Agents : v # a => OutcomesOf(v)' = OutcomesOf(v)
    BY <1>4, <1>5 DEF OutcomesOf
  <2>2. OutcomesOf(a)' = OutcomesOf(a) \cup {n + 1} /\ n + 1 \notin OutcomesOf(a)
    BY <1>4, <1>5 DEF OutcomesOf
  <2>3. Cardinality(OutcomesOf(a)') = Cardinality(OutcomesOf(a)) + 1
    BY <2>2, HeldFinite, FS_AddElement DEF DInv
  <2> QED
    BY <1>1, <2>1, <2>3, LiabilityParts DEF DInv, OutcomesAgree, DisputeType
<1>9. LiableStay'
  BY <1>1, <1>2, LiabilityParts DEF DInv, DisputeType, Engaged, LiableStay
<1>10. DisputeType' /\ Fresh'
  BY <1>1, <1>2, <1>4 DEF DInv, DisputeType, Fresh, InPhase
<1> QED
  BY <1>6, <1>7, <1>8, <1>9, <1>10
  DEF DInv, LiabilitiesAgree, DefendantsAgree, OutcomesAgree, LiableStay

LEMMA CountedDown ==
  ASSUME as_defendant \in [Agents -> Nat], NEW w \in Agents,
         as_defendant' = [as_defendant EXCEPT ![w] = Dec(@)]
  PROVE  /\ as_defendant' \in [Agents -> Nat]
         /\ \A a \in Agents : as_defendant'[a] <= as_defendant[a]
BY DEF Dec

LEMMA CancelDisputeInv ==
  ASSUME DInv, NEW i \in Opened, CancelDispute(i)
  PROVE  DInv'
<1> DEFINE old == disputes[i]
           d == [old EXCEPT !.status = "Cancelled", !.resolved_at = now]
<1>1. /\ old.status = "Active" /\ Update(i, d) /\ Untouched
      /\ as_defendant' = [as_defendant EXCEPT ![old.defendant] = Dec(@)]
      /\ outcomes_due' = outcomes_due /\ stake' = stake /\ registered' = registered
  BY DEF CancelDispute, counterVars, claimVars, Untouched
<1>2. old \in Records
  BY DEF DInv, DisputeType, Opened
<1>3. /\ d \in Records /\ InPhase(d)
      /\ d.initiator = old.initiator /\ d.defendant = old.defendant
      /\ Charged(old) /\ ~Charged(d) /\ (Due(d) <=> Due(old))
  BY <1>1, <1>2 DEF DInv, Engaged, Fresh, InPhase, Records, DisputeStatuses, Charged,
                    WorkerLost, Due
<1>4. old.defendant \in Agents
  BY <1>2 DEF Records, Agents
<1> HIDE DEF d
<1>5. DefendantsAgree'
  BY <1>1, <1>3, HeldDropped, LiabilityParts DEF DInv
<1>6. OutcomesAgree'
  BY <1>1, <1>3, OutcomesKept, LiabilityParts DEF DInv
<1>7. Engaged'
  BY <1>1, UntouchedEngaged DEF DInv
<1>8. /\ as_defendant' \in [Agents -> Nat]
      /\ \A a \in Agents : as_defendant'[a] <= as_defendant[a]
  BY <1>1, <1>4, CountedDown DEF DInv, DisputeType
<1>9. /\ outcomes_due' \in [Agents -> Nat] /\ stake' \in [Agents -> Int]
      /\ \A a \in Agents : outcomes_due'[a] <= outcomes_due[a]
  BY <1>1 DEF DInv, DisputeType
<1> QED
  BY <1>1, <1>3, <1>5, <1>6, <1>7, <1>8, <1>9, RewrittenInv

\* A ruling or an expiry: the defendant is released unless it is to be slashed.
LEMMA EndInv ==
  ASSUME DInv, NEW i \in Opened, NEW approved \in BOOLEAN,
         disputes[i].status = "Active",
         NEW terminal \in {"Resolved", "Expired"},
         EndDispute(i, [disputes[i] EXCEPT !.approved = approved], terminal)
  PROVE  DInv'
<1> DEFINE old == disputes[i]
           ruled == [old EXCEPT !.approved = approved]
           lost == WorkerLost(ruled)
           peers == Dec(current_workers)
           d == [ruled EXCEPT !.status = IF peers = 0 THEN terminal ELSE "SettlementPending",
                              !.pending_terminal = terminal, !.peers = peers,
                              !.resolved_at = now]
<1>1. /\ Update(i, d) /\ now' = now
      /\ current_workers' = peers + IF lost THEN 1 ELSE 0
      /\ ReleaseDefendant(ruled.defendant, lost)
      /\ outcomes_due' = outcomes_due /\ stake' = stake /\ registered' = registered
  BY DEF EndDispute
<1>2. old \in Records
  BY DEF DInv, DisputeType, Opened
<1>3. peers \in Nat
  BY DEF DInv, Engaged, Dec
<1>4. /\ ruled \in Records /\ ruled.defendant = old.defendant /\ ruled.approved = approved
      /\ ruled.initiator = old.initiator /\ ~ruled.slash_applied
      /\ (Due(ruled) <=> Due(old)) /\ ruled.resolution = old.resolution
  BY <1>2 DEF DInv, Fresh, InPhase, Records, Due
<1>5. Charged(old)
  BY DEF Charged
<1> HIDE DEF ruled
<1>6. /\ d \in Records /\ InPhase(d)
      /\ d.initiator = old.initiator /\ d.defendant = old.defendant
      /\ (Charged(d) <=> lost) /\ (Due(d) <=> Due(old))
  <2> HIDE DEF peers
  <2>1. d \in Records
    BY <1>3, <1>4 DEF DInv, Engaged, Records, DisputeStatuses
  <2>2. /\ d.status # "Active" /\ d.pending_terminal = terminal
        /\ d.approved = ruled.approved /\ d.resolution = ruled.resolution
        /\ d.slash_applied = ruled.slash_applied
        /\ d.initiator_slash_applied = ruled.initiator_slash_applied
        /\ d.initiator = ruled.initiator /\ d.defendant = ruled.defendant
    BY <1>4 DEF Records
  <2> HIDE DEF d
  <2> QED
    BY <1>4, <2>1, <2>2 DEF InPhase, Charged, WorkerLost, Due
<1>7. old.defendant \in Workers /\ old.defendant \in Agents
  BY <1>2 DEF Records, Agents
<1> HIDE DEF d
<1>8. OutcomesAgree'
  BY <1>1, <1>6, OutcomesKept, LiabilityParts DEF DInv
<1>9. CASE lost
  <2>1. as_defendant' = as_defendant /\ UNCHANGED <<active_tasks, claims>>
    BY <1>1, <1>9 DEF ReleaseDefendant, claimVars
  <2>2. DefendantsAgree'
    BY <1>1, <1>5, <1>6, <1>9, <2>1, HeldKept, LiabilityParts DEF DInv
  <2>3. Engaged'
    BY <1>1, <1>3, <1>9, <2>1 DEF DInv, Engaged
  <2>4. /\ as_defendant' \in [Agents -> Nat] /\ outcomes_due' \in [Agents -> Nat]
        /\ stake' \in [Agents -> Int]
        /\ \A a \in Agents : /\ as_defendant'[a] <= as_defendant[a]
                             /\ outcomes_due'[a] <= outcomes_due[a]
    BY <1>1, <2>1 DEF DInv, DisputeType
  <2> QED
    BY <1>1, <1>6, <1>8, <2>2, <2>3, <2>4, RewrittenInv
<1>10. CASE ~lost
  <2>1. /\ as_defendant' = [as_defendant EXCEPT ![old.defendant] = Dec(@)]
        /\ active_tasks' = [active_tasks EXCEPT ![old.defendant] = Dec(@)]
        /\ claims' = claims \ {old.defendant}
    BY <1>1, <1>4, <1>10 DEF ReleaseDefendant, CloseClaim
  <2>2. DefendantsAgree'
    BY <1>1, <1>5, <1>6, <1>10, <2>1, HeldDropped, LiabilityParts DEF DInv
  <2>3. Engaged'
    BY <1>1, <1>3, <1>7, <1>10, <2>1 DEF DInv, Engaged, Dec
  <2>4. /\ as_defendant' \in [Agents -> Nat]
        /\ \A a \in Agents : as_defendant'[a] <= as_defendant[a]
    BY <1>7, <2>1, CountedDown DEF DInv, DisputeType
  <2>5. /\ outcomes_due' \in [Agents -> Nat] /\ stake' \in [Agents -> Int]
        /\ \A a \in Agents : outcomes_due'[a] <= outcomes_due[a]
    BY <1>1 DEF DInv, DisputeType
  <2> QED
    BY <1>1, <1>6, <1>8, <2>2, <2>3, <2>4, <2>5, RewrittenInv
<1> QED
  BY <1>9, <1>10

LEMMA ResolveInv ==
  ASSUME DInv, NEW i \in Opened, NEW approved \in BOOLEAN, NEW terms \in Terms,
         ResolveDispute(i, approved, terms)
  PROVE  DInv'
<1>1. /\ disputes[i].status = "Active"
      /\ EndDispute(i, [disputes[i] EXCEPT !.approved = approved], "Resolved")
  <2>1. disputes[i] \in Records
    BY DEF DInv, DisputeType, Opened
  <2> QED
    BY <2>1 DEF ResolveDispute, Records
<1> QED
  BY <1>1, EndInv

LEMMA ExpireInv ==
  ASSUME DInv, NEW i \in Opened, ExpireDispute(i)
  PROVE  DInv'
<1>1. disputes[i].status = "Active" /\ EndDispute(i, disputes[i], "Expired")
  BY DEF ExpireDispute
<1>2. disputes[i] = [disputes[i] EXCEPT !.approved = FALSE]
  <2>1. disputes[i] \in Records
    BY DEF DInv, DisputeType, Opened
  <2>2. disputes[i].approved = FALSE
    BY <1>1, <2>1 DEF DInv, Fresh, InPhase, Records
  <2> QED
    BY <2>1, <2>2 DEF Records
<1>3. EndDispute(i, [disputes[i] EXCEPT !.approved = FALSE], "Expired")
  BY <1>1, <1>2
<1> QED
  BY <1>1, <1>3, EndInv

\* settle_dispute_claim: a claim of another worker goes, the dispute stays
\* decided as it was.
LEMMA SettleInv ==
  ASSUME DInv, NEW i \in Opened, NEW w \in Workers, SettleDisputeClaim(i, w)
  PROVE  DInv'
<1> DEFINE old == disputes[i]
           d == [old EXCEPT !.peers = @ - 1,
                            !.status = IF old.peers = 1 THEN old.pending_terminal ELSE @]
<1>1. /\ old.status = "SettlementPending" /\ old.peers > 0 /\ Update(i, d)
      /\ w \in claims /\ now' = now
      /\ current_workers > 0 /\ current_workers' = current_workers - 1
      /\ active_tasks' = [active_tasks EXCEPT ![w] = Dec(@)]
      /\ claims' = claims \ {w}
      /\ as_defendant' = as_defendant /\ outcomes_due' = outcomes_due
      /\ stake' = stake /\ registered' = registered
  BY DEF SettleDisputeClaim, CloseClaim
<1>2. old \in Records
  BY DEF DInv, DisputeType, Opened
<1>3. /\ d \in Records /\ InPhase(d)
      /\ d.initiator = old.initiator /\ d.defendant = old.defendant
      /\ (Charged(d) <=> Charged(old)) /\ (Due(d) <=> Due(old))
  <2>1. old.peers - 1 \in Nat
    BY <1>1, <1>2 DEF Records
  <2>2. old.pending_terminal \in {"Resolved", "Expired"}
    BY <1>1, <1>2 DEF DInv, Fresh, InPhase, Records
  <2>3. CASE old.peers = 1
    BY <1>1, <1>2, <2>1, <2>2, <2>3
    DEF Records, DisputeStatuses, InPhase, Charged, WorkerLost, Due
  <2>4. CASE old.peers # 1
    BY <1>1, <1>2, <2>1, <2>2, <2>4
    DEF Records, DisputeStatuses, InPhase, Charged, WorkerLost, Due
  <2> QED
    BY <2>3, <2>4
<1> HIDE DEF d
<1>4. Engaged'
  BY <1>1 DEF DInv, Engaged, Dec
<1>5. DefendantsAgree' /\ OutcomesAgree'
  BY <1>1, <1>3, HeldKept, OutcomesKept, LiabilityParts DEF DInv
<1>6. /\ as_defendant' \in [Agents -> Nat] /\ outcomes_due' \in [Agents -> Nat]
      /\ stake' \in [Agents -> Int]
      /\ \A a \in Agents : /\ as_defendant'[a] <= as_defendant[a]
                           /\ outcomes_due'[a] <= outcomes_due[a]
  BY <1>1 DEF DInv, DisputeType
<1> QED
  BY <1>1, <1>3, <1>4, <1>5, <1>6, RewrittenInv

\* apply_dispute_slash: the charge and the claim of the loser go together.
LEMMA ApplyDisputeSlashInv ==
  ASSUME DInv, NEW i \in Opened, ApplyDisputeSlash(i)
  PROVE  DInv'
<1> DEFINE old == disputes[i]
           w == old.defendant
           amount == IF now <= old.resolved_at + SlashWindow
                     THEN SlashOf(old.worker_stake, stake[w]) ELSE 0
           d == [old EXCEPT !.slash_applied = TRUE]
<1>1. /\ old.status = "Resolved" /\ WorkerLost(old) /\ ~old.slash_applied
      /\ Update(i, d) /\ now' = now
      /\ stake' = [stake EXCEPT ![w] = @ - amount]
      /\ as_defendant' = [as_defendant EXCEPT ![w] = Dec(@)]
      /\ SaturatingRelease(w) /\ claims' = claims \ {w}
      /\ outcomes_due' = outcomes_due /\ registered' = registered
  BY DEF ApplyDisputeSlash, CloseClaim
<1>2. old \in Records
  BY DEF DInv, DisputeType, Opened
<1>3. /\ d \in Records /\ InPhase(d)
      /\ d.initiator = old.initiator /\ d.defendant = w
      /\ Charged(old) /\ ~Charged(d) /\ (Due(d) <=> Due(old))
  BY <1>1, <1>2 DEF Records, InPhase, Charged, WorkerLost, Due
<1>4. w \in Workers /\ w \in Agents
  BY <1>2 DEF Records, Agents
<1>5. amount \in Int
  <2>1. stake[w] \in Int /\ old.worker_stake \in Int
    BY <1>2, <1>4 DEF DInv, DisputeType, Records
  <2> QED
    BY <2>1, DisputeAssumption DEF SlashOf
<1> HIDE DEF d, amount
<1>6. Engaged'
  <2>1. Released(w)
    BY <1>1 DEF Released
  <2> QED
    BY <1>1, <1>4, <2>1, ReleasedEngaged DEF DInv
<1>7. DefendantsAgree'
  BY <1>1, <1>3, HeldDropped, LiabilityParts DEF DInv
<1>8. OutcomesAgree'
  BY <1>1, <1>3, OutcomesKept, LiabilityParts DEF DInv
<1>9. /\ as_defendant' \in [Agents -> Nat]
      /\ \A a \in Agents : as_defendant'[a] <= as_defendant[a]
  BY <1>1, <1>4, CountedDown DEF DInv, DisputeType
<1>10. /\ outcomes_due' \in [Agents -> Nat]
       /\ \A a \in Agents : outcomes_due'[a] <= outcomes_due[a]
  BY <1>1 DEF DInv, DisputeType
<1>11. stake' \in [Agents -> Int]
  <2>1. stake \in [Agents -> Int] /\ stake[w] - amount \in Int
    BY <1>4, <1>5 DEF DInv, DisputeType
  <2> QED
    BY <1>1, <2>1
<1> QED
  BY <1>1, <1>3, <1>6, <1>7, <1>8, <1>9, <1>10, <1>11, RewrittenInv

LEMMA ApplyInitiatorSlashInv ==
  ASSUME DInv, NEW i \in Opened, ApplyInitiatorSlash(i)
  PROVE  DInv'
<1> DEFINE old == disputes[i]
           v == old.initiator
           amount == IF InitiatorLost(old) THEN SlashOf(stake[v], stake[v]) ELSE 0
           d == [old EXCEPT !.initiator_slash_applied = TRUE]
<1>1. /\ Due(old) /\ Update(i, d) /\ Untouched /\ outcomes_due[v] > 0
      /\ stake' = [stake EXCEPT ![v] = @ - amount]
      /\ outcomes_due' = [outcomes_due EXCEPT ![v] = @ - 1]
      /\ as_defendant' = as_defendant /\ registered' = registered
  BY DEF ApplyInitiatorSlash, counterVars, claimVars, Untouched, Due
<1>2. old \in Records /\ InPhase(old)
  BY DEF DInv, DisputeType, Opened, Fresh
<1>3. /\ d \in Records /\ InPhase(d)
      /\ d.initiator = v /\ d.defendant = old.defendant
      /\ (Charged(d) <=> Charged(old)) /\ ~Due(d)
  BY <1>2 DEF Records, InPhase, Charged, WorkerLost, Due
<1>4. v \in Agents
  BY <1>2 DEF Records
<1>5. amount \in Int
  <2>1. stake[v] \in Int
    BY <1>4 DEF DInv, DisputeType
  <2> QED
    BY <2>1, DisputeAssumption DEF SlashOf
<1> HIDE DEF d, amount
<1>6. Engaged'
  BY <1>1, UntouchedEngaged DEF DInv
<1>7. DefendantsAgree'
  BY <1>1, <1>3, HeldKept, LiabilityParts DEF DInv
<1>8. OutcomesAgree'
  BY <1>1, <1>3, OutcomesDropped, LiabilityParts DEF DInv
<1>9. /\ outcomes_due' \in [Agents -> Nat]
      /\ \A a \in Agents : outcomes_due'[a] <= outcomes_due[a]
  BY <1>1, <1>4 DEF DInv, DisputeType
<1>10. /\ as_defendant' \in [Agents -> Nat] /\ stake' \in [Agents -> Int]
       /\ \A a \in Agents : as_defendant'[a] <= as_defendant[a]
  BY <1>1, <1>4, <1>5 DEF DInv, DisputeType
<1> QED
  BY <1>1, <1>3, <1>6, <1>7, <1>8, <1>9, <1>10, RewrittenInv

\* deregister_agent: nothing is due and no claim is held.
LEMMA DeregisterInv ==
  ASSUME DInv, NEW a \in Agents, DeregisterAgent(a)
  PROVE  DInv'
<1>1. /\ OwesNothing(a) /\ registered' = registered \ {a}
      /\ stake' = [stake EXCEPT ![a] = 0]
      /\ UNCHANGED <<now, claims, active_tasks, current_workers, disputes,
                     as_defendant, outcomes_due>>
  BY DEF DeregisterAgent, counterVars, claimVars
<1>2. Engaged'
  BY <1>1 DEF DInv, Engaged, OwesNothing
<1>3. DisputeType' /\ Fresh'
  BY <1>1 DEF DInv, DisputeType, Fresh, Opened
<1>4. DefendantsAgree' /\ OutcomesAgree'
  BY <1>1, LiabilityParts
  DEF DInv, DefendantsAgree, OutcomesAgree, HeldAgainst, OutcomesOf, Opened, WorkerLost
<1>5. LiableStay'
  BY <1>1, LiabilityParts DEF DInv, LiableStay, OwesNothing
<1> QED
  BY <1>2, <1>3, <1>4, <1>5
  DEF DInv, LiabilitiesAgree, DefendantsAgree, OutcomesAgree, LiableStay

-----------------------------------------------------------------------------
(***************************************************************************)
(* The theorem.                                                            *)
(***************************************************************************)
LEMMA InitInv ==
  ASSUME DisputeInit
  PROVE  DInv
<1>1. /\ disputes = <<>> /\ claims = {} /\ now = 0 /\ current_workers = 0
      /\ active_tasks = [w \in Workers |-> 0] /\ registered = Agents
      /\ as_defendant = [a \in Agents |-> 0] /\ outcomes_due = [a \in Agents |-> 0]
      /\ stake = [a \in Agents |-> Stake]
  BY DEF DisputeInit, Init
<1>2. disputes \in Seq(Records) /\ Opened = {}
  BY <1>1 DEF Opened
<1>3. DisputeType /\ Fresh /\ Engaged
  BY <1>1, <1>2, DisputeAssumption DEF DisputeType, Fresh, Engaged, Agents
<1>4. \A a \in Agents : HeldAgainst(a) = {} /\ OutcomesOf(a) = {}
  BY <1>2 DEF HeldAgainst, OutcomesOf
<1>5. Cardinality({}) = 0
  BY FS_EmptySet
<1> QED
  BY <1>1, <1>3, <1>4, <1>5 DEF DInv, LiabilitiesAgree

LEMMA NextInv ==
  ASSUME DInv, [DisputeNext]_allVars
  PROVE  DInv'
<1>1. CASE UNCHANGED allVars
  <2>1. UNCHANGED disputeVars /\ Untouched
    BY <1>1 DEF allVars, vars, counterVars, claimVars, disputeVars, Untouched
  <2> QED
    BY <2>1, UntouchedEngaged, UndisputedInv DEF DInv, disputeVars
<1>2. CASE Undisputed(Tick)
  <2>1. UNCHANGED disputeVars /\ Untouched
    BY <1>2 DEF Undisputed, Tick, counterVars, claimVars, Untouched
  <2> QED
    BY <2>1, UntouchedEngaged, UndisputedInv DEF DInv, disputeVars
<1>3. CASE OwnerStep
  BY <1>3, OwnerEngaged, UndisputedInv DEF DInv
<1>4. ASSUME NEW w \in Workers, Undisputed(ReviewStep(w))
      PROVE  DInv'
  BY <1>4, ReviewEngaged, UndisputedInv DEF DInv, Undisputed, disputeVars
<1>5. ASSUME NEW w \in Workers, AgentStep(w) \/ DisputeCrank(w)
      PROVE  DInv'
  BY <1>5, AgentEngaged, CrankEngaged, UndisputedInv DEF DInv
<1>6. ASSUME NEW a \in Agents, NEW w \in Workers, NEW r \in Resolutions,
             InitiateDispute(a, w, r)
      PROVE  DInv'
  BY <1>6, InitiateInv
<1>7. ASSUME NEW i \in Opened, CancelDispute(i)
      PROVE  DInv'
  BY <1>7, CancelDisputeInv
<1>8. ASSUME NEW i \in Opened, NEW approved \in BOOLEAN, NEW terms \in Terms,
             ResolveDispute(i, approved, terms)
      PROVE  DInv'
  BY <1>8, ResolveInv
<1>9. ASSUME NEW i \in Opened, Unwinding(i)
      PROVE  DInv'
  BY <1>9, ExpireInv, SettleInv, ApplyDisputeSlashInv, ApplyInitiatorSlashInv
  DEF Unwinding
<1>10. ASSUME NEW a \in Agents, DeregisterAgent(a)
       PROVE  DInv'
  BY <1>10, DeregisterInv
<1> QED
  BY <1>1, <1>2, <1>3, <1>4, <1>5, <1>6, <1>7, <1>8, <1>9, <1>10
  DEF DisputeNext, Opened

\* The inductive invariant: the accounts are well formed, whoever has a claim
\* is engaged once and registered, and the liabilities agree.
THEOREM DisputeInvariant == DisputeSpec => []DInv
<1>1. DisputeInit => DInv
  BY InitInv
<1>2. DInv /\ [DisputeNext]_allVars => DInv'
  BY NextInv
<1> QED
  BY <1>1, <1>2, PTL DEF DisputeSpec

\* Whatever the parties, the resolver and the cranks do, and however many
\* disputes are opened, an agent's dispute counters are the disputes it is
\* answerable for, and nobody answerable for one has deregistered.
THEOREM LiabilitiesAlwaysAgree == DisputeSpec => []LiabilitiesAgree
<1>1. DInv => LiabilitiesAgree
  BY DEF DInv
<1> QED
  BY <1>1, DisputeInvariant, PTL

-----------------------------------------------------------------------------
(***************************************************************************)
(* Conservation.  A task that may be disputed keeps its accounts well      *)
(* formed, holds no entry deposits, and moves lamports only between what   *)
(* the parties hold, the escrow, the bonds and the stakes.                 *)
(***************************************************************************)
\* The instructions of the lifecycle are what they are without disputes.
LifecycleStep ==
  \/ Undisputed(Tick)
  \/ OwnerStep
  \/ \E w \in Workers : Undisputed(ReviewStep(w)) \/ AgentStep(w) \/ DisputeCrank(w)

LEMMA LifecycleSteps ==
  ASSUME LifecycleStep
  PROVE  Next /\ UNCHANGED disputeVars
<1>1. CASE Undisputed(Tick)
  BY <1>1 DEF Undisputed, Next
<1>2. CASE OwnerStep
  BY <1>2 DEF OwnerStep, Undisputed, CreatorStep, Next
<1>3. ASSUME NEW w \in Workers, Undisputed(ReviewStep(w))
      PROVE  Next /\ UNCHANGED disputeVars
  BY <1>3 DEF Undisputed, Next
<1>4. ASSUME NEW w \in Workers, AgentStep(w)
      PROVE  Next /\ UNCHANGED disputeVars
  <2>1. WorkerStep(w) /\ UNCHANGED disputeVars
    BY <1>4 DEF AgentStep, Undisputed, WorkerStep
  <2> QED
    BY <2>1 DEF Next
<1>5. ASSUME NEW w \in Workers, DisputeCrank(w)
      PROVE  Next /\ UNCHANGED disputeVars
  <2>1. Crank(w) /\ UNCHANGED disputeVars
    BY <1>5 DEF DisputeCrank, Undisputed, Crank
  <2> QED
    BY <2>1 DEF Next
<1> QED
  BY <1>1, <1>2, <1>3, <1>4, <1>5 DEF LifecycleStep

\* Only a contest takes entry deposits.
NoDeposits == deposited = {}

LEMMA ReviewNoDeposits ==
  ASSUME NoDeposits, NEW w \in Workers, ReviewStep(w)
  PROVE  NoDeposits'
<1>1. ASSUME NEW terms, AcceptSubmission(w, terms) PROVE NoDeposits'
  BY <1>1 DEF AcceptSubmission, CloseClaim, NoDeposits
<1>2. ASSUME NEW terms, ResolveFrozenForWorker(w, terms) PROVE NoDeposits'
  BY <1>2 DEF ResolveFrozenForWorker, CloseClaim, NoDeposits
<1>3. CASE RejectTaskResult(w)
  BY <1>3 DEF RejectTaskResult, CloseClaim, NoDeposits
<1>4. CASE RefuseTaskResult(w)
  BY <1>4 DEF RefuseTaskResult, CloseClaim, NoDeposits
<1>5. CASE ResolveFrozenForCreator(w)
  BY <1>5 DEF ResolveFrozenForCreator, CloseClaim, NoDeposits
<1>6. CASE RequestChanges(w)
  BY <1>6 DEF RequestChanges, NoDeposits
<1>7. CASE RejectAndFreeze(w)
  BY <1>7 DEF RejectAndFreeze, claimVars, NoDeposits
<1> QED
  BY <1>1, <1>2, <1>3, <1>4, <1>5, <1>6, <1>7
  DEF ReviewStep, AcceptTaskResult, ValidateTaskResult

LEMMA ExpireClaimNoDeposits ==
  ASSUME NoDeposits, NEW w \in Workers, NEW caller, ExpireClaim(w, caller)
  PROVE  NoDeposits'
BY DEF ExpireClaim, CloseClaim, NoDeposits

LEMMA WorkerNoDeposits ==
  ASSUME NoDeposits, NEW w \in Workers, WorkerStep(w)
  PROVE  NoDeposits'
<1>1. CASE ClaimTask(w)
  <2>1. ~ContestConfigured
    BY DisputeAssumption DEF ContestConfigured, Contest
  <2> QED
    BY <1>1, <2>1 DEF ClaimTask, NoDeposits
<1>2. CASE SubmitTaskResult(w)
  BY <1>2 DEF SubmitTaskResult, claimVars, NoDeposits
<1>3. ASSUME NEW terms \in Terms, CompleteTask(w, terms) PROVE NoDeposits'
  BY <1>3 DEF CompleteTask, CloseClaim, NoDeposits
<1>4. CASE PostWorkerBond(w)
  BY <1>4 DEF PostWorkerBond, PostBond, claimVars, NoDeposits
<1> QED
  BY <1>1, <1>2, <1>3, <1>4, ExpireClaimNoDeposits DEF WorkerStep

LEMMA CrankNoDeposits ==
  ASSUME NoDeposits, NEW w \in Workers, Crank(w)
  PROVE  NoDeposits'
<1>1. ASSUME NEW terms \in Terms, AutoAcceptTaskResult(w, terms) PROVE NoDeposits'
  BY <1>1 DEF AutoAcceptTaskResult, AcceptSubmission, CloseClaim, NoDeposits
<1>2. ASSUME NEW terms \in Terms, DistributeGhostShare(w, terms) PROVE NoDeposits'
  BY <1>2 DEF DistributeGhostShare, CloseClaim, NoDeposits
<1>3. ASSUME NEW terms \in Terms, ExpireRejectFrozen(w, terms) PROVE NoDeposits'
  BY <1>3 DEF ExpireRejectFrozen, CloseClaim, NoDeposits
<1>4. CASE ReclaimTerminalClaim(w)
  BY <1>4 DEF ReclaimTerminalClaim, CloseClaim, NoDeposits
<1> QED
  BY <1>1, <1>2, <1>3, <1>4, ExpireClaimNoDeposits DEF Crank

LEMMA NextNoDeposits ==
  ASSUME NoDeposits, Next
  PROVE  NoDeposits'
<1>1. CASE Tick
  BY <1>1 DEF Tick, claimVars, NoDeposits
<1>2. CASE CreatorStep
  BY <1>2 DEF CreatorStep, ConfigureTaskValidation, CancelTask, PostCreatorBond, PostBond,
              CloseTask, claimVars, NoDeposits
<1> QED
  BY <1>1, <1>2, ReviewNoDeposits, WorkerNoDeposits, CrankNoDeposits DEF Next

-----------------------------------------------------------------------------
\* The balances of a task without deposits, and the stakes.
AccountsOK == DInv /\ TypeOK /\ NoDeposits
Total == Lamports + SumFunction(stake)

LEMMA AgentsFinite == IsFiniteSet(Agents) /\ Agents \in SUBSET Parties
<1>1. IsFiniteSet({"creator"})
  BY FS_Singleton
<1> QED
  BY <1>1, WorkersAssumption, FS_Union DEF Agents, Parties, Others

LEMMA StakesType ==
  ASSUME stake \in [Agents -> Int]
  PROVE  SumFunction(stake) \in Int
BY AgentsFinite, SumType DEF SumFunction

\* What one agent's stake loses.
LEMMA StakeTaken ==
  ASSUME stake \in [Agents -> Int], NEW a \in Agents, NEW n \in Int,
         stake' = [stake EXCEPT ![a] = @ - n]
  PROVE  SumFunction(stake') = SumFunction(stake) - n
<1> DEFINE loss == [b \in Agents |-> IF b \in {a} THEN -n ELSE 0]
<1>1. loss \in [Agents -> Int]
  OBVIOUS
<1>2. stake' = [b \in Agents |-> stake[b] + loss[b]]
  <2>1. \A b \in Agents : stake'[b] = stake[b] + loss[b]
    OBVIOUS
  <2>2. stake' = [b \in Agents |-> stake'[b]]
    OBVIOUS
  <2> HIDE DEF loss
  <2> QED
    BY <2>1, <2>2
<1>3. SumFunctionOnSet(loss, Agents) = (-n) * Cardinality({a})
  BY AgentsFinite, SumOfShares, {a} \in SUBSET Agents, -n \in Int
<1>4. Cardinality({a}) = 1
  BY FS_Singleton
<1>5. SumFunctionOnSet(loss, Agents) = -n
  BY <1>3, <1>4
<1> HIDE DEF loss
<1>6. SumFunctionOnSet(stake', Agents)
        = SumFunctionOnSet(stake, Agents) + SumFunctionOnSet(loss, Agents)
  <2>1. IsFiniteSet(Agents)
    BY AgentsFinite
  <2>2. SumFunctionOnSet([b \in Agents |-> stake[b] + loss[b]], Agents)
          = SumFunctionOnSet(stake, Agents) + SumFunctionOnSet(loss, Agents)
    BY <1>1, <2>1, SumOfSums
  <2> QED
    BY <1>2, <2>2
<1>7. SumFunctionOnSet(stake, Agents) \in Int
  BY AgentsFinite, SumType
<1>8. DOMAIN stake = Agents /\ DOMAIN stake' = Agents
  OBVIOUS
<1> QED
  BY <1>5, <1>6, <1>7, <1>8 DEF SumFunction

LEMMA TotalType ==
  ASSUME AccountsOK
  PROVE  /\ BondsHeld \in Nat /\ DepositsHeld \in Nat /\ escrow_lamports \in Nat
         /\ SumFunction(wallet) \in Int /\ SumFunction(stake) \in Int
BY HoldingsType, StakesType DEF AccountsOK, DInv, DisputeType

LEMMA LifecycleTotal ==
  ASSUME AccountsOK, DInv', LifecycleStep
  PROVE  AccountsOK' /\ Total' = Total
<1>1. Next /\ UNCHANGED disputeVars
  BY LifecycleSteps
<1>2. TypeOK' /\ NoDeposits' /\ Lamports' = Lamports
  BY <1>1, StepType, StepConserved, NextNoDeposits DEF AccountsOK
<1> QED
  BY <1>1, <1>2 DEF AccountsOK, Total, disputeVars

LEMMA StillTotal ==
  ASSUME DInv', AccountsOK, UNCHANGED <<vars, disputeVars>>
  PROVE  AccountsOK' /\ Total' = Total
<1>1. TypeOK' /\ NoDeposits'
  BY DEF AccountsOK, TypeOK, NoDeposits, vars, taskVars, counterVars, claimVars,
         submissionVars, escrowVars
<1>2. Lamports' = Lamports
  BY NothingPaid DEF vars, claimVars, escrowVars
<1> QED
  BY <1>1, <1>2 DEF AccountsOK, Total, disputeVars

\* Opening and withdrawing a dispute touches none of it.
LEMMA DisputedTotal ==
  ASSUME AccountsOK, DInv', status' \in Statuses,
         UNCHANGED <<now, taskVars, counterVars, claimVars, submissionVars,
                     escrowVars, bonds, wallet, stake>>
  PROVE  AccountsOK' /\ Total' = Total
<1>1. TypeOK' /\ NoDeposits'
  BY DEF AccountsOK, TypeOK, NoDeposits, taskVars, counterVars, claimVars,
         submissionVars, escrowVars
<1>2. Lamports' = Lamports
  BY NothingPaid DEF claimVars, escrowVars
<1> QED
  BY <1>1, <1>2 DEF AccountsOK, Total

LEMMA InitiateTotal ==
  ASSUME AccountsOK, DInv', NEW a \in Agents, NEW w \in Workers, NEW r \in Resolutions,
         InitiateDispute(a, w, r)
  PROVE  AccountsOK' /\ Total' = Total
<1>1. status' \in Statuses
  BY DEF InitiateDispute, Statuses
<1> QED
  BY <1>1, DisputedTotal DEF InitiateDispute

LEMMA WithdrawTotal ==
  ASSUME AccountsOK, DInv', NEW i \in Opened, CancelDispute(i)
  PROVE  AccountsOK' /\ Total' = Total
<1>1. status' \in Statuses
  BY DEF CancelDispute, RestoredStatus, Statuses, AccountsOK, TypeOK
<1> QED
  BY <1>1, DisputedTotal DEF CancelDispute

LEMMA SweptSubmissionType ==
  ASSUME TypeOK, NEW w \in Workers, SweepSubmission(w)
  PROVE  SubmissionType' /\ pending' \in Nat /\ live_submissions' \in Nat
<1>1. CloseSubmission(w)
  BY DEF SweepSubmission
<1>2. pending' \in Nat /\ live_submissions' \in Nat
  <2>1. CASE submission[w] = "Submitted"
    BY <2>1, LeaveReviewType DEF SweepSubmission
  <2>2. CASE submission[w] # "Submitted"
    BY <2>2 DEF SweepSubmission, TypeOK
  <2> QED
    BY <2>1, <2>2
<1> QED
  BY <1>1, <1>2, CloseSubmissionType

\* The account of a dispute that exists.
LEMMA RecordOf ==
  ASSUME DInv, NEW i \in Opened
  PROVE  disputes[i] \in Records
BY DEF DInv, DisputeType, Opened

\* A decided dispute pays out the escrow and both bonds.
LEMMA EndTotal ==
  ASSUME AccountsOK, DInv', NEW i, NEW d, d.defendant \in Workers, NEW terminal,
         EndDispute(i, d, terminal), status' \in Statuses, distributed' \in Nat,
         tasks_completed' \in [Workers -> Nat],
         NEW f \in Payments, Receive(f),
         Worth(f) = escrow_lamports + (BondOf("creator") + BondOf(d.defendant))
  PROVE  AccountsOK' /\ Total' = Total
<1> DEFINE w == d.defendant
<1>1. TypeOK /\ w \in Workers /\ "creator" \in Parties /\ w \in Parties
  BY DEF AccountsOK, Parties, Others
<1>2. SubmissionType' /\ pending' \in Nat /\ live_submissions' \in Nat
  BY <1>1, SweptSubmissionType DEF EndDispute
<1>3. /\ current_workers' \in Nat /\ active_tasks' \in [Workers -> Nat]
      /\ ClaimType' /\ deposited' = {}
  <2>1. current_workers' \in Nat
    BY <1>1 DEF EndDispute, TypeOK, Dec
  <2>2. CASE WorkerLost(d)
    BY <1>1, <2>1, <2>2
    DEF EndDispute, ReleaseDefendant, claimVars, ClaimType, TypeOK, AccountsOK, NoDeposits
  <2>3. CASE ~WorkerLost(d)
    <3>1. CloseClaim(w) /\ active_tasks' = [active_tasks EXCEPT ![w] = Dec(@)]
      BY <2>3 DEF EndDispute, ReleaseDefendant
    <3>2. ClaimType'
      BY <1>1, <3>1, CloseClaimType
    <3>3. active_tasks' \in [Workers -> Nat] /\ deposited' = {}
      BY <1>1, <3>1 DEF CloseClaim, TypeOK, Dec, AccountsOK, NoDeposits
    <3> QED
      BY <2>1, <3>2, <3>3
  <2> QED
    BY <2>2, <2>3
<1>4. wallet' \in [Parties -> Int]
  BY <1>1, ReceiveType DEF TypeOK
<1>5. bonds' \subseteq Workers \cup {"creator"}
  BY <1>1, ReleaseBondsType DEF EndDispute
<1>6. /\ escrow_open' = FALSE /\ escrow_lamports' = 0
      /\ UNCHANGED <<now, taskVars, completions, stake>>
  BY DEF EndDispute
<1>7. TypeOK'
  BY <1>1, <1>2, <1>3, <1>4, <1>5, <1>6 DEF TypeOK, ClaimType, SubmissionType, taskVars
<1>8. BondsHeld' = BondsHeld - BondOf("creator") - BondOf(w)
  BY <1>1, BondsClosed DEF EndDispute
<1>9. DepositsHeld' = DepositsHeld
  BY <1>3 DEF DepositsHeld, AccountsOK, NoDeposits
<1>10. /\ BondsHeld \in Nat /\ DepositsHeld \in Nat /\ escrow_lamports \in Nat
       /\ BondOf("creator") \in Nat /\ BondOf(w) \in Nat
  BY <1>1, HoldingsType, WorthOfBonds
<1>11. Lamports' = Lamports
  <2> HIDE DEF w
  <2>1. Worth(f) = escrow_lamports + (BondOf("creator") + BondOf(w))
    BY DEF w
  <2>2. Worth(f) = (escrow_lamports - escrow_lamports') + (BondsHeld - BondsHeld')
                     + (DepositsHeld - DepositsHeld')
    BY <1>6, <1>8, <1>9, <1>10, <2>1
  <2> QED
    BY <1>1, <1>7, <2>2, PaidFromAccounts
<1> QED
  BY <1>3, <1>6, <1>7, <1>11 DEF AccountsOK, NoDeposits, Total

LEMMA AwardType ==
  ASSUME TypeOK, distributed <= Reward, NEW d
  PROVE  AwardOf(d) \in Nat
<1> DEFINE owed == Reward - distributed
<1>1. owed \in Nat
  BY AmountsAssumption DEF TypeOK
<1>2. owed \div 2 \in Nat
  <2> HIDE DEF owed
  <2> QED BY <1>1
<1> QED
  BY <1>1, <1>2 DEF AwardOf

LEMMA RulingBonds ==
  ASSUME TypeOK, NEW d, d.defendant \in Workers
  PROVE  /\ BondsAfterRuling(d) \in Payments
         /\ Worth(BondsAfterRuling(d)) = BondOf("creator") + BondOf(d.defendant)
<1> DEFINE w == d.defendant
<1>1. "creator" \in Parties /\ "treasury" \in Parties /\ w \in Parties
  BY DEF Parties, Others
<1>2. /\ Forfeit("creator", "treasury") \in Payments /\ Refund("creator") \in Payments
      /\ Forfeit(w, "treasury") \in Payments /\ Refund(w) \in Payments
  BY BondPaymentsType
<1>3. /\ Worth(Forfeit("creator", "treasury")) = BondOf("creator")
      /\ Worth(Refund("creator")) = BondOf("creator")
      /\ Worth(Forfeit(w, "treasury")) = BondOf(w)
      /\ Worth(Refund(w)) = BondOf(w)
  BY <1>1, WorthOfBonds
<1>4. ASSUME NEW x \in Payments, NEW y \in Payments,
             Worth(x) = BondOf("creator"), Worth(y) = BondOf(w)
      PROVE  Both(x, y) \in Payments /\ Worth(Both(x, y)) = BondOf("creator") + BondOf(w)
  BY <1>4, BothType, WorthOfBoth
<1>5. \E x, y \in Payments :
        /\ BondsAfterRuling(d) = Both(x, y)
        /\ Worth(x) = BondOf("creator") /\ Worth(y) = BondOf(w)
  <2>1. CASE d.approved /\ d.resolution = "Complete"
    BY <1>2, <1>3, <2>1 DEF BondsAfterRuling
  <2>2. CASE ~(d.approved /\ d.resolution = "Complete")
    BY <1>2, <1>3, <2>2 DEF BondsAfterRuling
  <2> QED
    BY <2>1, <2>2
<1> QED
  BY <1>4, <1>5

LEMMA ResolveTotal ==
  ASSUME AccountsOK, DInv', NEW i \in Opened, NEW approved \in BOOLEAN,
         NEW terms \in Terms, ResolveDispute(i, approved, terms)
  PROVE  AccountsOK' /\ Total' = Total
<1> DEFINE d == [disputes[i] EXCEPT !.approved = approved]
           award == AwardOf(d)
           feeless == [terms EXCEPT !.protocol = 0]
           paid == PayOut(d.defendant, SplitOf(award, feeless))
           refund == Pay("creator", escrow_lamports - award)
           f == Both(Both(paid, refund), BondsAfterRuling(d))
<1>1. TypeOK /\ d.defendant \in Workers /\ "creator" \in Parties
  BY RecordOf DEF AccountsOK, Records, Parties, Others
<1>2. /\ EndDispute(i, d, "Resolved") /\ Receive(f)
      /\ status' \in Statuses /\ distributed <= Reward /\ distributed' = Reward
      /\ tasks_completed' = [tasks_completed EXCEPT ![d.defendant] =
           @ + IF approved /\ d.resolution = "Complete" THEN 1 ELSE 0]
  BY DEF ResolveDispute, Statuses
<1>3. award \in Nat /\ escrow_lamports \in Nat
  BY <1>1, <1>2, AwardType DEF TypeOK
<1>4. feeless \in Quantities
  BY TermsType DEF Quantities
<1>5. /\ paid \in Payments /\ Worth(paid) = award
      /\ refund \in Payments /\ Worth(refund) = escrow_lamports - award
      /\ BondsAfterRuling(d) \in Payments
      /\ Worth(BondsAfterRuling(d)) = BondOf("creator") + BondOf(d.defendant)
  <2>1. paid \in Payments /\ Worth(paid) = award
    <3> HIDE DEF d, award, feeless
    <3> QED BY <1>1, <1>3, <1>4, PayOutType, WorthOfPayOut
  <2>2. refund \in Payments /\ Worth(refund) = escrow_lamports - award
    <3> HIDE DEF award
    <3> QED BY <1>1, <1>3, PayType, WorthOfPay
  <2>3. /\ BondsAfterRuling(d) \in Payments
        /\ Worth(BondsAfterRuling(d)) = BondOf("creator") + BondOf(d.defendant)
    <3> HIDE DEF d
    <3> QED BY <1>1, RulingBonds
  <2> QED
    BY <2>1, <2>2, <2>3
<1>6. distributed' \in Nat /\ tasks_completed' \in [Workers -> Nat]
  BY <1>1, <1>2, AmountsAssumption DEF TypeOK
<1>7. BondOf("creator") \in Nat /\ BondOf(d.defendant) \in Nat
  BY AmountsAssumption DEF BondOf
<1> HIDE DEF paid, refund, award, d
<1>8. Both(paid, refund) \in Payments /\ f \in Payments
  BY <1>5, BothType
<1>9. Worth(f) = (award + (escrow_lamports - award))
                   + (BondOf("creator") + BondOf(d.defendant))
  BY <1>5, <1>8, WorthOfBoth
<1>10. Worth(f) = escrow_lamports + (BondOf("creator") + BondOf(d.defendant))
  BY <1>3, <1>7, <1>9
<1> HIDE DEF f
<1> QED
  BY <1>1, <1>2, <1>6, <1>8, <1>10, EndTotal

LEMMA ExpireTotal ==
  ASSUME AccountsOK, DInv', NEW i \in Opened, ExpireDispute(i)
  PROVE  AccountsOK' /\ Total' = Total
<1> DEFINE d == disputes[i]
           w == d.defendant
           fault == TaskType = "Exclusive" /\ NoShow(w)
           theirs == IF fault THEN Forfeit(w, "creator") ELSE Refund(w)
           refund == Pay("creator", escrow_lamports)
           f == Both(refund, Both(Refund("creator"), theirs))
<1>1. TypeOK /\ w \in Workers /\ "creator" \in Parties /\ w \in Parties
  BY RecordOf DEF AccountsOK, Records, Parties, Others
<1>2. /\ EndDispute(i, d, "Expired") /\ Receive(f)
      /\ status' \in Statuses /\ UNCHANGED <<distributed, tasks_completed>>
  BY DEF ExpireDispute, Statuses
<1>3. /\ refund \in Payments /\ Worth(refund) = escrow_lamports
      /\ Refund("creator") \in Payments /\ Worth(Refund("creator")) = BondOf("creator")
      /\ theirs \in Payments /\ Worth(theirs) = BondOf(w)
  BY <1>1, PayType, WorthOfPay, BondPaymentsType, WorthOfBonds DEF TypeOK
<1>4. distributed' \in Nat /\ tasks_completed' \in [Workers -> Nat]
  BY <1>1, <1>2 DEF TypeOK
<1> HIDE DEF theirs, refund, d
<1>5. Both(Refund("creator"), theirs) \in Payments /\ f \in Payments
  BY <1>3, BothType
<1>6. Worth(f) = escrow_lamports + (BondOf("creator") + BondOf(w))
  BY <1>3, <1>5, WorthOfBoth
<1> HIDE DEF f
<1> QED
  BY <1>1, <1>2, <1>4, <1>5, <1>6, EndTotal

LEMMA SettleTotal ==
  ASSUME AccountsOK, DInv', NEW i \in Opened, NEW w \in Workers, SettleDisputeClaim(i, w)
  PROVE  AccountsOK' /\ Total' = Total
<1>1. TypeOK
  BY DEF AccountsOK
<1>2. /\ SubmissionType' /\ pending' \in Nat /\ live_submissions' \in Nat
      /\ ClaimType'
  BY <1>1, SweptSubmissionType, CloseClaimType DEF SettleDisputeClaim
<1>3. current_workers' \in Nat /\ active_tasks' \in [Workers -> Nat]
  BY <1>1 DEF SettleDisputeClaim, TypeOK, Dec
<1>4. UNCHANGED <<now, status, taskVars, completions, tasks_completed,
                  escrowVars, bonds, wallet, stake>>
  BY DEF SettleDisputeClaim
<1>5. TypeOK'
  BY <1>1, <1>2, <1>3, <1>4 DEF TypeOK, ClaimType, SubmissionType, taskVars, escrowVars
<1>6. deposited' = {} /\ deposited = {}
  BY DEF SettleDisputeClaim, CloseClaim, AccountsOK, NoDeposits
<1>7. Lamports' = Lamports
  BY <1>4, <1>6, NothingPaid DEF escrowVars
<1> QED
  BY <1>4, <1>5, <1>6, <1>7 DEF AccountsOK, NoDeposits, Total

\* Lamports that leave a stake reach a party.
LEMMA StakePaidOut ==
  ASSUME AccountsOK, DInv', TypeOK', deposited' = {}, NEW a \in Agents, NEW p \in Parties,
         NEW n \in Int, stake' = [stake EXCEPT ![a] = @ - n], Receive(Pay(p, n)),
         UNCHANGED <<escrow_lamports, bonds>>
  PROVE  AccountsOK' /\ Total' = Total
<1>1. stake \in [Agents -> Int] /\ wallet \in [Parties -> Int]
  BY DEF AccountsOK, DInv, DisputeType, TypeOK
<1>2. SumFunction(wallet') = SumFunction(wallet) + n
  BY <1>1, PayType, WorthOfPay, WorthReceived
<1>3. SumFunction(stake') = SumFunction(stake) - n
  BY <1>1, StakeTaken
<1>4. BondsHeld' = BondsHeld /\ DepositsHeld' = DepositsHeld
  BY DEF BondsHeld, DepositsHeld, AccountsOK, NoDeposits
<1>5. Total' = Total
  BY <1>2, <1>3, <1>4, TotalType DEF Total, Lamports
<1> QED
  BY <1>5 DEF AccountsOK, NoDeposits

LEMMA SlashType ==
  ASSUME NEW at_risk \in Int, NEW current \in Int
  PROVE  SlashOf(at_risk, current) \in Int
<1>1. SlashPercentage \in Int
  BY DisputeAssumption
<1> DEFINE n == at_risk * SlashPercentage
<1>2. n \in Int
  BY <1>1
<1>3. n \div 100 \in Int
  <2> HIDE DEF n
  <2> QED BY <1>2
<1> QED
  BY <1>3 DEF SlashOf

LEMMA ApplyDisputeSlashTotal ==
  ASSUME AccountsOK, DInv', NEW i \in Opened, ApplyDisputeSlash(i)
  PROVE  AccountsOK' /\ Total' = Total
<1> DEFINE d == disputes[i]
           w == d.defendant
           amount == IF now <= d.resolved_at + SlashWindow
                     THEN SlashOf(d.worker_stake, stake[w]) ELSE 0
<1>1. TypeOK /\ d \in Records /\ w \in Workers /\ w \in Agents /\ "treasury" \in Parties
  BY RecordOf DEF AccountsOK, Records, Parties, Others, Agents
<1>2. amount \in Int
  <2>1. d.worker_stake \in Int /\ stake[w] \in Int
    BY <1>1 DEF AccountsOK, DInv, DisputeType, Records
  <2>2. SlashOf(d.worker_stake, stake[w]) \in Int
    BY <2>1, SlashType
  <2> QED
    BY <2>2
<1>3. /\ stake' = [stake EXCEPT ![w] = @ - amount]
      /\ Receive(Pay("treasury", amount))
      /\ SaturatingRelease(w) /\ CloseClaim(w)
      /\ UNCHANGED <<now, status, taskVars, completions, live_submissions, pending,
                     tasks_completed, submissionVars, escrowVars, bonds>>
  BY DEF ApplyDisputeSlash
<1>4. wallet' \in [Parties -> Int]
  BY <1>1, <1>2, <1>3, PayType, ReceiveType DEF TypeOK
<1>5. ClaimType' /\ current_workers' \in Nat /\ active_tasks' \in [Workers -> Nat]
  BY <1>1, <1>3, CloseClaimType, SaturatingReleaseType
<1>6. TypeOK'
  BY <1>1, <1>3, <1>4, <1>5
  DEF TypeOK, ClaimType, taskVars, submissionVars, escrowVars
<1>7. deposited' = {}
  BY <1>3 DEF CloseClaim, AccountsOK, NoDeposits
<1> HIDE DEF amount
<1> QED
  BY <1>1, <1>2, <1>3, <1>6, <1>7, StakePaidOut DEF escrowVars

LEMMA WalletType ==
  ASSUME TypeOK, wallet' \in [Parties -> Int],
         UNCHANGED <<now, status, taskVars, counterVars, claimVars, submissionVars,
                     escrowVars, bonds>>
  PROVE  TypeOK'
BY DEF TypeOK, taskVars, counterVars, claimVars, submissionVars, escrowVars

LEMMA ApplyInitiatorSlashTotal ==
  ASSUME AccountsOK, DInv', NEW i \in Opened, ApplyInitiatorSlash(i)
  PROVE  AccountsOK' /\ Total' = Total
<1> DEFINE d == disputes[i]
           a == d.initiator
           amount == IF InitiatorLost(d) THEN SlashOf(stake[a], stake[a]) ELSE 0
<1>1. TypeOK /\ a \in Agents /\ "treasury" \in Parties
  BY RecordOf DEF AccountsOK, Records, Parties, Others
<1>2. amount \in Int
  <2>1. stake[a] \in Int
    BY <1>1 DEF AccountsOK, DInv, DisputeType
  <2>2. SlashOf(stake[a], stake[a]) \in Int
    BY <2>1, SlashType
  <2> QED
    BY <2>2
<1>3. /\ stake' = [stake EXCEPT ![a] = @ - amount]
      /\ Receive(Pay("treasury", amount))
      /\ UNCHANGED <<now, status, taskVars, counterVars, claimVars, submissionVars,
                     escrowVars, bonds>>
  BY DEF ApplyInitiatorSlash
<1>4. wallet' \in [Parties -> Int]
  BY <1>1, <1>2, <1>3, PayType, ReceiveType DEF TypeOK
<1>5. TypeOK'
  BY <1>1, <1>3, <1>4, WalletType
<1>6. deposited' = {}
  BY <1>3 DEF claimVars, AccountsOK, NoDeposits
<1> HIDE DEF amount
<1> QED
  BY <1>1, <1>2, <1>3, <1>5, <1>6, StakePaidOut DEF escrowVars

LEMMA DeregisterTotal ==
  ASSUME AccountsOK, DInv', NEW a \in Agents, DeregisterAgent(a)
  PROVE  AccountsOK' /\ Total' = Total
<1>1. TypeOK /\ a \in Parties /\ stake[a] \in Int
  BY AgentsFinite DEF AccountsOK, DInv, DisputeType
<1>2. /\ stake' = [stake EXCEPT ![a] = 0]
      /\ Receive(Pay(a, stake[a]))
      /\ UNCHANGED <<now, status, taskVars, counterVars, claimVars, submissionVars,
                     escrowVars, bonds>>
  BY DEF DeregisterAgent
<1>3. stake' = [stake EXCEPT ![a] = @ - stake[a]]
  <2>1. stake[a] - stake[a] = 0
    BY <1>1
  <2> QED
    BY <1>2, <2>1
<1>4. wallet' \in [Parties -> Int]
  BY <1>1, <1>2, PayType, ReceiveType DEF TypeOK
<1>5. TypeOK'
  BY <1>1, <1>2, <1>4, WalletType
<1>6. deposited' = {}
  BY <1>2 DEF claimVars, AccountsOK, NoDeposits
<1> QED
  BY <1>1, <1>2, <1>3, <1>5, <1>6, StakePaidOut DEF escrowVars

LEMMA InitTotal ==
  ASSUME DisputeInit
  PROVE  AccountsOK /\ Total = Stake * Cardinality(Agents)
<1>1. Init /\ stake = [a \in Agents |-> Stake]
  BY DEF DisputeInit
<1>2. AccountsOK
  BY <1>1, InitInv, InitTypeOK DEF AccountsOK, NoDeposits, Init
<1>3. stake = [a \in Agents |-> IF a \in Agents THEN Stake ELSE 0]
  BY <1>1
<1>4. SumFunctionOnSet([a \in Agents |-> IF a \in Agents THEN Stake ELSE 0], Agents)
        = Stake * Cardinality(Agents)
  BY AgentsFinite, DisputeAssumption, SumOfShares, Agents \in SUBSET Agents
<1>5. SumFunction(stake) = Stake * Cardinality(Agents)
  <2>1. DOMAIN stake = Agents
    BY <1>1
  <2> QED
    BY <1>3, <1>4, <2>1 DEF SumFunction
<1>6. SumFunction(stake) \in Int
  BY <1>2, TotalType
<1> QED
  BY <1>1, <1>2, <1>5, <1>6, InitConserved DEF Total

LEMMA NextTotal ==
  ASSUME AccountsOK, [DisputeNext]_allVars
  PROVE  AccountsOK' /\ Total' = Total
<1>1. DInv'
  BY NextInv DEF AccountsOK
<1>2. CASE UNCHANGED allVars
  BY <1>1, <1>2, StillTotal DEF allVars
<1>3. CASE LifecycleStep
  BY <1>1, <1>3, LifecycleTotal
<1>4. ASSUME NEW a \in Agents, NEW w \in Workers, NEW r \in Resolutions,
             InitiateDispute(a, w, r)
      PROVE  AccountsOK' /\ Total' = Total
  BY <1>1, <1>4, InitiateTotal
<1>5. ASSUME NEW i \in Opened, CancelDispute(i)
      PROVE  AccountsOK' /\ Total' = Total
  BY <1>1, <1>5, WithdrawTotal
<1>6. ASSUME NEW i \in Opened, NEW approved \in BOOLEAN, NEW terms \in Terms,
             ResolveDispute(i, approved, terms)
      PROVE  AccountsOK' /\ Total' = Total
  BY <1>1, <1>6, ResolveTotal
<1>7. ASSUME NEW i \in Opened, Unwinding(i)
      PROVE  AccountsOK' /\ Total' = Total
  BY <1>1, <1>7, ExpireTotal, SettleTotal, ApplyDisputeSlashTotal, ApplyInitiatorSlashTotal
  DEF Unwinding
<1>8. ASSUME NEW a \in Agents, DeregisterAgent(a)
      PROVE  AccountsOK' /\ Total' = Total
  BY <1>1, <1>8, DeregisterTotal
<1> QED
  BY <1>2, <1>3, <1>4, <1>5, <1>6, <1>7, <1>8 DEF DisputeNext, LifecycleStep, Opened

\* The inductive invariant: well-formed accounts whose balances add up.
THEOREM DisputeAccounts ==
  DisputeSpec => [](AccountsOK /\ Total = Stake * Cardinality(Agents))
<1>1. DisputeInit => AccountsOK /\ Total = Stake * Cardinality(Agents)
  BY InitTotal
<1>2. /\ AccountsOK /\ Total = Stake * Cardinality(Agents)
      /\ [DisputeNext]_allVars
      => (AccountsOK /\ Total = Stake * Cardinality(Agents))'
  BY NextTotal
<1> QED
  BY <1>1, <1>2, PTL DEF DisputeSpec

\* Disputes, rulings, expiries and slashes take every account field of the task
\* to a value of its type.
THEOREM DisputedTypeCorrect == DisputeSpec => []TypeOK
<1>1. AccountsOK => TypeOK
  BY DEF AccountsOK
<1> QED
  BY <1>1, DisputeAccounts, PTL

\* However a dispute ends, whoever is slashed and whoever deregisters, no
\* lamport is created or lost: a ruling divides exactly the escrow, a bond is
\* settled once, and a slash reaches the treasury.
THEOREM StakesAlwaysConserved == DisputeSpec => []LamportsAndStakesConserved
<1>1. AccountsOK /\ Total = Stake * Cardinality(Agents) => LamportsAndStakesConserved
  <2> SUFFICES ASSUME AccountsOK, Total = Stake * Cardinality(Agents)
               PROVE  LamportsAndStakesConserved
    OBVIOUS
  <2>1. DepositsHeld = 0
    <3>1. Cardinality(deposited) = 0
      BY FS_EmptySet DEF AccountsOK, NoDeposits
    <3> QED
      BY <3>1, AmountsAssumption DEF DepositsHeld
  <2> QED
    BY <2>1, TotalType DEF Total, Lamports, LamportsAndStakesConserved, BondsHeld
<1> QED
  BY <1>1, DisputeAccounts, PTL

-----------------------------------------------------------------------------
(***************************************************************************)
(* The counters of a task that may be disputed.  A dispute suspends the    *)
(* status from which the lifecycle's own proof derives which accounts      *)
(* exist, and restores it from the counters: so the counters have to be    *)
(* right by themselves, with only what a status excludes.                  *)
(***************************************************************************)
\* Nothing is under review while work is going on, and nobody works on a task
\* that is open.
Quiet ==
  /\ status \in {"Open", "InProgress", "RejectFrozen"} => Submitted = {}
  /\ status = "Open" => claims = {}

Tally ==
  /\ submission \in [Workers -> SubmissionStates]
  /\ CountersAgree /\ current_workers <= MaxWorkers /\ Quiet

\* One dispute at a time is undecided: it has the task disputed and its
\* defendant engaged; and a decided one has ended the task and the review of
\* its defendant's result.
Decided == {"SettlementPending", "Resolved", "Expired"}

Phases ==
  /\ \A i \in Opened : disputes[i].status = "Active" =>
        status = "Disputed" /\ disputes[i].defendant \in claims
  /\ \A i, j \in Opened :
        disputes[i].status = "Active" /\ disputes[j].status = "Active" => i = j
  /\ \A i \in Opened : disputes[i].status \in Decided =>
        status \in Terminal /\ disputes[i].defendant \notin Submitted

CInv == DInv /\ Tally /\ Phases

\* An engagement ends.
LEMMA SlotFreed ==
  ASSUME Engaged, Tally, Engaged', NEW w \in claims,
         claims' = claims \ {w}, current_workers' = Dec(current_workers)
  PROVE  SlotsAgree' /\ current_workers' <= MaxWorkers
<1>1. claims \in SUBSET Workers /\ w \in Workers /\ claims' \in SUBSET Workers
  BY DEF Engaged
<1>2. /\ Cardinality(claims) \in Nat /\ Cardinality(claims) # 0
      /\ Cardinality(claims') = Cardinality(claims) - 1
  BY <1>1, WorkerSets
<1>3. current_workers' = Cardinality(claims')
  BY <1>2 DEF Tally, CountersAgree, Dec
<1>4. current_workers' <= MaxWorkers
  BY <1>2, <1>3, TaskAssumption DEF Tally, CountersAgree, Engaged
<1> QED
  BY <1>3, <1>4 DEF SlotsAgree, Engaged

LEMMA SlotKept ==
  ASSUME Engaged, Tally, Engaged', claims' = claims, current_workers' = current_workers
  PROVE  SlotsAgree' /\ current_workers' <= MaxWorkers
BY DEF Tally, CountersAgree, SlotsAgree, Engaged

\* A result leaves review, or was not under review to begin with.
LEMMA Answered ==
  ASSUME Tally, NEW w \in Submitted, LeaveReview,
         NEW x \in SubmissionStates \ {"Submitted"},
         submission' = [submission EXCEPT ![w] = x]
  PROVE  /\ ReviewsAgree' /\ Submitted' = Submitted \ {w}
         /\ submission' \in [Workers -> SubmissionStates]
<1>1. Submitted \in SUBSET Workers /\ w \in Workers
  BY DEF Submitted
<1>2. Submitted' = Submitted \ {w} /\ submission' \in [Workers -> SubmissionStates]
  BY <1>1 DEF Tally, Submitted
<1>3. Cardinality(Submitted') = live_submissions - 1 /\ pending = live_submissions
  BY <1>1, <1>2, WorkerSets DEF Tally, CountersAgree
<1> QED
  BY <1>2, <1>3 DEF ReviewsAgree, LeaveReview

LEMMA NothingAnswered ==
  ASSUME Tally, NEW w \in Workers \ Submitted, UNCHANGED <<pending, live_submissions>>,
         NEW x \in SubmissionStates \ {"Submitted"},
         submission' = [submission EXCEPT ![w] = x]
  PROVE  /\ ReviewsAgree' /\ Submitted' = Submitted
         /\ submission' \in [Workers -> SubmissionStates]
<1>1. Submitted' = Submitted /\ submission' \in [Workers -> SubmissionStates]
  BY DEF Tally, Submitted
<1> QED
  BY <1>1 DEF Tally, CountersAgree, ReviewsAgree

LEMMA ReviewsKept ==
  ASSUME Tally, UNCHANGED <<pending, live_submissions, submission>>
  PROVE  /\ ReviewsAgree' /\ Submitted' = Submitted
         /\ submission' \in [Workers -> SubmissionStates]
BY DEF Tally, CountersAgree, ReviewsAgree, Submitted

\* The counters of zero things.
LEMMA NothingCounted ==
  ASSUME SlotsAgree, ReviewsAgree, claims \in SUBSET Workers
  PROVE  /\ current_workers \in Nat /\ (current_workers = 0 => claims = {})
         /\ live_submissions \in Nat /\ pending = live_submissions
         /\ (live_submissions = 0 => Submitted = {})
<1>1. Submitted \in SUBSET Workers
  BY DEF Submitted
<1>2. \A S \in SUBSET Workers : Cardinality(S) \in Nat /\ (Cardinality(S) = 0 => S = {})
  BY WorkersAssumption, FS_Subset, FS_CardinalityType, FS_EmptySet
<1> QED
  BY <1>1, <1>2 DEF SlotsAgree, ReviewsAgree

LEMMA SyncedQuiet ==
  ASSUME SlotsAgree', ReviewsAgree', claims' \in SUBSET Workers,
         status \notin {"Completed", "RejectFrozen"},
         status' = SyncedStatus(status, pending', current_workers')
  PROVE  Quiet'
<1>1. /\ current_workers' \in Nat /\ (current_workers' = 0 => claims' = {})
      /\ pending' \in Nat /\ (pending' = 0 => Submitted' = {})
  <2>1. \A S \in SUBSET Workers : Cardinality(S) \in Nat /\ (Cardinality(S) = 0 => S = {})
    BY WorkersAssumption, FS_Subset, FS_CardinalityType, FS_EmptySet
  <2>2. Submitted' \in SUBSET Workers
    BY DEF Submitted
  <2> QED
    BY <2>1, <2>2 DEF SlotsAgree, ReviewsAgree
<1> QED
  BY <1>1 DEF SyncedStatus, Quiet

LEMMA TallyNext ==
  ASSUME submission' \in [Workers -> SubmissionStates], SlotsAgree', ReviewsAgree',
         Submitted' \subseteq claims', current_workers' <= MaxWorkers, Quiet'
  PROVE  Tally'
BY DEF Tally, CountersAgree, SlotsAgree, ReviewsAgree

-----------------------------------------------------------------------------
(***************************************************************************)
(* The lifecycle's instructions.  None is admitted while a dispute is      *)
(* undecided, and none takes up a task that has ended.                     *)
(***************************************************************************)
Admitted ==
  /\ status # "Disputed"
  /\ status \in Terminal => status' \in Terminal /\ Submitted' \subseteq Submitted

LEMMA ReleasedSlot ==
  ASSUME Engaged, Tally, Engaged', NEW w \in claims, Released(w)
  PROVE  SlotsAgree' /\ current_workers' <= MaxWorkers /\ claims' = claims \ {w}
<1>1. current_workers' = Dec(current_workers)
  BY DEF Released, ReleaseSlot, SaturatingRelease, Engaged, Dec
<1> QED
  BY <1>1, SlotFreed DEF Released

LEMMA AcceptTally ==
  ASSUME Engaged, Tally, Engaged', NEW w \in Workers, NEW terms, AcceptSubmission(w, terms)
  PROVE  Tally' /\ Admitted
<1>1. /\ status = "PendingValidation" /\ w \in claims /\ w \in Submitted /\ LeaveReview
      /\ submission' = [submission EXCEPT ![w] = "none"]
      /\ status' = IF Completes THEN "Completed"
                   ELSE SyncedStatus(status, pending', current_workers')
  BY DEF AcceptSubmission, SubmissionPending, CloseSubmission, Submitted
<1>2. Released(w)
  BY SettlementReleases DEF AcceptSubmission
<1>3. SlotsAgree' /\ current_workers' <= MaxWorkers /\ claims' = claims \ {w}
  BY <1>1, <1>2, ReleasedSlot
<1>4. /\ ReviewsAgree' /\ Submitted' = Submitted \ {w}
      /\ submission' \in [Workers -> SubmissionStates]
  BY <1>1, Answered DEF SubmissionStates
<1>5. Quiet'
  <2>1. claims' \in SUBSET Workers
    BY DEF Engaged
  <2> QED
    BY <1>1, <1>3, <1>4, <2>1, SyncedQuiet DEF Quiet
<1>6. Submitted' \subseteq claims'
  BY <1>3, <1>4 DEF Tally, CountersAgree
<1> QED
  BY <1>1, <1>3, <1>4, <1>5, <1>6, TallyNext DEF Admitted, Terminal

LEMMA DismissTally ==
  ASSUME Engaged, Tally, Engaged', NEW w \in Workers,
         RefuseTaskResult(w) \/ RejectTaskResult(w)
  PROVE  Tally' /\ Admitted
<1>1. /\ status = "PendingValidation" /\ w \in claims /\ w \in Submitted /\ LeaveReview
      /\ \E x \in {"none", "Rejected"} : submission' = [submission EXCEPT ![w] = x]
      /\ status' = SyncedStatus(status, pending', current_workers')
      /\ Released(w)
  BY DEF RefuseTaskResult, RejectTaskResult, SubmissionPending, CloseSubmission,
         MarkRejected, CloseClaim, Released, Submitted
<1>2. SlotsAgree' /\ current_workers' <= MaxWorkers /\ claims' = claims \ {w}
  BY <1>1, ReleasedSlot
<1>3. /\ ReviewsAgree' /\ Submitted' = Submitted \ {w}
      /\ submission' \in [Workers -> SubmissionStates]
  BY <1>1, Answered DEF SubmissionStates
<1>4. Quiet'
  <2>1. claims' \in SUBSET Workers
    BY DEF Engaged
  <2> QED
    BY <1>1, <1>2, <1>3, <2>1, SyncedQuiet
<1>5. Submitted' \subseteq claims'
  BY <1>2, <1>3 DEF Tally, CountersAgree
<1> QED
  BY <1>1, <1>2, <1>3, <1>4, <1>5, TallyNext DEF Admitted, Terminal

\* The claim stays; only an Exclusive task, with its one claim, is frozen.
LEMMA SendBackTally ==
  ASSUME Engaged, Tally, Engaged', NEW w \in Workers,
         RequestChanges(w) \/ RejectAndFreeze(w)
  PROVE  Tally' /\ Admitted
<1>1. /\ status = "PendingValidation" /\ w \in claims /\ w \in Submitted /\ LeaveReview
      /\ submission' = [submission EXCEPT ![w] = "Rejected"]
      /\ claims' = claims /\ current_workers' = current_workers
  BY DEF RequestChanges, RejectAndFreeze, SubmissionPending, MarkRejected, Submitted, claimVars
<1>2. SlotsAgree' /\ current_workers' <= MaxWorkers
  BY <1>1, SlotKept
<1>3. /\ ReviewsAgree' /\ Submitted' = Submitted \ {w}
      /\ submission' \in [Workers -> SubmissionStates]
  BY <1>1, Answered DEF SubmissionStates
<1>4. Submitted' \subseteq claims'
  BY <1>1, <1>3 DEF Tally, CountersAgree
<1>5. CASE RequestChanges(w)
  <2>1. claims' \in SUBSET Workers
    BY DEF Engaged
  <2>2. status' = SyncedStatus(status, pending', current_workers')
    BY <1>1, <1>5 DEF RequestChanges
  <2>3. Quiet'
    BY <1>1, <1>2, <1>3, <2>1, <2>2, SyncedQuiet
  <2> QED
    BY <1>1, <1>2, <1>3, <1>4, <2>3, TallyNext DEF Admitted, Terminal
<1>6. CASE RejectAndFreeze(w)
  <2>1. status' = "RejectFrozen" /\ MaxWorkers = 1
    BY <1>6, TaskAssumption DEF RejectAndFreeze
  <2>2. claims = {w}
    <3>1. claims \in SUBSET Workers
      BY DEF Engaged
    <3>2. Cardinality(claims) \in Nat /\ Cardinality(claims) # 0
      BY <1>1, <3>1, WorkerSets
    <3>3. Cardinality(claims) = 1
      BY <2>1, <3>2 DEF Tally, CountersAgree
    <3> QED
      BY <1>1, <3>1, <3>3, WorkerSets
  <2>3. Quiet'
    BY <1>1, <1>3, <1>4, <2>1, <2>2 DEF Quiet
  <2> QED
    BY <1>1, <1>2, <1>3, <1>4, <2>3, TallyNext DEF Admitted, Terminal
<1> QED
  BY <1>5, <1>6

\* Both rulings on a freeze, and its end.
LEMMA ThawTally ==
  ASSUME Engaged, Tally, Engaged', NEW w \in Workers,
         \/ \E terms \in Terms : ResolveFrozenForWorker(w, terms) \/ ExpireRejectFrozen(w, terms)
         \/ ResolveFrozenForCreator(w)
  PROVE  Tally' /\ Admitted
<1>1. /\ status = "RejectFrozen" /\ w \in claims
      /\ submission' = [submission EXCEPT ![w] = "none"]
      /\ UNCHANGED <<pending, live_submissions>>
      /\ status' \in {"RejectFrozen", "Completed", "Cancelled"}
  BY DEF ResolveFrozenForWorker, ExpireRejectFrozen, ResolveFrozenForCreator, CloseSubmission
<1>2. Released(w)
  BY SettlementReleases
  DEF ResolveFrozenForWorker, ExpireRejectFrozen, ResolveFrozenForCreator, CloseClaim, Released
<1>3. SlotsAgree' /\ current_workers' <= MaxWorkers /\ claims' = claims \ {w}
  BY <1>1, <1>2, ReleasedSlot
<1>4. Submitted = {}
  BY <1>1 DEF Tally, Quiet
<1>5. /\ ReviewsAgree' /\ Submitted' = Submitted
      /\ submission' \in [Workers -> SubmissionStates]
  BY <1>1, <1>4, NothingAnswered DEF SubmissionStates
<1> QED
  BY <1>1, <1>3, <1>4, <1>5, TallyNext DEF Admitted, Terminal, Quiet

LEMMA CompleteTally ==
  ASSUME Engaged, Tally, Engaged', NEW w \in Workers, NEW terms, CompleteTask(w, terms)
  PROVE  Tally' /\ Admitted
<1>1. /\ status = "InProgress" /\ w \in claims /\ status' \in {"Completed", "InProgress"}
      /\ UNCHANGED <<pending, live_submissions, submission>>
  BY DEF CompleteTask, submissionVars
<1>2. Released(w)
  BY SettlementReleases DEF CompleteTask
<1>3. SlotsAgree' /\ current_workers' <= MaxWorkers /\ claims' = claims \ {w}
  BY <1>1, <1>2, ReleasedSlot
<1>4. Submitted = {}
  BY <1>1 DEF Tally, Quiet
<1>5. /\ ReviewsAgree' /\ Submitted' = Submitted
      /\ submission' \in [Workers -> SubmissionStates]
  BY <1>1, ReviewsKept
<1> QED
  BY <1>1, <1>3, <1>4, <1>5, TallyNext DEF Admitted, Terminal, Quiet

LEMMA ExpireTally ==
  ASSUME Engaged, Tally, Engaged', NEW w \in Workers, NEW caller, ExpireClaim(w, caller)
  PROVE  Tally' /\ Admitted
<1>1. /\ status \in {"InProgress", "PendingValidation"} /\ w \in claims /\ w \notin Submitted
      /\ UNCHANGED <<pending, live_submissions, submission>>
      /\ Released(w)
  BY DEF ExpireClaim, submissionVars, CloseClaim, Released, Submitted
<1>2. SlotsAgree' /\ current_workers' <= MaxWorkers /\ claims' = claims \ {w}
  BY <1>1, ReleasedSlot
<1>3. /\ ReviewsAgree' /\ Submitted' = Submitted
      /\ submission' \in [Workers -> SubmissionStates]
  BY <1>1, ReviewsKept
<1>4. Submitted' \subseteq claims'
  BY <1>1, <1>2, <1>3 DEF Tally, CountersAgree
<1>5. claims' \in SUBSET Workers
  BY DEF Engaged
<1>6. CASE IsManual
  <2>1. status' = SyncedStatus(status, pending', current_workers')
    BY <1>1, <1>6 DEF ExpireClaim
  <2>2. Quiet'
    BY <1>1, <1>2, <1>3, <1>5, <2>1, SyncedQuiet
  <2> QED
    BY <1>1, <1>2, <1>3, <1>4, <2>2, TallyNext DEF Admitted, Terminal
<1>7. CASE ~IsManual
  <2>1. status' = IF current_workers' = 0 /\ status = "InProgress" THEN "Open" ELSE status
    BY <1>7 DEF ExpireClaim
  <2>2. current_workers' = 0 => claims' = {}
    BY <1>2, <1>5, WorkersAssumption, FS_Subset, FS_EmptySet DEF SlotsAgree
  <2>3. status = "InProgress" => Submitted' = {}
    BY <1>3 DEF Tally, Quiet
  <2>4. Quiet'
    BY <1>1, <2>1, <2>2, <2>3 DEF Quiet
  <2> QED
    BY <1>1, <1>2, <1>3, <1>4, <2>4, TallyNext DEF Admitted, Terminal
<1> QED
  BY <1>6, <1>7

LEMMA ReclaimTally ==
  ASSUME Engaged, Tally, Engaged', NEW w \in Workers, ReclaimTerminalClaim(w)
  PROVE  Tally' /\ Admitted
<1>1. /\ status \in Terminal /\ status' = status /\ w \in claims
      /\ submission' = [submission EXCEPT ![w] = "none"]
      /\ IF w \in Submitted THEN LeaveReview ELSE UNCHANGED <<pending, live_submissions>>
      /\ Released(w)
  BY DEF ReclaimTerminalClaim, CloseSubmission, CloseClaim, Released, Submitted
<1>2. SlotsAgree' /\ current_workers' <= MaxWorkers /\ claims' = claims \ {w}
  BY <1>1, ReleasedSlot
<1>3. /\ ReviewsAgree' /\ Submitted' = Submitted \ {w}
      /\ submission' \in [Workers -> SubmissionStates]
  BY <1>1, Answered, NothingAnswered DEF SubmissionStates
<1>4. Submitted' \subseteq claims'
  BY <1>2, <1>3 DEF Tally, CountersAgree
<1> QED
  BY <1>1, <1>2, <1>3, <1>4, TallyNext DEF Admitted, Terminal, Quiet

LEMMA ClaimTally ==
  ASSUME Engaged, Tally, Engaged', NEW w \in Workers, ClaimTask(w)
  PROVE  Tally' /\ Admitted
<1>1. /\ status \in {"Open", "InProgress", "PendingValidation"}
      /\ status' = (IF status = "PendingValidation" THEN status ELSE "InProgress")
      /\ w \notin claims /\ claims' = claims \cup {w}
      /\ current_workers < MaxWorkers /\ current_workers' = current_workers + 1
      /\ UNCHANGED <<pending, live_submissions, submission>>
  BY DEF ClaimTask, submissionVars
<1>2. SlotsAgree' /\ current_workers' <= MaxWorkers
  <2>1. claims \in SUBSET Workers
    BY DEF Engaged
  <2>2. Cardinality(claims') = Cardinality(claims) + 1
    BY <1>1, <2>1, WorkerSets
  <2>3. current_workers' = Cardinality(claims')
    BY <1>1, <2>2 DEF Tally, CountersAgree
  <2> QED
    BY <1>1, <2>3, TaskAssumption DEF SlotsAgree, Engaged
<1>3. /\ ReviewsAgree' /\ Submitted' = Submitted
      /\ submission' \in [Workers -> SubmissionStates]
  BY <1>1, ReviewsKept
<1>4. Submitted' \subseteq claims' /\ Quiet'
  BY <1>1, <1>3 DEF Tally, CountersAgree, Quiet
<1> QED
  BY <1>1, <1>2, <1>3, <1>4, TallyNext DEF Admitted, Terminal

LEMMA SubmitTally ==
  ASSUME Engaged, Tally, Engaged', NEW w \in Workers, SubmitTaskResult(w)
  PROVE  Tally' /\ Admitted
<1>1. /\ status \in {"InProgress", "PendingValidation"} /\ status' = "PendingValidation"
      /\ w \in claims /\ w \notin Submitted
      /\ submission' = [submission EXCEPT ![w] = "Submitted"]
      /\ pending' = pending + 1 /\ live_submissions' = live_submissions + 1
      /\ claims' = claims /\ current_workers' = current_workers
  BY DEF SubmitTaskResult, claimVars, Submitted
<1>2. SlotsAgree' /\ current_workers' <= MaxWorkers
  BY <1>1, SlotKept
<1>3. Submitted' = Submitted \cup {w} /\ submission' \in [Workers -> SubmissionStates]
  BY <1>1 DEF Tally, Submitted, SubmissionStates
<1>4. ReviewsAgree'
  <2>1. Submitted \in SUBSET Workers
    BY DEF Submitted
  <2>2. Cardinality(Submitted') = Cardinality(Submitted) + 1
    BY <1>1, <1>3, <2>1, WorkerSets
  <2> QED
    BY <1>1, <2>2 DEF Tally, CountersAgree, ReviewsAgree
<1>5. Submitted' \subseteq claims' /\ Quiet'
  BY <1>1, <1>3 DEF Tally, CountersAgree, Quiet
<1> QED
  BY <1>1, <1>2, <1>3, <1>4, <1>5, TallyNext DEF Admitted, Terminal


LEMMA CancelTally ==
  ASSUME Engaged, Tally, Engaged', CancelTask
  PROVE  Tally' /\ Admitted
<1>1. PICK swept \in SUBSET claims :
        Cardinality(swept) = current_workers /\ claims' = claims \ swept
  BY DEF CancelTask
<1>2. /\ status \in {"Open", "InProgress"} /\ status' = "Cancelled" /\ current_workers' = 0
      /\ UNCHANGED <<pending, live_submissions, submission>>
  BY DEF CancelTask, Cancellable, submissionVars
<1>3. claims' = {}
  <2>1. IsFiniteSet(claims)
    BY WorkersAssumption, FS_Subset DEF Engaged
  <2>2. swept = claims
    BY <1>1, <2>1, FS_Subset DEF Tally, CountersAgree
  <2> QED
    BY <1>1, <2>2
<1>4. SlotsAgree' /\ current_workers' <= MaxWorkers
  BY <1>2, <1>3, FS_EmptySet, TaskAssumption DEF Engaged, SlotsAgree
<1>5. /\ ReviewsAgree' /\ Submitted' = Submitted
      /\ submission' \in [Workers -> SubmissionStates]
  BY <1>2, ReviewsKept
<1>6. Submitted = {}
  BY <1>2 DEF Tally, Quiet
<1> QED
  BY <1>2, <1>4, <1>5, <1>6, TallyNext DEF Admitted, Terminal, Quiet

LEMMA ConfigureTally ==
  ASSUME Engaged, Tally, Engaged', NEW m, ConfigureTaskValidation(m)
  PROVE  Tally' /\ Admitted
<1>1. /\ status = "Open" /\ status' = status /\ pending' = 0
      /\ UNCHANGED <<claims, current_workers, live_submissions, submission>>
  BY DEF ConfigureTaskValidation, Configurable, claimVars, submissionVars
<1>2. Submitted = {} /\ Submitted' = {} /\ claims' = {}
  BY <1>1 DEF Tally, Quiet, Submitted
<1>3. SlotsAgree' /\ current_workers' <= MaxWorkers
  BY <1>1, SlotKept
<1>4. ReviewsAgree'
  BY <1>1, <1>2, FS_EmptySet DEF Tally, CountersAgree, ReviewsAgree
<1>5. submission' \in [Workers -> SubmissionStates]
  BY <1>1 DEF Tally
<1> QED
  BY <1>1, <1>2, <1>3, <1>4, <1>5, TallyNext DEF Admitted, Terminal, Quiet

\* Bounced submissions of a terminal task are swept.
LEMMA CloseTally ==
  ASSUME Engaged, Tally, Engaged', NEW b, NEW swept \in SUBSET Workers, CloseTask(b, swept)
  PROVE  Tally' /\ Admitted
<1>1. /\ status \in Terminal /\ status' = status
      /\ \A w \in swept : submission[w] = "Rejected"
      /\ submission' = [w \in Workers |-> IF w \in swept THEN "none" ELSE submission[w]]
      /\ UNCHANGED <<claims, current_workers, pending, live_submissions>>
  BY DEF CloseTask, claimVars, counterVars
<1>2. Submitted' = Submitted /\ submission' \in [Workers -> SubmissionStates]
  BY <1>1 DEF Tally, Submitted, SubmissionStates
<1>3. SlotsAgree' /\ current_workers' <= MaxWorkers
  BY <1>1, SlotKept
<1>4. ReviewsAgree' /\ Submitted' \subseteq claims'
  BY <1>1, <1>2 DEF Tally, CountersAgree, ReviewsAgree
<1> QED
  BY <1>1, <1>2, <1>3, <1>4, TallyNext DEF Admitted, Terminal, Quiet

\* Bonds and the clock do not count.
LEMMA StillTally ==
  ASSUME Engaged, Tally, Engaged',
         UNCHANGED <<status, claims, current_workers, pending, live_submissions, submission>>
  PROVE  Tally'
<1>1. SlotsAgree' /\ current_workers' <= MaxWorkers
  BY SlotKept
<1>2. /\ ReviewsAgree' /\ Submitted' = Submitted
      /\ submission' \in [Workers -> SubmissionStates]
  BY ReviewsKept
<1> QED
  BY <1>1, <1>2, TallyNext DEF Tally, CountersAgree, Quiet

\* No instruction of the lifecycle but the clock meets a disputed task.
Passes == status' = status /\ claims' = claims /\ Submitted' = Submitted

LEMMA LifecycleTally ==
  ASSUME Engaged, Tally, Engaged', Next
  PROVE  Tally' /\ (Admitted \/ Passes)
<1>1. CASE Tick
  BY <1>1, StillTally DEF Tick, claimVars, counterVars, submissionVars, Passes, Submitted
<1>2. ASSUME NEW p, PostBond(p) PROVE Tally' /\ Passes
  BY <1>2, StillTally DEF PostBond, claimVars, counterVars, submissionVars, Passes, Submitted
<1>3. CASE CreatorStep
  BY <1>2, <1>3, CancelTally, ConfigureTally, CloseTally DEF CreatorStep, PostCreatorBond
<1>4. ASSUME NEW w \in Workers, ReviewStep(w)
      PROVE  Tally' /\ Admitted
  BY <1>4, AcceptTally, DismissTally, SendBackTally, ThawTally
  DEF ReviewStep, AcceptTaskResult, ValidateTaskResult
<1>5. ASSUME NEW w \in Workers, WorkerStep(w)
      PROVE  Tally' /\ (Admitted \/ Passes)
  BY <1>2, <1>5, ClaimTally, SubmitTally, CompleteTally, ExpireTally
  DEF WorkerStep, PostWorkerBond
<1>6. ASSUME NEW w \in Workers, Crank(w)
      PROVE  Tally' /\ Admitted
  <2>1. ASSUME NEW terms \in Terms, DistributeGhostShare(w, terms) PROVE FALSE
    BY <2>1, DisputeAssumption DEF DistributeGhostShare, Contest
  <2> QED
    BY <1>6, <2>1, AcceptTally, ThawTally, ExpireTally, ReclaimTally
    DEF Crank, AutoAcceptTaskResult
<1> QED
  BY <1>1, <1>3, <1>4, <1>5, <1>6 DEF Next

-----------------------------------------------------------------------------
(***************************************************************************)
(* The instructions of a dispute.                                          *)
(***************************************************************************)
LEMMA SweptTally ==
  ASSUME Tally, NEW w \in Workers, SweepSubmission(w)
  PROVE  /\ ReviewsAgree' /\ Submitted' = Submitted \ {w}
         /\ submission' \in [Workers -> SubmissionStates]
<1>1. submission' = [submission EXCEPT ![w] = "none"]
  BY DEF SweepSubmission, CloseSubmission
<1>2. CASE w \in Submitted
  BY <1>1, <1>2, Answered DEF SweepSubmission, Submitted, SubmissionStates
<1>3. CASE w \notin Submitted
  BY <1>1, <1>3, NothingAnswered DEF SweepSubmission, Submitted, SubmissionStates
<1> QED
  BY <1>2, <1>3

LEMMA InitiateTally ==
  ASSUME DInv, Tally, Engaged', NEW a \in Agents, NEW w \in Workers, NEW r \in Resolutions,
         InitiateDispute(a, w, r)
  PROVE  Tally'
<1>1. /\ status' = "Disputed"
      /\ UNCHANGED <<claims, current_workers, pending, live_submissions, submission>>
  BY DEF InitiateDispute, claimVars, counterVars, submissionVars
<1>2. SlotsAgree' /\ current_workers' <= MaxWorkers
  BY <1>1, SlotKept DEF DInv
<1>3. /\ ReviewsAgree' /\ Submitted' = Submitted
      /\ submission' \in [Workers -> SubmissionStates]
  BY <1>1, ReviewsKept
<1> QED
  BY <1>1, <1>2, <1>3, TallyNext DEF Tally, CountersAgree, Quiet

\* The restored status is the one the counters call for.
LEMMA WithdrawTally ==
  ASSUME DInv, Tally, Engaged', NEW i \in Opened, CancelDispute(i)
  PROVE  Tally'
<1>1. /\ status' = (IF status = "Disputed" THEN RestoredStatus ELSE status)
      /\ UNCHANGED <<claims, current_workers, pending, live_submissions, submission>>
  BY DEF CancelDispute, claimVars, counterVars, submissionVars
<1>2. SlotsAgree' /\ current_workers' <= MaxWorkers
  BY <1>1, SlotKept DEF DInv
<1>3. /\ ReviewsAgree' /\ Submitted' = Submitted
      /\ submission' \in [Workers -> SubmissionStates]
  BY <1>1, ReviewsKept
<1>4. Quiet'
  <2>1. CASE status = "Disputed"
    <3>1. SlotsAgree /\ ReviewsAgree /\ claims \in SUBSET Workers
      BY DEF Tally, CountersAgree, SlotsAgree, ReviewsAgree, DInv, Engaged
    <3>2. /\ current_workers \in Nat /\ (current_workers = 0 => claims = {})
          /\ live_submissions \in Nat /\ (live_submissions = 0 => Submitted = {})
      BY <3>1, NothingCounted
    <3> QED
      BY <1>1, <1>3, <2>1, <3>2 DEF RestoredStatus, Quiet
  <2>2. CASE status # "Disputed"
    BY <1>1, <1>3, <2>2 DEF Tally, Quiet
  <2> QED
    BY <2>1, <2>2
<1> QED
  BY <1>1, <1>2, <1>3, <1>4, TallyNext DEF Tally, CountersAgree

\* A loser keeps its claim, and is counted; nobody else is released.
LEMMA EndTally ==
  ASSUME DInv, Tally, Engaged', NEW i, NEW d, d.defendant \in claims, NEW terminal,
         EndDispute(i, d, terminal), status' \in Terminal
  PROVE  Tally'
<1> DEFINE w == d.defendant
<1>1. w \in Workers /\ claims \in SUBSET Workers
  BY DEF DInv, Engaged
<1>2. /\ current_workers = Cardinality(claims) /\ current_workers \in Nat
      /\ current_workers # 0 /\ Cardinality(claims \ {w}) = current_workers - 1
  BY <1>1, WorkerSets DEF Tally, CountersAgree
<1>3. /\ current_workers' = Dec(current_workers) + (IF WorkerLost(d) THEN 1 ELSE 0)
      /\ claims' = (IF WorkerLost(d) THEN claims ELSE claims \ {w})
      /\ SweepSubmission(w)
  BY DEF EndDispute, ReleaseDefendant, claimVars, CloseClaim
<1>4. Dec(current_workers) = current_workers - 1
  BY <1>2 DEF Dec
<1>5. current_workers' = Cardinality(claims') /\ current_workers' <= current_workers
  BY <1>2, <1>3, <1>4
<1>6. SlotsAgree' /\ current_workers' <= MaxWorkers
  BY <1>2, <1>5, TaskAssumption DEF Tally, SlotsAgree, Engaged
<1>7. /\ ReviewsAgree' /\ Submitted' = Submitted \ {w}
      /\ submission' \in [Workers -> SubmissionStates]
  BY <1>1, <1>3, SweptTally
<1>8. Submitted' \subseteq claims'
  BY <1>3, <1>7 DEF Tally, CountersAgree
<1> QED
  BY <1>6, <1>7, <1>8, TallyNext DEF Quiet, Terminal

LEMMA SettleTally ==
  ASSUME DInv, Tally, Engaged', NEW i \in Opened, NEW w \in Workers, SettleDisputeClaim(i, w)
  PROVE  Tally'
<1>1. /\ w \in claims /\ claims' = claims \ {w} /\ status' = status
      /\ current_workers' = Dec(current_workers) /\ SweepSubmission(w)
  BY DEF SettleDisputeClaim, CloseClaim, Dec
<1>2. SlotsAgree' /\ current_workers' <= MaxWorkers
  BY <1>1, SlotFreed DEF DInv
<1>3. /\ ReviewsAgree' /\ Submitted' = Submitted \ {w}
      /\ submission' \in [Workers -> SubmissionStates]
  BY <1>1, SweptTally
<1> QED
  BY <1>1, <1>2, <1>3, TallyNext DEF Tally, CountersAgree, Quiet

LEMMA SlashTally ==
  ASSUME DInv, Tally, Engaged', Phases, NEW i \in Opened, ApplyDisputeSlash(i)
  PROVE  Tally'
<1> DEFINE w == disputes[i].defendant
<1>1. /\ w \in claims /\ claims' = claims \ {w} /\ status' = status
      /\ current_workers' = Dec(current_workers)
      /\ UNCHANGED <<pending, live_submissions, submission>>
      /\ status \in Terminal /\ w \notin Submitted
  BY DEF ApplyDisputeSlash, CloseClaim, SaturatingRelease, submissionVars, Phases, Decided
<1>2. SlotsAgree' /\ current_workers' <= MaxWorkers
  BY <1>1, SlotFreed DEF DInv
<1>3. /\ ReviewsAgree' /\ Submitted' = Submitted
      /\ submission' \in [Workers -> SubmissionStates]
  BY <1>1, ReviewsKept
<1> QED
  BY <1>1, <1>2, <1>3, TallyNext DEF Tally, CountersAgree, Quiet, Terminal

\* A step that rewrites one dispute: it ends an undecided one, or winds a
\* decided one up, or only marks it.
LEMMA RewrittenPhases ==
  ASSUME DisputeType, Phases, NEW i \in Opened, NEW d \in Records, Update(i, d),
         d.defendant = disputes[i].defendant,
         d.status \in Decided => status' \in Terminal /\ d.defendant \notin Submitted',
         \/ disputes[i].status = "Active" /\ d.status # "Active"
         \/ /\ disputes[i].status \in Decided /\ d.status \in Decided
            /\ status' = status /\ Submitted' \subseteq Submitted
         \/ /\ d.status = disputes[i].status /\ status' = status
            /\ claims' = claims /\ Submitted' = Submitted
  PROVE  Phases'
<1>1. /\ Opened' = Opened /\ disputes'[i] = d
      /\ \A j \in Opened : j # i => disputes'[j] = disputes[j]
  BY Rewritten
<1>2. CASE disputes[i].status = "Active" /\ d.status # "Active"
  <2>1. \A j \in Opened : disputes'[j].status # "Active"
    BY <1>1, <1>2 DEF Phases
  <2>2. \A j \in Opened : j # i => disputes[j].status \notin Decided
    BY <1>2 DEF Phases, Terminal
  <2> QED
    BY <1>1, <2>1, <2>2 DEF Phases
<1>3. CASE /\ disputes[i].status \in Decided /\ d.status \in Decided
           /\ status' = status /\ Submitted' \subseteq Submitted
  <2>1. \A j \in Opened : disputes[j].status # "Active"
    BY <1>3 DEF Phases, Terminal
  <2>2. \A j \in Opened : disputes'[j].status # "Active"
    BY <1>1, <1>3, <2>1 DEF Decided
  <2> QED
    BY <1>1, <1>3, <2>2 DEF Phases
<1>4. CASE /\ d.status = disputes[i].status /\ status' = status
           /\ claims' = claims /\ Submitted' = Submitted
  BY <1>1, <1>4 DEF Phases
<1> QED
  BY <1>2, <1>3, <1>4

LEMMA UndisputedPhases ==
  ASSUME Phases, disputes' = disputes, Admitted \/ Passes
  PROVE  Phases'
<1>1. Opened' = Opened
  BY DEF Opened
<1>2. CASE Passes
  BY <1>1, <1>2 DEF Phases, Passes
<1>3. CASE Admitted
  BY <1>1, <1>3 DEF Phases, Admitted
<1> QED
  BY <1>2, <1>3

LEMMA InitiatePhases ==
  ASSUME DInv, Phases, NEW a \in Agents, NEW w \in Workers, NEW r \in Resolutions,
         InitiateDispute(a, w, r)
  PROVE  Phases'
<1> DEFINE d == [status |-> "Active", initiator |-> a, defendant |-> w,
                 resolution |-> r, approved |-> FALSE,
                 created_at |-> now, resolved_at |-> 0, worker_stake |-> stake[w],
                 pending_terminal |-> "none", peers |-> 0,
                 slash_applied |-> FALSE, initiator_slash_applied |-> FALSE]
<1>1. /\ status \in {"InProgress", "PendingValidation"} /\ status' = "Disputed"
      /\ w \in claims /\ claims' = claims
      /\ disputes' = Append(disputes, d)
  BY DEF InitiateDispute, claimVars
<1>2. d.status = "Active" /\ d.defendant = w
  OBVIOUS
<1> HIDE DEF d
<1>3. /\ Opened' = Opened \cup {Len(disputes) + 1} /\ Len(disputes) + 1 \notin Opened
      /\ disputes'[Len(disputes) + 1] = d
      /\ \A j \in Opened : disputes'[j] = disputes[j]
  BY <1>1 DEF DInv, DisputeType, Opened
<1>4. \A j \in Opened : disputes[j].status # "Active" /\ disputes[j].status \notin Decided
  BY <1>1 DEF Phases, Terminal
<1> QED
  BY <1>1, <1>2, <1>3, <1>4 DEF Phases, Decided

LEMMA WithdrawPhases ==
  ASSUME DInv, Phases, NEW i \in Opened, CancelDispute(i)
  PROVE  Phases'
<1> DEFINE old == disputes[i]
           d == [old EXCEPT !.status = "Cancelled", !.resolved_at = now]
<1>1. old.status = "Active" /\ Update(i, d)
  BY DEF CancelDispute
<1>2. old \in Records /\ now \in Nat
  BY RecordOf DEF DInv, Engaged
<1>3. d \in Records /\ d.defendant = old.defendant /\ d.status = "Cancelled"
  BY <1>2 DEF Records, DisputeStatuses
<1> HIDE DEF d
<1> QED
  BY <1>1, <1>3, RewrittenPhases DEF DInv, Decided

LEMMA EndPhases ==
  ASSUME DInv, Phases, NEW i \in Opened, NEW approved \in BOOLEAN,
         disputes[i].status = "Active", NEW terminal \in {"Resolved", "Expired"},
         EndDispute(i, [disputes[i] EXCEPT !.approved = approved], terminal),
         status' \in Terminal, Tally
  PROVE  Phases'
<1> DEFINE old == disputes[i]
           ruled == [old EXCEPT !.approved = approved]
           peers == Dec(current_workers)
           d == [ruled EXCEPT !.status = IF peers = 0 THEN terminal ELSE "SettlementPending",
                              !.pending_terminal = terminal, !.peers = peers,
                              !.resolved_at = now]
<1>1. Update(i, d) /\ SweepSubmission(ruled.defendant)
  BY DEF EndDispute
<1>2. old \in Records /\ now \in Nat /\ peers \in Nat
  BY RecordOf DEF DInv, Engaged, Dec
<1> HIDE DEF peers
<1>3. /\ d \in Records /\ d.defendant = old.defendant /\ ruled.defendant = old.defendant
      /\ d.status \in {terminal, "SettlementPending"}
      /\ old.defendant \in Workers
  BY <1>2 DEF Records, DisputeStatuses
<1> HIDE DEF d, ruled
<1>4. Submitted' = Submitted \ {old.defendant}
  BY <1>1, <1>3, SweptTally
<1> QED
  BY <1>1, <1>3, <1>4, RewrittenPhases DEF DInv

LEMMA SettlePhases ==
  ASSUME DInv, Tally, Phases, NEW i \in Opened, NEW w \in Workers, SettleDisputeClaim(i, w)
  PROVE  Phases'
<1> DEFINE old == disputes[i]
           d == [old EXCEPT !.peers = @ - 1,
                            !.status = IF old.peers = 1 THEN old.pending_terminal ELSE @]
<1>1. /\ old.status = "SettlementPending" /\ old.peers > 0 /\ Update(i, d)
      /\ status' = status /\ SweepSubmission(w)
  BY DEF SettleDisputeClaim
<1>2. old \in Records /\ InPhase(old)
  BY RecordOf DEF DInv, Fresh
<1>3. old.peers - 1 \in Nat /\ old.pending_terminal \in {"Resolved", "Expired"}
  BY <1>1, <1>2 DEF InPhase, Records
<1>4. /\ d \in Records /\ d.defendant = old.defendant
      /\ d.status \in {"SettlementPending", old.pending_terminal}
  BY <1>1, <1>2, <1>3 DEF Records, DisputeStatuses
<1> HIDE DEF d
<1>5. Submitted' \subseteq Submitted
  BY <1>1, SweptTally
<1>6. status \in Terminal /\ old.defendant \notin Submitted
  BY <1>1 DEF Phases, Decided
<1> QED
  BY <1>1, <1>3, <1>4, <1>5, <1>6, RewrittenPhases DEF DInv, Decided

LEMMA SlashPhases ==
  ASSUME DInv, Phases, NEW i \in Opened, ApplyDisputeSlash(i)
  PROVE  Phases'
<1> DEFINE old == disputes[i]
           d == [old EXCEPT !.slash_applied = TRUE]
<1>1. /\ old.status = "Resolved" /\ Update(i, d) /\ status' = status
      /\ Submitted' = Submitted
  BY DEF ApplyDisputeSlash, submissionVars, Submitted
<1>2. old \in Records
  BY RecordOf
<1>3. d \in Records /\ d.defendant = old.defendant /\ d.status = "Resolved"
  BY <1>1, <1>2 DEF Records
<1> HIDE DEF d
<1>4. status \in Terminal /\ old.defendant \notin Submitted
  BY <1>1 DEF Phases, Decided
<1> QED
  BY <1>1, <1>3, <1>4, RewrittenPhases DEF DInv, Decided

LEMMA FinalizePhases ==
  ASSUME DInv, Phases, NEW i \in Opened, ApplyInitiatorSlash(i)
  PROVE  Phases'
<1> DEFINE old == disputes[i]
           d == [old EXCEPT !.initiator_slash_applied = TRUE]
<1>1. /\ Update(i, d) /\ status' = status /\ claims' = claims /\ Submitted' = Submitted
  BY DEF ApplyInitiatorSlash, claimVars, submissionVars, Submitted
<1>2. old \in Records
  BY RecordOf
<1>3. d \in Records /\ d.defendant = old.defendant /\ d.status = old.status
  BY <1>2 DEF Records
<1> HIDE DEF d
<1> QED
  BY <1>1, <1>3, RewrittenPhases DEF DInv, Phases

-----------------------------------------------------------------------------
(***************************************************************************)
(* The counters, whatever is disputed.                                     *)
(***************************************************************************)
LEMMA InitCounters ==
  ASSUME DisputeInit
  PROVE  CInv
<1>1. Tally
  <2>1. /\ claims = {} /\ current_workers = 0 /\ live_submissions = 0 /\ pending = 0
        /\ active_tasks = [w \in Workers |-> 0]
        /\ submission = [w \in Workers |-> "none"]
    BY DEF DisputeInit, Init
  <2>2. Submitted = {}
    BY <2>1 DEF Submitted
  <2> QED
    BY <2>1, <2>2, FS_EmptySet, TaskAssumption
    DEF Tally, CountersAgree, Quiet, SubmissionStates
<1>2. Phases
  BY DEF DisputeInit, Phases, Opened
<1> QED
  BY <1>1, <1>2, InitInv DEF CInv

LEMMA NextCounters ==
  ASSUME CInv, [DisputeNext]_allVars
  PROVE  CInv'
<1> USE DEF CInv
<1>1. DInv' /\ Engaged'
  BY NextInv DEF DInv
<1>2. SUFFICES Tally' /\ Phases'
  BY <1>1
<1>3. CASE UNCHANGED allVars
  <2>1. Passes /\ disputes' = disputes
    BY <1>3 DEF allVars, vars, claimVars, submissionVars, disputeVars, Passes, Submitted
  <2>2. UNCHANGED <<status, claims, current_workers, pending, live_submissions, submission>>
    BY <1>3 DEF allVars, vars, claimVars, submissionVars, counterVars
  <2> QED
    BY <1>1, <2>1, <2>2, StillTally, UndisputedPhases DEF DInv
<1>4. CASE LifecycleStep
  BY <1>1, <1>4, LifecycleSteps, LifecycleTally, UndisputedPhases DEF DInv, disputeVars
<1>5. ASSUME NEW a \in Agents, NEW w \in Workers, NEW r \in Resolutions,
             InitiateDispute(a, w, r)
      PROVE  Tally' /\ Phases'
  BY <1>1, <1>5, InitiateTally, InitiatePhases
<1>6. ASSUME NEW i \in Opened, CancelDispute(i)
      PROVE  Tally' /\ Phases'
  BY <1>1, <1>6, WithdrawTally, WithdrawPhases
<1>7. ASSUME NEW i \in Opened, NEW approved \in BOOLEAN, disputes[i].status = "Active",
             NEW terminal \in {"Resolved", "Expired"},
             EndDispute(i, [disputes[i] EXCEPT !.approved = approved], terminal),
             status' \in Terminal
      PROVE  Tally' /\ Phases'
  <2> DEFINE d == [disputes[i] EXCEPT !.approved = approved]
  <2>1. d.defendant = disputes[i].defendant
    BY RecordOf DEF Records
  <2>2. d.defendant \in claims
    BY <1>7, <2>1 DEF Phases
  <2>3. Tally'
    BY <1>1, <1>7, <2>2, EndTally
  <2> QED
    BY <1>7, <2>3, EndPhases
<1>8. ASSUME NEW i \in Opened, NEW approved \in BOOLEAN, NEW terms \in Terms,
             ResolveDispute(i, approved, terms)
      PROVE  Tally' /\ Phases'
  <2>1. /\ disputes[i].status = "Active"
        /\ EndDispute(i, [disputes[i] EXCEPT !.approved = approved], "Resolved")
        /\ status' \in Terminal
    BY <1>8, RecordOf DEF ResolveDispute, Records, Terminal
  <2> QED
    BY <1>7, <2>1
<1>9. ASSUME NEW i \in Opened, ExpireDispute(i)
      PROVE  Tally' /\ Phases'
  <2>1. /\ disputes[i].status = "Active" /\ EndDispute(i, disputes[i], "Expired")
        /\ status' \in Terminal
    BY <1>9 DEF ExpireDispute, Terminal
  <2>2. disputes[i] = [disputes[i] EXCEPT !.approved = FALSE]
    BY <2>1, RecordOf DEF DInv, Fresh, InPhase, Records
  <2>3. EndDispute(i, [disputes[i] EXCEPT !.approved = FALSE], "Expired")
    BY <2>1, <2>2
  <2> QED
    BY <1>7, <2>1, <2>3
<1>10. ASSUME NEW i \in Opened, NEW w \in Workers, SettleDisputeClaim(i, w)
       PROVE  Tally' /\ Phases'
  BY <1>1, <1>10, SettleTally, SettlePhases
<1>11. ASSUME NEW i \in Opened, ApplyDisputeSlash(i)
       PROVE  Tally' /\ Phases'
  BY <1>1, <1>11, SlashTally, SlashPhases
<1>12. ASSUME NEW i \in Opened, ApplyInitiatorSlash(i)
       PROVE  Tally' /\ Phases'
  <2>1. UNCHANGED <<status, claims, current_workers, pending, live_submissions, submission>>
    BY <1>12 DEF ApplyInitiatorSlash, claimVars, submissionVars, counterVars
  <2> QED
    BY <1>1, <1>12, <2>1, StillTally, FinalizePhases DEF DInv
<1>13. ASSUME NEW a \in Agents, DeregisterAgent(a)
       PROVE  Tally' /\ Phases'
  <2>1. /\ UNCHANGED <<status, claims, current_workers, pending, live_submissions, submission>>
        /\ disputes' = disputes /\ Passes
    BY <1>13 DEF DeregisterAgent, claimVars, submissionVars, counterVars, Passes, Submitted
  <2> QED
    BY <1>1, <2>1, StillTally, UndisputedPhases DEF DInv
<1> QED
  BY <1>3, <1>4, <1>5, <1>6, <1>8, <1>9, <1>10, <1>11, <1>12, <1>13
  DEF DisputeNext, LifecycleStep, Unwinding, Opened

\* The inductive invariant: the counters are right by themselves, and no more
\* than one dispute is undecided, of a task that is disputed for it.
THEOREM DisputeCounters == DisputeSpec => []CInv
<1>1. DisputeInit => CInv
  BY InitCounters
<1>2. CInv /\ [DisputeNext]_allVars => CInv'
  BY NextCounters
<1> QED
  BY <1>1, <1>2, PTL DEF DisputeSpec

\* However a dispute ends, and whoever is slashed or settled afterwards, the
\* counters of the task and its agents agree with the claims and submissions
\* that exist.
THEOREM DisputedCountersAgree == DisputeSpec => []CountersAgree
<1>1. CInv => CountersAgree
  BY DEF CInv, Tally
<1> QED
  BY <1>1, DisputeCounters, PTL

-----------------------------------------------------------------------------
(***************************************************************************)
(* The review clock.  What the debt is compared with is a sum over the     *)
(* disputes withdrawn since a result was submitted.                        *)
(***************************************************************************)
\* Nothing lies in the future.
Dated(d) ==
  /\ d.created_at <= now
  /\ d.status = "Cancelled" => d.created_at <= d.resolved_at /\ d.resolved_at <= now

DebtCovers ==
  mode = "CreatorReview" =>
    \A w \in Submitted : SumFunction(FrozenTimes(w)) <= review_debt

DebtInv ==
  /\ review_debt \in Nat /\ review_deadline_at \in [Workers -> Int]
  /\ \A i \in Opened : Dated(disputes[i])
  /\ DebtCovers

LEMMA FrozenType ==
  ASSUME DInv, NEW w
  PROVE  /\ IsFiniteSet(FrozenSince(w)) /\ FrozenSince(w) \subseteq Opened
         /\ FrozenTimes(w) \in [FrozenSince(w) -> Int]
         /\ SumFunction(FrozenTimes(w)) \in Int
<1>1. IsFiniteSet(Opened)
  BY FS_Interval DEF DInv, DisputeType, Opened
<1>2. FrozenSince(w) \subseteq Opened
  BY DEF FrozenSince
<1>3. IsFiniteSet(FrozenSince(w))
  BY <1>1, <1>2, FS_Subset
<1>4. FrozenTimes(w) \in [FrozenSince(w) -> Int]
  <2>1. \A i \in FrozenSince(w) : disputes[i].resolved_at - disputes[i].created_at \in Int
    BY <1>2, RecordOf DEF Records
  <2> QED
    BY <2>1 DEF FrozenTimes
<1>5. SumFunction(FrozenTimes(w)) \in Int
  BY <1>3, <1>4, SumType DEF SumFunction
<1> QED
  BY <1>2, <1>3, <1>4, <1>5

\* What the disputes withdrawn since then have cost is the same.
SameReview(w) ==
  /\ mode' = mode /\ w \in Submitted
  /\ review_deadline_at'[w] = review_deadline_at[w]

\* Or the review has only begun.
NewReview(w) == review_deadline_at'[w] = now + ReviewWindow

ReviewsGoOn ==
  /\ review_deadline_at' \in [Workers -> Int]
  /\ \A w \in Submitted' : mode' = "CreatorReview" => SameReview(w) \/ NewReview(w)

LEMMA ReviewsGoOnKept ==
  ASSUME DebtInv, UNCHANGED <<mode, submission, review_deadline_at>>
  PROVE  ReviewsGoOn
BY DEF DebtInv, ReviewsGoOn, SameReview, Submitted

\* A worker's result leaves review, or was not there.
LEMMA ReviewsGoOnWithout ==
  ASSUME DebtInv, Tally, mode' = mode, NEW w \in Workers, NEW t \in Int,
         NEW x \in SubmissionStates \ {"Submitted"},
         submission' = [submission EXCEPT ![w] = x],
         review_deadline_at' = [review_deadline_at EXCEPT ![w] = t]
  PROVE  ReviewsGoOn
<1>1. \A v \in Submitted' : v \in Workers /\ v # w /\ submission'[v] = submission[v]
  BY DEF Tally, Submitted
<1> QED
  BY <1>1 DEF DebtInv, ReviewsGoOn, SameReview, Submitted

LEMMA ClosedReviewsGoOn ==
  ASSUME DebtInv, Tally, mode' = mode, NEW w \in Workers, CloseSubmission(w)
  PROVE  ReviewsGoOn
<1>1. "none" \in SubmissionStates \ {"Submitted"} /\ 0 \in Int
  BY DEF SubmissionStates
<1>2. /\ submission' = [submission EXCEPT ![w] = "none"]
      /\ review_deadline_at' = [review_deadline_at EXCEPT ![w] = 0]
  BY DEF CloseSubmission
<1> QED
  BY <1>1, <1>2, ReviewsGoOnWithout

LEMMA RejectedReviewsGoOn ==
  ASSUME DebtInv, Tally, mode' = mode, NEW w \in Workers, MarkRejected(w),
         \/ review_deadline_at' = review_deadline_at
         \/ \E t \in Int : review_deadline_at' = [review_deadline_at EXCEPT ![w] = t]
  PROVE  ReviewsGoOn
<1>1. \E t \in Int : review_deadline_at' = [review_deadline_at EXCEPT ![w] = t]
  <2>1. CASE review_deadline_at' = review_deadline_at
    <3>1. review_deadline_at[w] \in Int
      BY DEF DebtInv
    <3>2. review_deadline_at' = [review_deadline_at EXCEPT ![w] = review_deadline_at[w]]
      BY <2>1 DEF DebtInv
    <3> QED
      BY <3>1, <3>2
  <2> QED
    BY <2>1
<1> QED
  BY <1>1, ReviewsGoOnWithout DEF MarkRejected, SubmissionStates

LEMMA SubmitReviewsGoOn ==
  ASSUME DInv, DebtInv, Tally, NEW w \in Workers, SubmitTaskResult(w)
  PROVE  ReviewsGoOn
<1>1. /\ mode' = mode /\ submission' = [submission EXCEPT ![w] = "Submitted"]
      /\ review_deadline_at' = [review_deadline_at EXCEPT ![w] =
           now + IF mode = "CreatorReview" THEN ReviewWindow ELSE 0]
  BY DEF SubmitTaskResult, taskVars
<1>2. review_deadline_at' \in [Workers -> Int]
  BY <1>1, TimesAssumption DEF DebtInv, DInv, Engaged
<1>3. \A v \in Submitted' : v # w => SameReview(v)
  BY <1>1 DEF Tally, Submitted, SameReview, DebtInv
<1>4. mode' = "CreatorReview" => NewReview(w)
  BY <1>1 DEF NewReview, DebtInv
<1> QED
  BY <1>2, <1>3, <1>4 DEF ReviewsGoOn

LEMMA LifecycleReviewsGoOn ==
  ASSUME DInv, DebtInv, Tally, Next
  PROVE  ReviewsGoOn
<1>1. CASE Tick
  BY <1>1, ReviewsGoOnKept DEF Tick, taskVars, submissionVars
<1>2. ASSUME NEW p, PostBond(p) PROVE ReviewsGoOn
  BY <1>2, ReviewsGoOnKept DEF PostBond, taskVars, submissionVars
<1>3. CASE CancelTask
  BY <1>3, ReviewsGoOnKept DEF CancelTask, taskVars, submissionVars
<1>4. ASSUME NEW m, ConfigureTaskValidation(m) PROVE ReviewsGoOn
  <2>1. Submitted' = {}
    BY <1>4 DEF ConfigureTaskValidation, Configurable, submissionVars, Submitted, Tally, Quiet
  <2> QED
    BY <1>4, <2>1 DEF ConfigureTaskValidation, submissionVars, ReviewsGoOn, DebtInv
<1>5. ASSUME NEW b, NEW swept \in SUBSET Workers, CloseTask(b, swept) PROVE ReviewsGoOn
  <2>1. /\ \A w \in swept : submission[w] = "Rejected"
        /\ submission' = [w \in Workers |-> IF w \in swept THEN "none" ELSE submission[w]]
        /\ review_deadline_at' = [w \in Workers |->
             IF w \in swept THEN 0 ELSE review_deadline_at[w]]
        /\ mode' = mode
    BY <1>5 DEF CloseTask
  <2>2. \A w \in Submitted' : w \in Submitted /\ w \in Workers \ swept
    BY <2>1 DEF Submitted
  <2> QED
    BY <2>1, <2>2 DEF ReviewsGoOn, SameReview, DebtInv
<1>6. CASE CreatorStep
  BY <1>2, <1>3, <1>4, <1>5, <1>6 DEF CreatorStep, PostCreatorBond
<1>7. ASSUME NEW w \in Workers, NEW terms,
             \/ AcceptSubmission(w, terms) \/ ResolveFrozenForWorker(w, terms)
             \/ ExpireRejectFrozen(w, terms)
      PROVE  ReviewsGoOn
  BY <1>7, ClosedReviewsGoOn
  DEF AcceptSubmission, ResolveFrozenForWorker, ExpireRejectFrozen, taskVars
<1>8. ASSUME NEW w \in Workers, ReviewStep(w) PROVE ReviewsGoOn
  <2>1. CASE RejectTaskResult(w) \/ ResolveFrozenForCreator(w)
    BY <2>1, ClosedReviewsGoOn DEF RejectTaskResult, ResolveFrozenForCreator, taskVars
  <2>2. CASE RequestChanges(w) \/ RefuseTaskResult(w)
    BY <2>2, RejectedReviewsGoOn DEF RequestChanges, RefuseTaskResult, taskVars
  <2>3. CASE RejectAndFreeze(w)
    <3>1. now + ReviewWindow \in Int
      BY TimesAssumption DEF DInv, Engaged
    <3> QED
      BY <2>3, <3>1, RejectedReviewsGoOn DEF RejectAndFreeze, taskVars
  <2> QED
    BY <1>7, <1>8, <2>1, <2>2, <2>3 DEF ReviewStep, AcceptTaskResult, ValidateTaskResult
<1>9. ASSUME NEW w \in Workers, NEW caller, ExpireClaim(w, caller) PROVE ReviewsGoOn
  BY <1>9, ReviewsGoOnKept DEF ExpireClaim, taskVars, submissionVars
<1>10. ASSUME NEW w \in Workers, WorkerStep(w) PROVE ReviewsGoOn
  <2>1. CASE ClaimTask(w)
    BY <2>1, ReviewsGoOnKept DEF ClaimTask, submissionVars
  <2>2. ASSUME NEW terms, CompleteTask(w, terms) PROVE ReviewsGoOn
    BY <2>2, ReviewsGoOnKept DEF CompleteTask, taskVars, submissionVars
  <2> QED
    BY <1>2, <1>9, <1>10, <2>1, <2>2, SubmitReviewsGoOn DEF WorkerStep, PostWorkerBond
<1>11. ASSUME NEW w \in Workers, Crank(w) PROVE ReviewsGoOn
  <2>1. ASSUME NEW terms \in Terms, DistributeGhostShare(w, terms) PROVE FALSE
    BY <2>1, DisputeAssumption DEF DistributeGhostShare, Contest
  <2>2. CASE ReclaimTerminalClaim(w)
    BY <2>2, ClosedReviewsGoOn DEF ReclaimTerminalClaim, taskVars
  <2> QED
    BY <1>7, <1>9, <1>11, <2>1, <2>2 DEF Crank, AutoAcceptTaskResult
<1> QED
  BY <1>1, <1>6, <1>8, <1>10, <1>11 DEF Next

LEMMA ClockRuns ==
  ASSUME Next
  PROVE  now' \in {now, now + 1}
<1>1. CASE Tick
  BY <1>1 DEF Tick
<1>2. CASE CreatorStep
  BY <1>2 DEF CreatorStep, ConfigureTaskValidation, CancelTask, PostCreatorBond, PostBond,
              CloseTask
<1>3. ASSUME NEW w \in Workers, NEW terms,
             \/ AcceptSubmission(w, terms) \/ ResolveFrozenForWorker(w, terms)
             \/ ExpireRejectFrozen(w, terms) \/ CompleteTask(w, terms)
             \/ DistributeGhostShare(w, terms)
      PROVE  now' = now
  BY <1>3 DEF AcceptSubmission, ResolveFrozenForWorker, ExpireRejectFrozen, CompleteTask,
              DistributeGhostShare
<1>4. ASSUME NEW w \in Workers, NEW caller, ExpireClaim(w, caller)
      PROVE  now' = now
  BY <1>4 DEF ExpireClaim
<1>5. ASSUME NEW w \in Workers, ReviewStep(w)
      PROVE  now' = now
  <2>1. CASE \/ RejectTaskResult(w) \/ RequestChanges(w) \/ RejectAndFreeze(w)
             \/ RefuseTaskResult(w) \/ ResolveFrozenForCreator(w)
    BY <2>1 DEF RejectTaskResult, RequestChanges, RejectAndFreeze, RefuseTaskResult,
                ResolveFrozenForCreator
  <2> QED
    BY <1>3, <1>5, <2>1 DEF ReviewStep, AcceptTaskResult, ValidateTaskResult
<1>6. ASSUME NEW w \in Workers, WorkerStep(w)
      PROVE  now' = now
  <2>1. CASE ClaimTask(w) \/ SubmitTaskResult(w) \/ PostWorkerBond(w)
    BY <2>1 DEF ClaimTask, SubmitTaskResult, PostWorkerBond, PostBond
  <2> QED
    BY <1>3, <1>4, <1>6, <2>1 DEF WorkerStep
<1>7. ASSUME NEW w \in Workers, Crank(w)
      PROVE  now' = now
  <2>1. CASE ReclaimTerminalClaim(w)
    BY <2>1 DEF ReclaimTerminalClaim
  <2> QED
    BY <1>3, <1>4, <1>7, <2>1 DEF Crank, AutoAcceptTaskResult
<1> QED
  BY <1>1, <1>2, <1>5, <1>6, <1>7 DEF Next

\* No dispute is withdrawn, and those that were keep their dates.
Withdrawn(i) == i \in Opened /\ disputes[i].status = "Cancelled"

SameWithdrawals ==
  \A i : /\ Withdrawn(i)' <=> Withdrawn(i)
         /\ Withdrawn(i) => /\ disputes'[i].created_at = disputes[i].created_at
                            /\ disputes'[i].resolved_at = disputes[i].resolved_at

\* Then the debt goes on covering what was lost: nothing has been lost yet of
\* a review that only begins.
LEMMA CoveredStill ==
  ASSUME DInv, DebtInv, ReviewsGoOn, SameWithdrawals, review_debt' = review_debt
  PROVE  DebtCovers'
<1> SUFFICES ASSUME mode' = "CreatorReview", NEW w \in Submitted'
             PROVE  SumFunction(FrozenTimes(w)') <= review_debt
  BY DEF DebtCovers
<1>1. CASE SameReview(w)
  <2>1. FrozenSince(w)' = FrozenSince(w)
    BY <1>1 DEF FrozenSince, SameWithdrawals, Withdrawn, SameReview
  <2>2. \A i \in FrozenSince(w) : disputes'[i].resolved_at - disputes'[i].created_at
                                    = disputes[i].resolved_at - disputes[i].created_at
    BY DEF FrozenSince, SameWithdrawals, Withdrawn
  <2>3. FrozenTimes(w)' = FrozenTimes(w)
    BY <2>1, <2>2 DEF FrozenTimes
  <2>4. SumFunction(FrozenTimes(w)) <= review_debt
    BY <1>1 DEF DebtInv, DebtCovers, SameReview
  <2> QED
    BY <2>3, <2>4
<1>2. CASE NewReview(w)
  <2> DEFINE S == FrozenSince(w)'
  <2>1. now \in Int /\ ReviewWindow \in Int /\ now + ReviewWindow - ReviewWindow = now
    BY TimesAssumption DEF DInv, Engaged
  <2>2. \A i \in S : /\ Withdrawn(i) /\ disputes'[i].created_at >= now
                     /\ disputes'[i].created_at = disputes[i].created_at
                     /\ disputes'[i].resolved_at = disputes[i].resolved_at
    BY <1>2, <2>1 DEF FrozenSince, SameWithdrawals, Withdrawn, NewReview
  <2>3. \A i \in S : disputes'[i].resolved_at - disputes'[i].created_at = 0
    <3> SUFFICES ASSUME NEW i \in S
                 PROVE  disputes'[i].resolved_at - disputes'[i].created_at = 0
      OBVIOUS
    <3>1. disputes[i].created_at \in Int /\ disputes[i].resolved_at \in Int
      BY <2>2, RecordOf DEF Records, Withdrawn
    <3>2. /\ disputes[i].created_at <= disputes[i].resolved_at
          /\ disputes[i].resolved_at <= now
      BY <2>2 DEF DebtInv, Dated, Withdrawn
    <3>3. disputes'[i].created_at >= now
      BY <2>2
    <3> QED
      BY <2>1, <2>2, <3>1, <3>2, <3>3
  <2>4. FrozenTimes(w)' = [i \in S |-> IF i \in {} THEN 0 ELSE 0]
    BY <2>3 DEF FrozenTimes
  <2>5. IsFiniteSet(S)
    <3>1. S \subseteq Opened
      BY <2>2 DEF Withdrawn
    <3>2. IsFiniteSet(Opened)
      BY FS_Interval DEF DInv, DisputeType, Opened
    <3> QED
      BY <3>1, <3>2, FS_Subset
  <2> HIDE DEF S
  <2>6. SumFunction(FrozenTimes(w)') = 0 * Cardinality({})
    BY <2>4, <2>5, SumOfShares DEF SumFunction
  <2>7. SumFunction(FrozenTimes(w)') = 0
    BY <2>6, FS_EmptySet
  <2> QED
    BY <2>7 DEF DebtInv
<1> QED
  BY <1>1, <1>2 DEF ReviewsGoOn

LEMMA UndisputedDebt ==
  ASSUME DInv, DebtInv, ReviewsGoOn, now' \in {now, now + 1},
         disputes' = disputes, review_debt' = review_debt
  PROVE  DebtInv'
<1>1. Opened' = Opened
  BY DEF Opened
<1>2. SameWithdrawals
  BY <1>1 DEF SameWithdrawals, Withdrawn
<1>3. \A i \in Opened : Dated(disputes[i])'
  <2> SUFFICES ASSUME NEW i \in Opened PROVE Dated(disputes[i])'
    OBVIOUS
  <2>1. disputes[i] \in Records /\ now \in Nat
    BY RecordOf DEF DInv, Engaged
  <2> QED
    BY <2>1 DEF DebtInv, Dated, Records
<1> QED
  BY <1>1, <1>2, <1>3, CoveredStill DEF DebtInv, ReviewsGoOn

\* A dispute is rewritten that is not withdrawn by this step.
LEMMA RewrittenDebt ==
  ASSUME DInv, DebtInv, ReviewsGoOn, now' = now, review_debt' = review_debt,
         NEW i \in Opened, NEW d \in Records, Update(i, d),
         d.created_at = disputes[i].created_at,
         d.status = "Cancelled" <=> disputes[i].status = "Cancelled",
         d.status = "Cancelled" => d.resolved_at = disputes[i].resolved_at
  PROVE  DebtInv'
<1>1. /\ Opened' = Opened /\ disputes'[i] = d
      /\ \A j \in Opened : j # i => disputes'[j] = disputes[j]
  BY Rewritten DEF DInv
<1>2. SameWithdrawals
  BY <1>1 DEF SameWithdrawals, Withdrawn
<1>3. \A j \in Opened : Dated(disputes[j])'
  BY <1>1 DEF DebtInv, Dated
<1> QED
  BY <1>1, <1>2, <1>3, CoveredStill DEF DebtInv, ReviewsGoOn

LEMMA InitiateDebt ==
  ASSUME DInv, DebtInv, NEW a \in Agents, NEW w \in Workers, NEW r \in Resolutions,
         InitiateDispute(a, w, r)
  PROVE  DebtInv'
<1> DEFINE d == [status |-> "Active", initiator |-> a, defendant |-> w,
                 resolution |-> r, approved |-> FALSE,
                 created_at |-> now, resolved_at |-> 0, worker_stake |-> stake[w],
                 pending_terminal |-> "none", peers |-> 0,
                 slash_applied |-> FALSE, initiator_slash_applied |-> FALSE]
<1>0. PICK n : n = Len(disputes) + 1
  OBVIOUS
<1>1. /\ now' = now /\ review_debt' = review_debt
      /\ UNCHANGED <<mode, submission, review_deadline_at>>
      /\ disputes' = Append(disputes, d)
  BY DEF InitiateDispute, taskVars, submissionVars
<1>2. d.status = "Active" /\ d.created_at = now
  OBVIOUS
<1> HIDE DEF d
<1>3. /\ Opened' = Opened \cup {n} /\ n \notin Opened /\ disputes'[n] = d
      /\ \A j \in Opened : disputes'[j] = disputes[j]
  BY <1>0, <1>1 DEF DInv, DisputeType, Opened
<1>4. SameWithdrawals
  BY <1>2, <1>3 DEF SameWithdrawals, Withdrawn
<1>5. \A j \in Opened' : Dated(disputes[j])'
  <2>1. now \in Nat
    BY DEF DInv, Engaged
  <2>2. Dated(disputes[n])'
    BY <1>1, <1>2, <1>3, <2>1 DEF Dated
  <2>3. \A j \in Opened : Dated(disputes[j])'
    BY <1>1, <1>3 DEF DebtInv, Dated
  <2> QED
    BY <1>3, <2>2, <2>3
<1>6. ReviewsGoOn
  BY <1>1, ReviewsGoOnKept
<1> QED
  BY <1>1, <1>4, <1>5, <1>6, CoveredStill DEF DebtInv, ReviewsGoOn

\* cancel_dispute: while a result is under review, what the dispute has lasted
\* is what it adds to the debt.
LEMMA WithdrawDebt ==
  ASSUME CInv, DebtInv, NEW i \in Opened, CancelDispute(i)
  PROVE  DebtInv'
<1> DEFINE old == disputes[i]
           d == [old EXCEPT !.status = "Cancelled", !.resolved_at = now]
           lasted == now - old.created_at
<1>1. /\ old.status = "Active" /\ Update(i, d) /\ now' = now
      /\ UNCHANGED <<mode, submission, review_deadline_at>>
      /\ review_debt' = review_debt + IF status = "Disputed" THEN ReviewDebt(old) ELSE 0
  BY DEF CancelDispute, taskVars, submissionVars
<1>2. old \in Records /\ now \in Nat /\ old.created_at <= now
  BY RecordOf DEF CInv, DInv, Engaged, DebtInv, Dated
<1>3. /\ d \in Records /\ d.status = "Cancelled" /\ d.created_at = old.created_at
      /\ d.resolved_at = now
  BY <1>2 DEF Records, DisputeStatuses
<1>4. lasted \in Nat /\ old.created_at \in Nat
  BY <1>2 DEF Records
<1> HIDE DEF d
<1>5. /\ Opened' = Opened /\ disputes'[i] = d
      /\ \A j \in Opened : j # i => disputes'[j] = disputes[j]
  BY <1>1, <1>3, Rewritten DEF CInv, DInv
<1>6. status = "Disputed"
  BY <1>1 DEF CInv, Phases
<1>7. review_debt' = review_debt + ReviewDebt(old) /\ ReviewDebt(old) \in {0, lasted}
  BY <1>1, <1>6 DEF ReviewDebt
<1>8. \A j \in Opened : Dated(disputes[j])'
  BY <1>1, <1>2, <1>3, <1>5 DEF DebtInv, Dated
<1>9. DebtCovers'
  <2> SUFFICES ASSUME mode' = "CreatorReview", NEW w \in Submitted'
               PROVE  SumFunction(FrozenTimes(w)') <= review_debt'
    BY DEF DebtCovers
  <2> DEFINE S == FrozenSince(w)
             before == SumFunction(FrozenTimes(w))
  <2>1. w \in Submitted /\ before <= review_debt
    BY <1>1 DEF Submitted, DebtInv, DebtCovers
  <2>2. before \in Int /\ IsFiniteSet(S) /\ S \subseteq Opened /\ FrozenTimes(w) \in [S -> Int]
    BY FrozenType DEF CInv
  <2>3. ReviewDebt(old) = lasted
    <3>1. SlotsAgree /\ ReviewsAgree /\ claims \in SUBSET Workers
      BY DEF CInv, Tally, CountersAgree, SlotsAgree, ReviewsAgree, DInv, Engaged
    <3>2. live_submissions \in Nat /\ live_submissions # 0
      BY <2>1, <3>1, NothingCounted
    <3> QED
      BY <3>2 DEF ReviewDebt, RestoredStatus
  <2>4. i \notin S
    BY <1>1 DEF FrozenSince
  <2>5. \A j \in S : disputes'[j] = disputes[j]
    BY <1>5, <2>2, <2>4
  <2>6. CASE FrozenSince(w)' = S
    <3>1. FrozenTimes(w)' = FrozenTimes(w)
      BY <2>5, <2>6 DEF FrozenTimes
    <3> HIDE DEF before
    <3>2. SumFunction(FrozenTimes(w)') = before
      BY <3>1 DEF before
    <3> QED
      BY <1>4, <1>7, <2>1, <2>2, <3>2 DEF DebtInv
  <2>7. CASE FrozenSince(w)' = S \cup {i}
    <3> DEFINE f == FrozenTimes(w)
               g == FrozenTimes(w)'
    <3>1. /\ g \in [S \cup {i} -> Int] /\ g[i] = lasted
          /\ \A j \in S : g[j] = f[j]
      <4>1. g = [j \in S \cup {i} |-> disputes'[j].resolved_at - disputes'[j].created_at]
        BY <2>7 DEF FrozenTimes
      <4>2. f = [j \in S |-> disputes[j].resolved_at - disputes[j].created_at]
        BY DEF FrozenTimes
      <4> HIDE DEF f, g
      <4>3. g[i] = lasted /\ \A j \in S : g[j] = f[j] /\ g[j] \in Int
        BY <1>3, <1>5, <2>2, <2>5, <4>1, <4>2 DEF f
      <4>4. \A j \in S \cup {i} : g[j] \in Int
        BY <1>4, <4>3
      <4> QED
        BY <4>1, <4>3, <4>4
    <3>2. DOMAIN f = S /\ DOMAIN g = S \cup {i}
      BY <2>2, <3>1
    <3> HIDE DEF f, g, S
    <3>3. SumFunctionOnSet(g, S \cup {i}) = SumFunctionOnSet(f, S) + lasted
      BY <2>2, <2>4, <3>1, SumExtended DEF f
    <3>4. SumFunction(g) = before + lasted
      BY <3>2, <3>3 DEF SumFunction, f
    <3> HIDE DEF before
    <3>5. SumFunction(FrozenTimes(w)') = before + lasted
      BY <3>4 DEF g
    <3> QED
      BY <1>4, <1>7, <2>1, <2>2, <2>3, <3>5 DEF DebtInv
  <2>8. FrozenSince(w)' \in {S, S \cup {i}}
    BY <1>1, <1>3, <1>5, <2>4, <2>5 DEF FrozenSince
  <2> QED
    BY <2>6, <2>7, <2>8
<1> QED
  BY <1>1, <1>4, <1>5, <1>7, <1>8, <1>9 DEF DebtInv

-----------------------------------------------------------------------------
(***************************************************************************)
(* The debt, whatever is disputed.                                         *)
(***************************************************************************)
LEMMA InitDebt ==
  ASSUME DisputeInit
  PROVE  DebtInv
<1>1. /\ review_debt = 0 /\ review_deadline_at = [w \in Workers |-> 0]
      /\ submission = [w \in Workers |-> "none"] /\ disputes = << >>
  BY DEF DisputeInit, Init
<1>2. Submitted = {} /\ Opened = {}
  BY <1>1 DEF Submitted, Opened
<1> QED
  BY <1>1, <1>2 DEF DebtInv, DebtCovers

\* A decided dispute is not a withdrawn one.
LEMMA EndDebt ==
  ASSUME CInv, DebtInv, NEW i \in Opened, NEW approved \in BOOLEAN,
         disputes[i].status = "Active", NEW terminal \in {"Resolved", "Expired"},
         EndDispute(i, [disputes[i] EXCEPT !.approved = approved], terminal)
  PROVE  DebtInv'
<1> DEFINE old == disputes[i]
           ruled == [old EXCEPT !.approved = approved]
           peers == Dec(current_workers)
           d == [ruled EXCEPT !.status = IF peers = 0 THEN terminal ELSE "SettlementPending",
                              !.pending_terminal = terminal, !.peers = peers,
                              !.resolved_at = now]
<1>1. /\ Update(i, d) /\ now' = now /\ review_debt' = review_debt /\ mode' = mode
      /\ SweepSubmission(ruled.defendant)
  BY DEF EndDispute, taskVars
<1>2. old \in Records /\ now \in Nat /\ current_workers \in Nat
  BY RecordOf DEF CInv, DInv, Engaged
<1>3. ruled \in Records /\ ruled.defendant \in Workers /\ ruled.created_at = old.created_at
  BY <1>2 DEF Records
<1> HIDE DEF ruled
<1>4. peers \in Nat
  BY <1>2 DEF Dec
<1> HIDE DEF peers
<1>5. d \in Records /\ d.created_at = old.created_at /\ d.status # "Cancelled"
  BY <1>2, <1>3, <1>4 DEF Records, DisputeStatuses
<1> HIDE DEF d
<1>6. ReviewsGoOn
  BY <1>1, <1>3, ClosedReviewsGoOn DEF SweepSubmission, CInv
<1> QED
  BY <1>1, <1>5, <1>6, RewrittenDebt DEF CInv

LEMMA SettleDebt ==
  ASSUME CInv, DebtInv, NEW i \in Opened, NEW w \in Workers, SettleDisputeClaim(i, w)
  PROVE  DebtInv'
<1> DEFINE old == disputes[i]
           d == [old EXCEPT !.peers = @ - 1,
                            !.status = IF old.peers = 1 THEN old.pending_terminal ELSE @]
<1>1. /\ old.status = "SettlementPending" /\ old.peers > 0 /\ Update(i, d)
      /\ now' = now /\ review_debt' = review_debt /\ mode' = mode /\ SweepSubmission(w)
  BY DEF SettleDisputeClaim, taskVars
<1>2. old \in Records /\ InPhase(old)
  BY RecordOf DEF CInv, DInv, Fresh
<1>3. old.peers - 1 \in Nat /\ old.pending_terminal \in {"Resolved", "Expired"}
  BY <1>1, <1>2 DEF InPhase, Records
<1>4. d \in Records /\ d.created_at = old.created_at /\ d.status # "Cancelled"
  BY <1>1, <1>2, <1>3 DEF Records, DisputeStatuses
<1> HIDE DEF d
<1>5. ReviewsGoOn
  BY <1>1, ClosedReviewsGoOn DEF SweepSubmission, CInv
<1> QED
  BY <1>1, <1>4, <1>5, RewrittenDebt DEF CInv

LEMMA SlashDebt ==
  ASSUME DInv, DebtInv, NEW i \in Opened, ApplyDisputeSlash(i) \/ ApplyInitiatorSlash(i)
  PROVE  DebtInv'
<1> DEFINE old == disputes[i]
<1>1. PICK d \in {[old EXCEPT !.slash_applied = TRUE],
                  [old EXCEPT !.initiator_slash_applied = TRUE]} : Update(i, d)
  BY DEF ApplyDisputeSlash, ApplyInitiatorSlash
<1>2. /\ now' = now /\ review_debt' = review_debt
      /\ UNCHANGED <<mode, submission, review_deadline_at>>
  BY DEF ApplyDisputeSlash, ApplyInitiatorSlash, taskVars, submissionVars
<1>3. old \in Records
  BY RecordOf
<1>4. /\ d \in Records /\ d.created_at = old.created_at /\ d.status = old.status
      /\ d.resolved_at = old.resolved_at
  BY <1>1, <1>3 DEF Records
<1>5. ReviewsGoOn
  BY <1>2, ReviewsGoOnKept
<1> QED
  BY <1>1, <1>2, <1>4, <1>5, RewrittenDebt

LEMMA NextDebt ==
  ASSUME CInv, DebtInv, [DisputeNext]_allVars
  PROVE  DebtInv'
<1> USE DEF CInv
<1>1. CASE UNCHANGED allVars
  <2>1. /\ UNCHANGED <<now, disputes, review_debt>>
        /\ UNCHANGED <<mode, submission, review_deadline_at>>
    BY <1>1 DEF allVars, vars, taskVars, submissionVars, disputeVars
  <2> QED
    BY <2>1, ReviewsGoOnKept, UndisputedDebt
<1>2. CASE LifecycleStep
  BY <1>2, LifecycleSteps, LifecycleReviewsGoOn, ClockRuns, UndisputedDebt DEF disputeVars
<1>3. ASSUME NEW a \in Agents, NEW w \in Workers, NEW r \in Resolutions,
             InitiateDispute(a, w, r)
      PROVE  DebtInv'
  BY <1>3, InitiateDebt
<1>4. ASSUME NEW i \in Opened, CancelDispute(i)
      PROVE  DebtInv'
  BY <1>4, WithdrawDebt
<1>5. ASSUME NEW i \in Opened, NEW approved \in BOOLEAN, NEW terms \in Terms,
             ResolveDispute(i, approved, terms)
      PROVE  DebtInv'
  <2>1. /\ disputes[i].status = "Active"
        /\ EndDispute(i, [disputes[i] EXCEPT !.approved = approved], "Resolved")
    BY <1>5, RecordOf DEF ResolveDispute, Records
  <2> QED
    BY <2>1, EndDebt
<1>6. ASSUME NEW i \in Opened, ExpireDispute(i)
      PROVE  DebtInv'
  <2>1. disputes[i].status = "Active" /\ EndDispute(i, disputes[i], "Expired")
    BY <1>6 DEF ExpireDispute
  <2>2. disputes[i] = [disputes[i] EXCEPT !.approved = FALSE]
    BY <2>1, RecordOf DEF DInv, Fresh, InPhase, Records
  <2>3. EndDispute(i, [disputes[i] EXCEPT !.approved = FALSE], "Expired")
    BY <2>1, <2>2
  <2> QED
    BY <2>1, <2>3, EndDebt
<1>7. ASSUME NEW i \in Opened, NEW w \in Workers, SettleDisputeClaim(i, w)
      PROVE  DebtInv'
  BY <1>7, SettleDebt
<1>8. ASSUME NEW i \in Opened, ApplyDisputeSlash(i) \/ ApplyInitiatorSlash(i)
      PROVE  DebtInv'
  BY <1>8, SlashDebt
<1>9. ASSUME NEW a \in Agents, DeregisterAgent(a)
      PROVE  DebtInv'
  <2>1. /\ UNCHANGED <<now, disputes, review_debt>>
        /\ UNCHANGED <<mode, submission, review_deadline_at>>
    BY <1>9 DEF DeregisterAgent, taskVars, submissionVars
  <2> QED
    BY <2>1, ReviewsGoOnKept, UndisputedDebt
<1> QED
  BY <1>1, <1>2, <1>3, <1>4, <1>5, <1>6, <1>7, <1>8, <1>9
  DEF DisputeNext, LifecycleStep, Unwinding, Opened

\* However many disputes are opened against a result and withdrawn, by
\* whomever, the creator has had the whole review window outside of them when
\* auto_accept_task_result accepts the result in its silence: the debt covers
\* what each of them took, and it is never paid down.
THEOREM ReviewTimeAlwaysGivenBack == DisputeSpec => []ReviewTimeGivenBack
<1>1. DisputeInit => DebtInv
  BY InitDebt
<1>2. CInv /\ DebtInv /\ [DisputeNext]_allVars => DebtInv'
  BY NextDebt
<1>3. CInv /\ DebtInv => ReviewTimeGivenBack
  <2> SUFFICES ASSUME CInv, DebtInv, NEW w \in Submitted,
                      mode = "CreatorReview", ReviewDebtPaid(w)
               PROVE  now >= review_deadline_at[w] + SumFunction(FrozenTimes(w))
    BY DEF ReviewTimeGivenBack
  <2> DEFINE lost == SumFunction(FrozenTimes(w))
  <2>1. lost \in Int /\ lost <= review_debt /\ review_debt \in Nat
    BY FrozenType DEF CInv, DebtInv, DebtCovers
  <2>2. review_deadline_at[w] \in Int /\ now \in Nat
    BY DEF DebtInv, Submitted, CInv, DInv, Engaged
  <2>3. now >= review_deadline_at[w] + review_debt
    BY DEF ReviewDebtPaid
  <2> HIDE DEF lost
  <2>4. now >= review_deadline_at[w] + lost
    BY <2>1, <2>2, <2>3
  <2> QED
    BY <2>4 DEF lost
<1> QED
  BY <1>1, <1>2, <1>3, DisputeCounters, PTL DEF DisputeSpec

-----------------------------------------------------------------------------
(***************************************************************************)
(* Bonds.  A ruling may cost the worker its bond, and nothing else that    *)
(* happens to a dispute may, unless it is a no-show.  Bonds are posted for *)
(* Exclusive tasks only, where a ruling leaves no peers to be settled and  *)
(* therefore decides at once.                                              *)
(***************************************************************************)
BondsExclusive == bonds # {} => TaskType = "Exclusive"

LEMMA LifecyclePosting ==
  ASSUME TypeOK, Next
  PROVE  bonds' \subseteq bonds \/ TaskType = "Exclusive"
<1>1. ASSUME NEW p, PostBond(p) PROVE TaskType = "Exclusive"
  BY <1>1 DEF PostBond
<1>2. CASE Tick
  BY <1>2 DEF Tick
<1>3. CASE CreatorStep
  BY <1>1, <1>3
  DEF CreatorStep, ConfigureTaskValidation, CancelTask, PostCreatorBond, CloseTask
<1>4. ASSUME NEW w \in Workers, NEW terms,
             \/ AcceptSubmission(w, terms) \/ ResolveFrozenForWorker(w, terms)
             \/ ExpireRejectFrozen(w, terms) \/ CompleteTask(w, terms)
             \/ DistributeGhostShare(w, terms)
      PROVE  bonds' \subseteq bonds
  BY <1>4 DEF AcceptSubmission, ResolveFrozenForWorker, ExpireRejectFrozen, CompleteTask,
              DistributeGhostShare, ReleaseBonds
<1>5. ASSUME NEW w \in Workers, NEW caller, ExpireClaim(w, caller)
      PROVE  bonds' \subseteq bonds
  BY <1>5 DEF ExpireClaim
<1>6. ASSUME NEW w \in Workers, ReviewStep(w)
      PROVE  bonds' \subseteq bonds
  <2>1. CASE \/ RejectTaskResult(w) \/ RequestChanges(w) \/ RejectAndFreeze(w)
             \/ RefuseTaskResult(w) \/ ResolveFrozenForCreator(w)
    BY <2>1 DEF RejectTaskResult, RequestChanges, RejectAndFreeze, RefuseTaskResult,
                ResolveFrozenForCreator, ReleaseBonds
  <2> QED
    BY <1>4, <1>6, <2>1 DEF ReviewStep, AcceptTaskResult, ValidateTaskResult
<1>7. ASSUME NEW w \in Workers, WorkerStep(w)
      PROVE  bonds' \subseteq bonds \/ TaskType = "Exclusive"
  <2>1. CASE ClaimTask(w) \/ SubmitTaskResult(w) \/ PostWorkerBond(w)
    BY <1>1, <2>1 DEF ClaimTask, SubmitTaskResult, PostWorkerBond
  <2> QED
    BY <1>4, <1>5, <1>7, <2>1 DEF WorkerStep
<1>8. ASSUME NEW w \in Workers, Crank(w)
      PROVE  bonds' \subseteq bonds
  <2>1. CASE ReclaimTerminalClaim(w)
    BY <2>1 DEF ReclaimTerminalClaim
  <2> QED
    BY <1>4, <1>5, <1>8, <2>1 DEF Crank, AutoAcceptTaskResult
<1> QED
  BY <1>2, <1>3, <1>6, <1>7, <1>8 DEF Next

\* No instruction of a dispute posts a bond, and only what decides it returns
\* or takes one.
LEMMA DisputeBonds ==
  ASSUME DisputeNext
  PROVE  \/ LifecycleStep
         \/ \E i \in Opened, approved \in BOOLEAN, terms \in Terms :
              ResolveDispute(i, approved, terms)
         \/ \E i \in Opened : ExpireDispute(i)
         \/ bonds' = bonds
<1>1. ASSUME NEW a \in Agents, NEW w \in Workers, NEW r \in Resolutions,
             InitiateDispute(a, w, r)
      PROVE  bonds' = bonds
  BY <1>1 DEF InitiateDispute
<1>2. ASSUME NEW i \in Opened, NEW w \in Workers, SettleDisputeClaim(i, w)
      PROVE  bonds' = bonds
  BY <1>2 DEF SettleDisputeClaim
<1>3. ASSUME NEW i \in Opened, CancelDispute(i) \/ ApplyDisputeSlash(i) \/ ApplyInitiatorSlash(i)
      PROVE  bonds' = bonds
  BY <1>3 DEF CancelDispute, ApplyDisputeSlash, ApplyInitiatorSlash
<1>4. ASSUME NEW a \in Agents, DeregisterAgent(a)
      PROVE  bonds' = bonds
  BY <1>4 DEF DeregisterAgent
<1> QED
  BY <1>1, <1>2, <1>3, <1>4 DEF DisputeNext, LifecycleStep, Unwinding, Opened

LEMMA NextPosting ==
  ASSUME AccountsOK, BondsExclusive, [DisputeNext]_allVars
  PROVE  BondsExclusive'
<1>1. CASE UNCHANGED allVars
  BY <1>1 DEF allVars, vars, BondsExclusive
<1>2. CASE LifecycleStep
  BY <1>2, LifecycleSteps, LifecyclePosting DEF AccountsOK, BondsExclusive
<1>3. ASSUME NEW i \in Opened, NEW approved \in BOOLEAN, NEW terms \in Terms,
             ResolveDispute(i, approved, terms)
      PROVE  bonds' \subseteq bonds
  BY <1>3 DEF ResolveDispute, EndDispute, ReleaseBonds
<1>4. ASSUME NEW i \in Opened, ExpireDispute(i)
      PROVE  bonds' \subseteq bonds
  BY <1>4 DEF ExpireDispute, EndDispute, ReleaseBonds
<1> QED
  BY <1>1, <1>2, <1>3, <1>4, DisputeBonds DEF BondsExclusive

\* What the property asks of one step.
LostForCause ==
  \A w \in bonds \cap Workers :
    w \notin bonds' /\ wallet'[w] < wallet[w] + BondAmount /\ BondAmount > 0
      => \/ /\ submission[w] # "Submitted"
            /\ now > expires_at[w] \/ DeadlinePassed
         \/ status = "RejectFrozen" /\ status' = "Cancelled"
         \/ DecidedAgainst(w)

\* The one worker whose bond a dispute's end closes.
LEMMA DefendantsBond ==
  ASSUME NEW w \in Workers, ReleaseBonds(w), TypeOK, TypeOK',
         \/ Excused(w) \/ DecidedAgainst(w)
         \/ w \in bonds => wallet'[w] >= wallet[w] + BondAmount
  PROVE  LostForCause
<1>1. wallet[w] \in Int /\ wallet'[w] \in Int /\ BondAmount \in Nat
  BY WorkerIsNobodyElse, AmountsAssumption DEF TypeOK
<1>2. \A v \in bonds \cap Workers : v \notin bonds' => v = w
  BY WorkersAssumption DEF ReleaseBonds, Others
<1> QED
  BY <1>1, <1>2 DEF LostForCause, Excused

\* expire_dispute takes the bond of a no-show only.
LEMMA ExpiryForCause ==
  ASSUME AccountsOK, TypeOK', NEW i \in Opened, ExpireDispute(i)
  PROVE  LostForCause
<1> DEFINE w == disputes[i].defendant
           fault == TaskType = "Exclusive" /\ NoShow(w)
           theirs == IF fault THEN Forfeit(w, "creator") ELSE Refund(w)
<1>1. TypeOK /\ w \in Workers
  BY RecordOf DEF AccountsOK, Records
<1>2. /\ ReleaseBonds(w)
      /\ Receive(Both(Pay("creator", escrow_lamports), Both(Refund("creator"), theirs)))
  BY DEF ExpireDispute, EndDispute
<1> HIDE DEF w
<1>3. CASE fault
  BY <1>1, <1>2, <1>3, DefendantsBond DEF NoShow, Excused
<1>4. CASE ~fault
  <2>1. theirs = Refund(w)
    BY <1>4
  <2> HIDE DEF theirs
  <2>2. Pay("creator", escrow_lamports)[w] = 0
    BY <1>1, WorkerIsNobodyElse DEF Pay
  <2>3. w \in bonds => wallet'[w] = wallet[w] + (0 + (0 + BondAmount))
    BY <1>1, <1>2, <2>1, <2>2, RefundPaid, WorkerIsNobodyElse DEF Receive, Both
  <2>4. wallet[w] \in Int
    BY <1>1, WorkerIsNobodyElse DEF TypeOK
  <2>5. w \in bonds => wallet'[w] >= wallet[w] + BondAmount
    BY <2>3, <2>4, AmountsAssumption
  <2> QED
    BY <1>1, <1>2, <2>5, DefendantsBond
<1> QED
  BY <1>3, <1>4

\* resolve_dispute takes it when the creator is upheld in asking its money back.
LEMMA RulingForCause ==
  ASSUME AccountsOK, CInv, BondsExclusive, TypeOK', NEW i \in Opened,
         NEW approved \in BOOLEAN, NEW terms \in Terms, ResolveDispute(i, approved, terms)
  PROVE  LostForCause
<1> DEFINE old == disputes[i]
           d == [old EXCEPT !.approved = approved]
           w == d.defendant
           award == AwardOf(d)
           feeless == [terms EXCEPT !.protocol = 0]
           s == SplitOf(award, feeless)
<1>1. /\ TypeOK /\ w \in Workers /\ w = old.defendant /\ old \in Records
      /\ d.approved = approved /\ d.resolution = old.resolution
  BY RecordOf DEF AccountsOK, Records
<1>2. /\ EndDispute(i, d, "Resolved") /\ ReleaseBonds(w) /\ old.status = "Active"
      /\ distributed <= Reward /\ (award > 0 => WithinCaps(feeless))
      /\ Receive(Both(Both(PayOut(w, s), Pay("creator", escrow_lamports - award)),
                      BondsAfterRuling(d)))
  BY <1>1 DEF ResolveDispute, EndDispute
<1>3. CASE WorkerLost(d)
  <2>1. CASE bonds = {}
    BY <2>1 DEF LostForCause
  <2>2. CASE bonds # {}
    <3>1. MaxWorkers = 1
      BY <2>2, TaskAssumption DEF BondsExclusive
    <3>2. current_workers \in Nat /\ current_workers <= 1
      BY <3>1 DEF CInv, Tally, DInv, Engaged
    <3>3. Dec(current_workers) = 0
      BY <3>2 DEF Dec
    <3> DEFINE new == [d EXCEPT !.status = "Resolved", !.pending_terminal = "Resolved",
                                !.peers = 0, !.resolved_at = now]
    <3>4. Update(i, new)
      BY <1>2, <3>3 DEF EndDispute
    <3>5. /\ new.status = "Resolved" /\ new.approved = d.approved
          /\ new.resolution = d.resolution
      BY <1>1 DEF Records
    <3>6. new \in Records
      BY <1>1 DEF Records, DisputeStatuses, CInv, DInv, Engaged
    <3> HIDE DEF new
    <3>7. disputes'[i] = new
      BY <3>4, <3>6, Rewritten DEF CInv, DInv
    <3>8. DecidedAgainst(w)
      BY <1>1, <1>2, <1>3, <3>5, <3>7 DEF DecidedAgainst, WorkerLost
    <3> QED
      BY <1>1, <1>2, <3>8, DefendantsBond
  <2> QED
    BY <2>1, <2>2
<1>4. CASE ~WorkerLost(d)
  <2>1. award \in Nat
    BY <1>1, <1>2, AwardType
  <2>2. feeless \in Quantities /\ feeless.protocol = 0
    BY TermsType DEF Quantities
  <2>3. s.worker \in Nat
    <3> HIDE DEF award, feeless
    <3> QED BY <1>2, <2>1, <2>2, WorkerNotCharged
  <2>4. PayOut(w, s)[w] = s.worker
    <3> HIDE DEF award, feeless, w
    <3> QED BY <1>1, <2>3, WorkerIsNobodyElse DEF PayOut, Both, Pay
  <2>5. Pay("creator", escrow_lamports - award)[w] = 0
    <3> HIDE DEF award, w
    <3> QED BY <1>1, WorkerIsNobodyElse DEF Pay
  <2>6. w \in bonds => BondsAfterRuling(d)[w] = BondAmount
    <3>1. \/ BondsAfterRuling(d) = Both(Forfeit("creator", "treasury"), Refund(w))
          \/ BondsAfterRuling(d) = Both(Refund("creator"), Refund(w))
      BY <1>4 DEF BondsAfterRuling
    <3> HIDE DEF d, w
    <3>2. w \in bonds => /\ Both(Forfeit("creator", "treasury"), Refund(w))[w] = 0 + BondAmount
                         /\ Both(Refund("creator"), Refund(w))[w] = 0 + BondAmount
      BY <1>1, RefundPaid, WorkerIsNobodyElse DEF Both
    <3> QED
      BY <3>1, <3>2, AmountsAssumption
  <2> HIDE DEF d, w, s, award, feeless
  <2>7. w \in bonds => wallet'[w] = wallet[w] + ((s.worker + 0) + BondAmount)
    BY <1>1, <1>2, <2>4, <2>5, <2>6, WorkerIsNobodyElse DEF Receive, Both
  <2>8. wallet[w] \in Int
    BY <1>1, WorkerIsNobodyElse DEF TypeOK
  <2>9. w \in bonds => wallet'[w] >= wallet[w] + BondAmount
    BY <2>3, <2>7, <2>8, AmountsAssumption
  <2> QED
    BY <1>1, <1>2, <2>9, DefendantsBond
<1> QED
  BY <1>3, <1>4

LEMMA NextForCause ==
  ASSUME AccountsOK, CInv, BondsExclusive, TypeOK', DisputeNext
  PROVE  LostForCause
<1>1. CASE LifecycleStep
  <2>1. BondsLostForCause
    BY <1>1, LifecycleSteps, NextBonds DEF AccountsOK, CInv, Tally, Quiet
  <2> QED
    BY <2>1 DEF BondsLostForCause, LostForCause, Excused
<1>2. CASE bonds' = bonds
  BY <1>2 DEF LostForCause
<1> QED
  BY <1>1, <1>2, DisputeBonds, RulingForCause, ExpiryForCause

\* Whoever opens, withdraws or answers disputes, a worker's bond comes back in
\* full with the step that closes it, unless the worker was a no-show or lost a
\* ruling: one that is turned down, or never comes, costs it nothing.
THEOREM DisputedBondsLostForCause == DisputeSpec => BondLostForCause
<1>1. DisputeInit => BondsExclusive
  BY DEF DisputeInit, Init, BondsExclusive
<1>2. AccountsOK /\ BondsExclusive /\ [DisputeNext]_allVars => BondsExclusive'
  BY NextPosting
<1>3. AccountsOK /\ CInv /\ BondsExclusive /\ [DisputeNext]_allVars => [LostForCause]_allVars
  BY NextTotal, NextForCause DEF AccountsOK
<1>4. BondLostForCause <=> [][LostForCause]_allVars
  BY DEF BondLostForCause, LostForCause
<1>5. DisputeSpec => []AccountsOK
  BY DisputeAccounts, PTL
<1> QED
  BY <1>1, <1>2, <1>3, <1>4, <1>5, DisputeCounters, PTL DEF DisputeSpec

=============================================================================
