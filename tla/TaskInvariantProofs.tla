------------------------- MODULE TaskInvariantProofs -------------------------
(***************************************************************************)
(* The safety invariants of a task hold for any workers, amounts, fees and *)
(* windows.  They are proved together: the counters stay right because the *)
(* status says which accounts exist, the status stays right because the    *)
(* counters it is computed from are, and a bond is gone at the end because *)
(* both are.                                                               *)
(***************************************************************************)
EXTENDS TaskTypeProofs

\* What the invariants of TaskProperties need besides one another: bonds and
\* freezes occur on Exclusive tasks only, which have one slot, freezes under
\* review only, and the review configuration outlives every step that reads it.
Auxiliary ==
  /\ current_workers <= MaxWorkers
  /\ status = "RejectFrozen" => TaskType = "Exclusive" /\ IsManual
  /\ bonds # {} => TaskType = "Exclusive"
  /\ IsManual /\ status \notin Terminal => config_open
  /\ mode \in {InitialMode} \cup ManualModes

IInv ==
  /\ TypeOK /\ CountersAgree /\ StatusMatchesWork
  /\ EscrowBacked /\ BondsHaveOwners /\ Auxiliary

-----------------------------------------------------------------------------
(***************************************************************************)
(* Counting accounts.                                                      *)
(***************************************************************************)
LEMMA WorkerSets ==
  ASSUME NEW S \in SUBSET Workers, NEW w \in Workers
  PROVE  /\ Cardinality(S) \in Nat
         /\ Cardinality(S) = 0 <=> S = {}
         /\ w \in S => Cardinality(S \ {w}) = Cardinality(S) - 1
         /\ w \notin S => Cardinality(S \cup {w}) = Cardinality(S) + 1
         /\ Cardinality(S) = 1 /\ w \in S => S = {w}
<1>1. IsFiniteSet(S)
  BY WorkersAssumption, FS_Subset
<1>2. Cardinality(S) \in Nat /\ (Cardinality(S) = 0 <=> S = {})
  BY <1>1, FS_CardinalityType, FS_EmptySet
<1>3. /\ w \in S => Cardinality(S \ {w}) = Cardinality(S) - 1
      /\ w \notin S => Cardinality(S \cup {w}) = Cardinality(S) + 1
  BY <1>1, FS_AddElement, FS_RemoveElement
<1>4. Cardinality(S) = 1 /\ w \in S => S = {w}
  BY <1>1, FS_Singleton
<1> QED
  BY <1>2, <1>3, <1>4

\* The claims swept by a cancellation are all of them.
LEMMA SameCardinality ==
  ASSUME NEW S \in SUBSET Workers, NEW T \in SUBSET S, Cardinality(T) = Cardinality(S)
  PROVE  T = S
BY WorkersAssumption, FS_Subset

\* An Exclusive task has one slot, so a claim is the only one.
LEMMA SoleClaim ==
  ASSUME IInv, TaskType = "Exclusive", NEW w \in claims
  PROVE  claims = {w}
<1>1. claims \in SUBSET Workers /\ w \in Workers
  BY DEF IInv, TypeOK
<1>2. Cardinality(claims) <= 1 /\ Cardinality(claims) \in Nat
  BY <1>1, WorkerSets, TaskAssumption DEF IInv, CountersAgree, Auxiliary
<1>3. Cardinality(claims) # 0
  BY <1>1, WorkerSets
<1>4. Cardinality(claims) = 1
  BY <1>2, <1>3
<1> QED
  BY <1>1, <1>4, WorkerSets

\* Outside Collaborative tasks one completion is all that is required.
LEMMA OneCompletion ==
  ASSUME TypeOK, TaskType # "Collaborative"
  PROVE  Completes
BY DEF Completes, RequiredCompletions, TypeOK

\* The Submitted set follows the submission accounts.
LEMMA SubmissionAdded ==
  ASSUME TypeOK, NEW w \in Workers,
         submission' = [submission EXCEPT ![w] = "Submitted"]
  PROVE  Submitted' = Submitted \cup {w}
BY DEF TypeOK, Submitted

LEMMA SubmissionRemoved ==
  ASSUME TypeOK, NEW w \in Workers, NEW x, x # "Submitted",
         submission' = [submission EXCEPT ![w] = x]
  PROVE  Submitted' = Submitted \ {w}
BY DEF TypeOK, Submitted

\* A claim closed together with its slot keeps the slot counters right.
SlotsAgree ==
  /\ current_workers = Cardinality(claims)
  /\ \A w \in Workers : active_tasks[w] = IF w \in claims THEN 1 ELSE 0

LEMMA SlotReleased ==
  ASSUME TypeOK, SlotsAgree, NEW w \in claims,
         ReleaseSlot(w) \/ SaturatingRelease(w), CloseClaim(w)
  PROVE  SlotsAgree' /\ claims' = claims \ {w} /\ current_workers' = current_workers - 1
<1>1. claims \in SUBSET Workers /\ w \in Workers
  BY DEF TypeOK
<1>2. claims' = claims \ {w}
  BY DEF CloseClaim
<1>3. current_workers \in Nat \ {0} /\ Cardinality(claims') = current_workers - 1
  BY <1>1, <1>2, WorkerSets DEF SlotsAgree
<1>4. current_workers' = current_workers - 1
  BY <1>3 DEF ReleaseSlot, SaturatingRelease, Dec
<1>5. \A v \in Workers : active_tasks'[v] = IF v \in claims' THEN 1 ELSE 0
  BY <1>1, <1>2 DEF SlotsAgree, TypeOK, ReleaseSlot, SaturatingRelease, Dec
<1> QED
  BY <1>2, <1>3, <1>4, <1>5 DEF SlotsAgree

\* A submission that leaves review keeps both review counters right.
ReviewsAgree ==
  live_submissions = Cardinality(Submitted) /\ pending = live_submissions

LEMMA ReviewLeft ==
  ASSUME TypeOK, ReviewsAgree, NEW w \in Submitted, LeaveReview,
         NEW x, x # "Submitted", submission' = [submission EXCEPT ![w] = x]
  PROVE  ReviewsAgree' /\ Submitted' = Submitted \ {w}
<1>1. Submitted \in SUBSET Workers /\ w \in Workers
  BY DEF Submitted
<1>2. Submitted' = Submitted \ {w}
  BY <1>1, SubmissionRemoved
<1>3. Cardinality(Submitted') = live_submissions - 1
  BY <1>1, <1>2, WorkerSets DEF ReviewsAgree
<1> QED
  BY <1>2, <1>3 DEF ReviewsAgree, LeaveReview

LEMMA CountersAgreeParts ==
  CountersAgree <=> SlotsAgree /\ ReviewsAgree /\ Submitted \subseteq claims
BY DEF CountersAgree, SlotsAgree, ReviewsAgree

\* The status sync_task_validation_status computes is right when the counters
\* it reads are.
LEMMA SyncedStatusIsRight ==
  ASSUME TypeOK', CountersAgree', IsManual', config_open',
         NEW st \in {"InProgress", "PendingValidation"},
         status' = SyncedStatus(st, pending', current_workers')
  PROVE  /\ StatusMatchesWork'
         /\ status' \in {"Open", "InProgress", "PendingValidation"}
<1>1. (Submitted \in SUBSET Workers /\ claims \in SUBSET Workers)'
  BY DEF Submitted, TypeOK
<1>2. /\ pending' \in Nat /\ (pending' = 0 <=> Submitted' = {})
      /\ current_workers' \in Nat /\ (current_workers' = 0 <=> claims' = {})
  <2>1. /\ pending' = Cardinality(Submitted')
        /\ current_workers' = Cardinality(claims')
    BY DEF CountersAgree
  <2>2. \A S \in SUBSET Workers : Cardinality(S) \in Nat /\ (Cardinality(S) = 0 <=> S = {})
    BY WorkersAssumption, FS_Subset, FS_CardinalityType, FS_EmptySet
  <2> QED
    BY <1>1, <2>1, <2>2
<1>3. Submitted' \subseteq claims'
  BY DEF CountersAgree
<1> QED
  BY <1>2, <1>3 DEF SyncedStatus, StatusMatchesWork

-----------------------------------------------------------------------------
(***************************************************************************)
(* Escrow and bonds.                                                       *)
(***************************************************************************)
\* A settlement keeps the escrow backed; it closes the account just when it
\* completes the task.
LEMMA SettlementBacked ==
  ASSUME TypeOK, EscrowBacked, status \notin Terminal,
         NEW w \in Workers, NEW terms \in Quantities, NEW extra,
         ExecuteCompletionRewards(w, terms, extra),
         status' \in Terminal <=> Completes
  PROVE  EscrowBacked'
<1>1. PICK base \in Nat :
        /\ distributed' = distributed + base
        /\ escrow_lamports - base >= IF Completes THEN 0 ELSE EscrowRent
        /\ escrow_lamports' = IF Completes THEN 0 ELSE escrow_lamports - base
  BY SettlementEffect
<1>2. escrow_open' = (escrow_open /\ ~Completes)
  BY DEF ExecuteCompletionRewards
<1>3. escrow_lamports = EscrowRent + Reward - distributed /\ escrow_open
  BY DEF EscrowBacked
<1>4. escrow_open' <=> ~Completes
  BY <1>2, <1>3, Zenon
<1>5. CASE Completes
  BY <1>1, <1>4, <1>5 DEF EscrowBacked
<1>6. CASE ~Completes
  <2>1. distributed' <= Reward /\ escrow_lamports' = EscrowRent + Reward - distributed'
    BY <1>1, <1>3, <1>6, AmountsAssumption DEF TypeOK
  <2> QED
    BY <1>4, <1>6, <2>1 DEF EscrowBacked
<1> QED
  BY <1>5, <1>6

LEMMA EscrowUntouched ==
  ASSUME EscrowBacked, UNCHANGED escrowVars, status \in Terminal <=> status' \in Terminal
  PROVE  EscrowBacked'
BY DEF EscrowBacked, escrowVars

\* Releasing both bonds of the claim that closes leaves no ownerless bond.
LEMMA BondsReleased ==
  ASSUME IInv, NEW w \in claims, ReleaseBonds(w), claims' = claims \ {w}
  PROVE  BondsHaveOwners' /\ (bonds # {} => bonds' = {}) /\ bonds' \subseteq bonds
<1>1. bonds # {} => claims = {w}
  BY SoleClaim DEF IInv, Auxiliary
<1>2. bonds \cap Workers \subseteq claims /\ bonds \subseteq Workers \cup {"creator"}
  BY DEF IInv, TypeOK, BondsHaveOwners
<1>3. bonds' = bonds \ {"creator", w}
  BY DEF ReleaseBonds
<1>4. bonds # {} => bonds' = {}
  BY <1>1, <1>2, <1>3
<1> QED
  BY <1>3, <1>4 DEF BondsHaveOwners

\* A dismissed worker's bond goes with its claim; the task is not over.
LEMMA WorkerBondReleased ==
  ASSUME IInv, NEW w \in claims, bonds' = bonds \ {w}, claims' = claims \ {w},
         status' \notin Terminal
  PROVE  BondsHaveOwners'
BY DEF IInv, BondsHaveOwners

-----------------------------------------------------------------------------
LEMMA InitInvariant == Init => IInv
<1> SUFFICES ASSUME Init PROVE IInv
  OBVIOUS
<1>1. TypeOK
  BY InitTypeOK
<1>2. Submitted = {}
  BY DEF Init, Submitted
<1>3. Cardinality({}) = 0
  BY FS_EmptySet
<1>4. CountersAgree
  BY <1>2, <1>3 DEF Init, CountersAgree
<1>5. StatusMatchesWork
  BY <1>2 DEF Init, StatusMatchesWork
<1>6. EscrowBacked
  BY AmountsAssumption DEF Init, EscrowBacked, Terminal
<1>7. BondsHaveOwners
  BY DEF Init, BondsHaveOwners, Terminal
<1>8. Auxiliary
  <2>1. IsManual => config_open
    BY Zenon DEF Init, IsManual, Manual
  <2> QED
    BY <2>1, TaskAssumption DEF Init, Auxiliary
<1> QED
  BY <1>1, <1>4, <1>5, <1>6, <1>7, <1>8 DEF IInv

LEMMA TickInvariant ==
  ASSUME IInv, TypeOK', Tick
  PROVE  IInv'
BY DEF IInv, Tick, taskVars, counterVars, claimVars, submissionVars, escrowVars,
       CountersAgree, StatusMatchesWork, EscrowBacked, BondsHaveOwners, Auxiliary,
       Submitted, IsManual

\* Review is turned on only while nobody works, so no counter is lost.
LEMMA ConfigureInvariant ==
  ASSUME IInv, TypeOK', NEW m \in ManualModes, ConfigureTaskValidation(m)
  PROVE  IInv'
<1>1. claims = {} /\ status = "Open" /\ status' = status
  BY DEF IInv, StatusMatchesWork, ConfigureTaskValidation, Configurable
<1>2. Submitted = {} /\ Submitted' = {} /\ claims' = {}
  BY <1>1 DEF IInv, CountersAgree, ConfigureTaskValidation, Submitted, submissionVars, claimVars
<1>3. live_submissions = 0 /\ live_submissions' = 0 /\ pending' = 0
  <2>1. Cardinality({}) = 0
    BY FS_EmptySet
  <2> QED
    BY <1>2, <2>1 DEF IInv, CountersAgree, ConfigureTaskValidation
<1>4. CountersAgree'
  BY <1>1, <1>2, <1>3, FS_EmptySet DEF IInv, CountersAgree, ConfigureTaskValidation
<1>5. StatusMatchesWork'
  BY <1>1, <1>2 DEF StatusMatchesWork
<1>6. EscrowBacked' /\ BondsHaveOwners'
  BY DEF IInv, EscrowBacked, BondsHaveOwners, ConfigureTaskValidation, escrowVars, claimVars
<1>7. Auxiliary'
  BY DEF IInv, Auxiliary, ConfigureTaskValidation, Configurable
<1> QED
  BY <1>4, <1>5, <1>6, <1>7 DEF IInv

LEMMA ClaimInvariant ==
  ASSUME IInv, TypeOK', NEW w \in Workers, ClaimTask(w)
  PROVE  IInv'
<1>1. /\ claims' = claims \cup {w} /\ w \notin claims
      /\ status \in {"Open", "InProgress", "PendingValidation"}
      /\ status' = IF status = "PendingValidation" THEN status ELSE "InProgress"
      /\ UNCHANGED <<mode, config_open, live_submissions, pending, submissionVars,
                     escrowVars, bonds>>
  BY DEF ClaimTask
<1>2. Submitted' = Submitted
  BY <1>1 DEF Submitted, submissionVars
<1>3. SlotsAgree'
  <2>1. claims \in SUBSET Workers
    BY DEF IInv, TypeOK
  <2>2. Cardinality(claims') = current_workers'
    BY <1>1, <2>1, WorkerSets DEF IInv, CountersAgree, ClaimTask
  <2>3. \A v \in Workers : active_tasks'[v] = IF v \in claims' THEN 1 ELSE 0
    BY <1>1 DEF IInv, CountersAgree, TypeOK, ClaimTask
  <2> QED
    BY <2>2, <2>3 DEF SlotsAgree
<1>4. CountersAgree'
  BY <1>1, <1>2, <1>3 DEF IInv, CountersAgree, SlotsAgree
<1>5. StatusMatchesWork'
  BY <1>1, <1>2 DEF IInv, StatusMatchesWork, IsManual
<1>6. EscrowBacked' /\ BondsHaveOwners'
  BY <1>1 DEF IInv, EscrowBacked, BondsHaveOwners, escrowVars, Terminal
<1>7. Auxiliary'
  BY <1>1, TaskAssumption DEF IInv, TypeOK, Auxiliary, ClaimTask, Terminal, IsManual
<1> QED
  BY <1>4, <1>5, <1>6, <1>7 DEF IInv

LEMMA SubmitInvariant ==
  ASSUME IInv, TypeOK', NEW w \in Workers, SubmitTaskResult(w)
  PROVE  IInv'
<1>1. /\ w \in claims /\ w \notin Submitted /\ IsManual
      /\ status \in {"InProgress", "PendingValidation"} /\ status' = "PendingValidation"
      /\ submission' = [submission EXCEPT ![w] = "Submitted"]
      /\ UNCHANGED <<taskVars, current_workers, active_tasks, claimVars, escrowVars, bonds>>
  BY DEF SubmitTaskResult, Submitted
<1>2. Submitted' = Submitted \cup {w} /\ claims' = claims
  BY <1>1, SubmissionAdded DEF IInv, claimVars
<1>3. Cardinality(Submitted') = live_submissions'
  <2>1. Submitted \in SUBSET Workers
    BY DEF Submitted
  <2> QED
    BY <1>1, <1>2, <2>1, WorkerSets DEF IInv, CountersAgree, SubmitTaskResult
<1>4. CountersAgree'
  BY <1>1, <1>2, <1>3 DEF IInv, CountersAgree, SubmitTaskResult
<1>5. StatusMatchesWork'
  BY <1>1, <1>2 DEF IInv, StatusMatchesWork, Auxiliary, IsManual, Terminal, taskVars
<1>6. EscrowBacked' /\ BondsHaveOwners'
  BY <1>1 DEF IInv, EscrowBacked, BondsHaveOwners, escrowVars, claimVars, Terminal
<1>7. Auxiliary'
  BY <1>1 DEF IInv, Auxiliary, taskVars, IsManual, Terminal
<1> QED
  BY <1>4, <1>5, <1>6, <1>7 DEF IInv

\* A submission leaves review, its claim is closed and its slot released.
LEMMA SubmissionWithdrawn ==
  ASSUME IInv, NEW w \in claims, SubmissionPending(w), LeaveReview, ReleaseSlot(w),
         CloseClaim(w), NEW x, x # "Submitted",
         submission' = [submission EXCEPT ![w] = x]
  PROVE  /\ CountersAgree'
         /\ claims' = claims \ {w} /\ Submitted' = Submitted \ {w}
         /\ current_workers' = current_workers - 1
<1>1. w \in Submitted
  BY DEF IInv, TypeOK, Submitted, SubmissionPending
<1>2. SlotsAgree' /\ claims' = claims \ {w} /\ current_workers' = current_workers - 1
  BY SlotReleased, CountersAgreeParts DEF IInv
<1>3. ReviewsAgree' /\ Submitted' = Submitted \ {w}
  BY <1>1, ReviewLeft, CountersAgreeParts DEF IInv
<1>4. (Submitted \subseteq claims)'
  BY <1>2, <1>3 DEF IInv, CountersAgree
<1>5. CountersAgree'
  BY <1>2, <1>3, <1>4 DEF CountersAgree, SlotsAgree, ReviewsAgree
<1> QED
  BY <1>2, <1>3, <1>5

\* Auxiliary survives any step that takes no slot, posts no bond, freezes
\* nothing and leaves the task's settings alone.
LEMMA AuxiliaryKept ==
  ASSUME IInv, TypeOK', current_workers' <= current_workers,
         UNCHANGED <<mode, config_open>>,
         bonds' # {} => bonds # {},
         status' = "RejectFrozen" => status = "RejectFrozen",
         status \in Terminal => status' \in Terminal
  PROVE  Auxiliary'
<1>1. current_workers' <= MaxWorkers
  BY TaskAssumption DEF IInv, TypeOK, Auxiliary
<1> QED
  BY <1>1 DEF IInv, Auxiliary, IsManual

LEMMA AcceptInvariant ==
  ASSUME IInv, TypeOK', NEW w \in Workers, NEW terms \in Quantities,
         AcceptSubmission(w, terms)
  PROVE  IInv'
<1>1. /\ w \in claims /\ status = "PendingValidation" /\ IsManual /\ SubmissionPending(w)
      /\ SoleSubmission /\ LeaveReview /\ ReleaseSlot(w) /\ ReleaseBonds(w)
      /\ CloseClaim(w) /\ UNCHANGED taskVars
      /\ submission' = [submission EXCEPT ![w] = "none"]
      /\ status' = IF Completes THEN "Completed"
                   ELSE SyncedStatus(status, pending', current_workers')
  BY DEF AcceptSubmission, SubmissionPending, ExecuteCompletionRewards, CloseSubmission
<1>2. /\ CountersAgree'
      /\ claims' = claims \ {w} /\ Submitted' = Submitted \ {w}
      /\ current_workers' = current_workers - 1
  BY <1>1, SubmissionWithdrawn
<1>3. IsManual' /\ config_open /\ config_open' /\ UNCHANGED mode
  BY <1>1 DEF IInv, StatusMatchesWork, Auxiliary, Terminal, taskVars, IsManual
<1>4. StatusMatchesWork' /\ (status' \in Terminal <=> Completes) /\ status' # "RejectFrozen"
  <2>1. CASE Completes
    <3>1. TaskType # "Collaborative" => Submitted' = {}
      <4> SUFFICES ASSUME TaskType # "Collaborative" PROVE Submitted' = {}
        OBVIOUS
      <4>1. Cardinality(Submitted) = 1 /\ w \in Submitted
        BY <1>1, <2>1 DEF SoleSubmission, SubmissionPending, Submitted, IInv, TypeOK, CountersAgree
      <4>2. Submitted \in SUBSET Workers
        BY DEF Submitted
      <4> QED
        BY <1>2, <4>1, <4>2, WorkerSets
    <3> QED
      BY <1>1, <1>2, <1>3, <2>1, <3>1 DEF StatusMatchesWork, Terminal
  <2>2. CASE ~Completes
    BY <1>1, <1>2, <1>3, <2>2, SyncedStatusIsRight DEF Terminal
  <2> QED
    BY <2>1, <2>2
<1>5. EscrowBacked'
  BY <1>1, <1>4, SettlementBacked DEF IInv, AcceptSubmission, Terminal
<1>6. BondsHaveOwners' /\ bonds' \subseteq bonds
  BY <1>1, <1>2, BondsReleased
<1>7. Auxiliary'
  BY <1>1, <1>2, <1>3, <1>4, <1>6, AuxiliaryKept DEF taskVars, IInv, TypeOK, Terminal
<1> QED
  BY <1>2, <1>4, <1>5, <1>6, <1>7 DEF IInv

\* The attestor's refusal and the creator's rejection differ only in what
\* becomes of the submission account.
LEMMA DismissalInvariant ==
  ASSUME IInv, TypeOK', NEW w \in claims, status = "PendingValidation", IsManual,
         SubmissionPending(w), LeaveReview, ReleaseSlot(w), CloseClaim(w),
         NEW x, x # "Submitted", submission' = [submission EXCEPT ![w] = x],
         status' = SyncedStatus(status, pending', current_workers'),
         bonds' = bonds \ {w}, UNCHANGED <<taskVars, escrowVars>>
  PROVE  IInv'
<1>1. /\ CountersAgree'
      /\ claims' = claims \ {w} /\ current_workers' = current_workers - 1
  BY SubmissionWithdrawn
<1>2. IsManual' /\ config_open' /\ UNCHANGED <<mode, config_open>>
  BY DEF IInv, StatusMatchesWork, Auxiliary, Terminal, taskVars, IsManual
<1>3. StatusMatchesWork' /\ status' \in {"Open", "InProgress", "PendingValidation"}
  BY <1>1, <1>2, SyncedStatusIsRight
<1>4. EscrowBacked'
  BY <1>3, EscrowUntouched DEF IInv, Terminal
<1>5. BondsHaveOwners'
  BY <1>1, <1>3, WorkerBondReleased DEF Terminal
<1>6. Auxiliary'
  <2>1. current_workers' <= current_workers
    BY <1>1 DEF IInv, TypeOK
  <2>2. bonds' # {} => bonds # {}
    OBVIOUS
  <2>3. status' # "RejectFrozen" /\ status \notin Terminal
    BY <1>3 DEF Terminal
  <2> QED
    BY <1>2, <2>1, <2>2, <2>3, AuxiliaryKept
<1> QED
  BY <1>1, <1>3, <1>4, <1>5, <1>6 DEF IInv

LEMMA RefuseInvariant ==
  ASSUME IInv, TypeOK', NEW w \in Workers, RefuseTaskResult(w)
  PROVE  IInv'
<1>1. w \in claims /\ IsManual /\ submission' = [submission EXCEPT ![w] = "Rejected"]
  BY DEF RefuseTaskResult, SubmissionPending, MarkRejected, IsManual, Manual
<1> QED
  BY <1>1, DismissalInvariant DEF RefuseTaskResult, taskVars, escrowVars

LEMMA RejectInvariant ==
  ASSUME IInv, TypeOK', NEW w \in Workers, RejectTaskResult(w)
  PROVE  IInv'
<1>1. w \in claims /\ IsManual /\ submission' = [submission EXCEPT ![w] = "none"]
  BY DEF RejectTaskResult, SubmissionPending, CloseSubmission, IsManual, Manual
<1> QED
  BY <1>1, DismissalInvariant DEF RejectTaskResult, taskVars, escrowVars

\* A submission is sent back; claim and slot stay.
LEMMA SubmissionReturned ==
  ASSUME IInv, NEW w \in claims, SubmissionPending(w), LeaveReview, MarkRejected(w),
         UNCHANGED <<current_workers, active_tasks, claims>>
  PROVE  /\ CountersAgree' /\ Submitted' = Submitted \ {w}
         /\ submission'[w] = "Rejected"
<1>1. w \in Submitted /\ submission' = [submission EXCEPT ![w] = "Rejected"]
  BY DEF IInv, TypeOK, Submitted, SubmissionPending, MarkRejected
<1>2. ReviewsAgree' /\ Submitted' = Submitted \ {w}
  BY <1>1, ReviewLeft, CountersAgreeParts DEF IInv
<1>3. CountersAgree'
  BY <1>2 DEF IInv, CountersAgree, ReviewsAgree
<1> QED
  BY <1>1, <1>2, <1>3 DEF IInv, TypeOK

LEMMA RequestChangesInvariant ==
  ASSUME IInv, TypeOK', NEW w \in Workers, RequestChanges(w)
  PROVE  IInv'
<1>1. /\ w \in claims /\ SubmissionPending(w) /\ LeaveReview /\ MarkRejected(w)
      /\ status = "PendingValidation"
      /\ status' = SyncedStatus(status, pending', current_workers')
      /\ UNCHANGED <<mode, config_open, current_workers, active_tasks, claims,
                     escrowVars, bonds>>
  BY DEF RequestChanges, SubmissionPending
<1>2. CountersAgree'
  BY <1>1, SubmissionReturned
<1>3. IsManual' /\ config_open'
  BY <1>1 DEF RequestChanges, IInv, StatusMatchesWork, Auxiliary, Terminal, IsManual, Manual
<1>4. StatusMatchesWork' /\ status' \in {"Open", "InProgress", "PendingValidation"}
  BY <1>1, <1>2, <1>3, SyncedStatusIsRight
<1>5. EscrowBacked' /\ BondsHaveOwners'
  BY <1>1, <1>4 DEF IInv, EscrowBacked, BondsHaveOwners, escrowVars, Terminal
<1>6. Auxiliary'
  BY <1>1, <1>4, AuxiliaryKept DEF IInv, TypeOK, Terminal
<1> QED
  BY <1>2, <1>4, <1>5, <1>6 DEF IInv

LEMMA FreezeInvariant ==
  ASSUME IInv, TypeOK', NEW w \in Workers, RejectAndFreeze(w)
  PROVE  IInv'
<1>1. /\ w \in claims /\ SubmissionPending(w) /\ LeaveReview /\ MarkRejected(w)
      /\ TaskType = "Exclusive"
      /\ status = "PendingValidation" /\ status' = "RejectFrozen"
      /\ UNCHANGED <<taskVars, current_workers, active_tasks, claimVars, escrowVars, bonds>>
  BY DEF RejectAndFreeze, SubmissionPending
<1>2. CountersAgree' /\ Submitted' = Submitted \ {w} /\ submission'[w] = "Rejected"
  BY <1>1, SubmissionReturned DEF claimVars
<1>3. claims = {w} /\ claims' = {w}
  BY <1>1, SoleClaim DEF claimVars
<1>4. Submitted' = {}
  BY <1>2, <1>3 DEF IInv, CountersAgree
<1>5. StatusMatchesWork'
  BY <1>1, <1>2, <1>3, <1>4 DEF StatusMatchesWork
<1>6. EscrowBacked' /\ BondsHaveOwners'
  BY <1>1 DEF IInv, EscrowBacked, BondsHaveOwners, escrowVars, claimVars, Terminal
<1>7. Auxiliary'
  BY <1>1 DEF RejectAndFreeze, IInv, Auxiliary, taskVars, IsManual, Manual, Terminal
<1> QED
  BY <1>2, <1>5, <1>6, <1>7 DEF IInv

\* Both exits of a frozen task that pay the worker complete the task.
LEMMA ThawInvariant ==
  ASSUME IInv, TypeOK', NEW w \in claims, NEW terms \in Quantities, NEW extra,
         status = "RejectFrozen",
         ExecuteCompletionRewards(w, terms, extra),
         status' = IF Completes THEN "Completed" ELSE status,
         CloseClaim(w), CloseSubmission(w), ReleaseBonds(w),
         UNCHANGED <<now, taskVars, live_submissions, pending>>
  PROVE  IInv'
<1>1. TaskType = "Exclusive" /\ w \in Workers
  BY DEF IInv, Auxiliary, TypeOK
<1>2. Completes /\ status' = "Completed" /\ ReleaseSlot(w)
  BY <1>1, OneCompletion DEF IInv, ExecuteCompletionRewards
<1>3. claims = {w} /\ Submitted = {}
  <2>1. submission[w] = "Rejected" /\ claims = {w}
    BY DEF IInv, StatusMatchesWork
  <2> QED
    BY <2>1 DEF IInv, CountersAgree, Submitted
<1>4. Submitted' = {}
  BY <1>1, <1>3, SubmissionRemoved DEF IInv, CloseSubmission
<1>5. SlotsAgree' /\ claims' = {} /\ current_workers' = current_workers - 1
  BY <1>2, <1>3, SlotReleased, CountersAgreeParts DEF IInv
<1>6. CountersAgree'
  BY <1>3, <1>4, <1>5 DEF IInv, CountersAgree, SlotsAgree
<1>7. StatusMatchesWork'
  BY <1>2, <1>4 DEF StatusMatchesWork
<1>8. EscrowBacked'
  BY <1>1, <1>2, SettlementBacked DEF IInv, Terminal
<1>9. BondsHaveOwners' /\ bonds' \subseteq bonds
  BY <1>3, <1>5, BondsReleased
<1>10. Auxiliary'
  <2>1. current_workers' <= current_workers
    BY <1>5 DEF IInv, TypeOK
  <2> QED
    BY <1>2, <1>9, <2>1, AuxiliaryKept DEF Terminal, taskVars
<1> QED
  BY <1>6, <1>7, <1>8, <1>9, <1>10 DEF IInv

LEMMA ResolveForWorkerInvariant ==
  ASSUME IInv, TypeOK', NEW w \in Workers, NEW terms \in Quantities,
         ResolveFrozenForWorker(w, terms)
  PROVE  IInv'
BY ThawInvariant DEF ResolveFrozenForWorker

LEMMA ExpireFrozenInvariant ==
  ASSUME IInv, TypeOK', NEW w \in Workers, NEW terms \in Quantities,
         ExpireRejectFrozen(w, terms)
  PROVE  IInv'
BY ThawInvariant DEF ExpireRejectFrozen

LEMMA ResolveForCreatorInvariant ==
  ASSUME IInv, TypeOK', NEW w \in Workers, ResolveFrozenForCreator(w)
  PROVE  IInv'
<1>1. /\ w \in claims /\ status = "RejectFrozen" /\ status' = "Cancelled"
      /\ ReleaseSlot(w) /\ CloseClaim(w) /\ ReleaseBonds(w)
      /\ escrow_open' = FALSE /\ escrow_lamports' = 0
      /\ UNCHANGED <<taskVars, live_submissions, pending>>
  BY DEF ResolveFrozenForCreator
<1>2. claims = {w} /\ Submitted = {}
  <2>1. submission[w] = "Rejected" /\ claims = {w}
    BY <1>1 DEF IInv, StatusMatchesWork
  <2> QED
    BY <2>1 DEF IInv, CountersAgree, Submitted
<1>3. Submitted' = {}
  BY <1>2, SubmissionRemoved DEF IInv, ResolveFrozenForCreator, CloseSubmission
<1>4. SlotsAgree' /\ claims' = {} /\ current_workers' = current_workers - 1
  BY <1>1, <1>2, SlotReleased, CountersAgreeParts DEF IInv
<1>5. CountersAgree'
  BY <1>1, <1>2, <1>3, <1>4 DEF IInv, CountersAgree, SlotsAgree
<1>6. StatusMatchesWork'
  BY <1>1, <1>3 DEF StatusMatchesWork
<1>7. EscrowBacked'
  BY <1>1 DEF EscrowBacked, Terminal
<1>8. BondsHaveOwners' /\ bonds' \subseteq bonds
  BY <1>1, <1>2, <1>4, BondsReleased
<1>9. Auxiliary'
  <2>1. current_workers' <= current_workers
    BY <1>4 DEF IInv, TypeOK
  <2> QED
    BY <1>1, <1>8, <2>1, AuxiliaryKept DEF Terminal, taskVars
<1> QED
  BY <1>5, <1>6, <1>7, <1>8, <1>9 DEF IInv

\* Without review no submission exists, so completing strands none.
LEMMA CompleteInvariant ==
  ASSUME IInv, TypeOK', NEW w \in Workers, NEW terms \in Quantities,
         CompleteTask(w, terms)
  PROVE  IInv'
<1>1. /\ w \in claims /\ ~IsManual /\ status = "InProgress"
      /\ status' = IF Completes THEN "Completed" ELSE status
      /\ ReleaseSlot(w) /\ CloseClaim(w) /\ ReleaseBonds(w)
      /\ UNCHANGED <<taskVars, live_submissions, pending, submissionVars>>
  BY DEF CompleteTask, SelfCertified, ExecuteCompletionRewards
<1>2. Submitted = {} /\ Submitted' = {}
  BY <1>1 DEF IInv, StatusMatchesWork, Submitted, submissionVars
<1>3. SlotsAgree' /\ claims' = claims \ {w} /\ current_workers' = current_workers - 1
  BY <1>1, SlotReleased, CountersAgreeParts DEF IInv
<1>4. CountersAgree'
  BY <1>1, <1>2, <1>3 DEF IInv, CountersAgree, SlotsAgree
<1>5. StatusMatchesWork'
  BY <1>1, <1>2 DEF StatusMatchesWork, taskVars, IsManual
<1>6. EscrowBacked'
  BY <1>1, SettlementBacked DEF IInv, CompleteTask, Terminal
<1>7. BondsHaveOwners' /\ bonds' \subseteq bonds
  BY <1>1, <1>3, BondsReleased
<1>8. Auxiliary'
  <2>1. current_workers' <= current_workers
    BY <1>3 DEF IInv, TypeOK
  <2> QED
    BY <1>1, <1>7, <2>1, AuxiliaryKept DEF Terminal, taskVars
<1> QED
  BY <1>4, <1>5, <1>6, <1>7, <1>8 DEF IInv

LEMMA GhostShareInvariant ==
  ASSUME IInv, TypeOK', NEW w \in Workers, NEW terms \in Quantities,
         DistributeGhostShare(w, terms)
  PROVE  IInv'
<1> DEFINE last == live_submissions = 1
<1>1. /\ w \in claims /\ status = "PendingValidation" /\ TaskType = "Competitive"
      /\ IsManual /\ SubmissionPending(w) /\ LeaveReview /\ ReleaseSlot(w)
      /\ CloseClaim(w) /\ UNCHANGED <<taskVars, bonds>>
      /\ submission' = [submission EXCEPT ![w] = "none"]
      /\ status' = IF last THEN "Completed" ELSE status
      /\ escrow_open' = (escrow_open /\ ~last)
  BY DEF DistributeGhostShare, SubmissionPending, CloseSubmission, IsManual, Manual, Contest
<1>2. /\ CountersAgree'
      /\ claims' = claims \ {w} /\ Submitted' = Submitted \ {w}
      /\ current_workers' = current_workers - 1
  BY <1>1, SubmissionWithdrawn
<1>3. Submitted' = {} <=> last
  <2>1. Submitted \in SUBSET Workers /\ w \in Submitted
    BY <1>1 DEF Submitted, SubmissionPending
  <2>2. Cardinality(Submitted) \in Nat /\ Cardinality(Submitted \ {w}) = Cardinality(Submitted) - 1
    BY <2>1, WorkerSets
  <2>3. Submitted \ {w} = {} <=> Cardinality(Submitted \ {w}) = 0
    BY <2>1, WorkerSets
  <2> QED
    BY <1>2, <2>2, <2>3 DEF IInv, CountersAgree
<1>4. StatusMatchesWork'
  BY <1>1, <1>2, <1>3 DEF IInv, StatusMatchesWork, taskVars, IsManual
<1>5. EscrowBacked'
  <2>1. PICK slice \in Nat :
          /\ distributed' = distributed + slice
          /\ escrow_lamports - slice >= IF last THEN 0 ELSE EscrowRent
          /\ escrow_lamports' = IF last THEN 0 ELSE escrow_lamports - slice
    BY GhostShareEffect DEF IInv
  <2>2. escrow_open /\ escrow_lamports = EscrowRent + Reward - distributed
    BY <1>1 DEF IInv, EscrowBacked, Terminal
  <2>3. escrow_open' <=> ~last
    BY <1>1, <2>2, Zenon
  <2>4. CASE last
    BY <1>1, <2>1, <2>3, <2>4 DEF EscrowBacked, Terminal
  <2>5. CASE ~last
    <3>1. distributed' <= Reward /\ escrow_lamports' = EscrowRent + Reward - distributed'
      BY <2>1, <2>2, <2>5, AmountsAssumption DEF IInv, TypeOK
    <3> QED
      BY <1>1, <2>3, <2>5, <3>1 DEF EscrowBacked, Terminal
  <2> QED
    BY <2>4, <2>5
<1>6. bonds = {} /\ bonds' = {}
  BY <1>1 DEF IInv, Auxiliary
<1>7. Auxiliary'
  <2>1. current_workers' <= current_workers
    BY <1>2 DEF IInv, TypeOK
  <2> QED
    BY <1>1, <1>6, <2>1, AuxiliaryKept DEF Terminal, taskVars
<1> QED
  BY <1>2, <1>4, <1>5, <1>6, <1>7 DEF IInv, BondsHaveOwners

\* A cancellation names every live claim, because the slot counter that sizes
\* its account list counts them all; nothing is under review at that point.
LEMMA CancelInvariant ==
  ASSUME IInv, TypeOK', CancelTask
  PROVE  IInv'
<1>1. /\ status \in {"Open", "InProgress"} /\ status' = "Cancelled"
      /\ escrow_open' = FALSE /\ escrow_lamports' = 0
      /\ current_workers' = 0
      /\ UNCHANGED <<taskVars, live_submissions, pending, submissionVars>>
  BY DEF CancelTask, Cancellable
<1>2. PICK swept \in SUBSET claims, bonded \in Workers :
        /\ Cardinality(swept) = current_workers
        /\ status = "InProgress" /\ current_workers > 0 => bonded \in swept
        /\ claims' = claims \ swept
        /\ active_tasks' = [w \in Workers |->
             IF w \in swept THEN Dec(active_tasks[w]) ELSE active_tasks[w]]
        /\ bonds' = bonds \ {"creator", bonded}
  BY DEF CancelTask
<1>3. swept = claims /\ claims' = {}
  <2>1. claims \in SUBSET Workers
    BY DEF IInv, TypeOK
  <2> QED
    BY <1>2, <2>1, SameCardinality DEF IInv, CountersAgree
<1>4. Submitted = {} /\ Submitted' = {}
  BY <1>1 DEF IInv, StatusMatchesWork, Submitted, submissionVars
<1>5. CountersAgree'
  <2>1. \A w \in Workers : active_tasks'[w] = 0
    BY <1>2, <1>3 DEF IInv, CountersAgree, TypeOK, Dec
  <2>2. Cardinality({}) = 0
    BY FS_EmptySet
  <2> QED
    BY <1>1, <1>3, <1>4, <2>1, <2>2 DEF IInv, CountersAgree
<1>6. StatusMatchesWork'
  BY <1>1, <1>4 DEF StatusMatchesWork
<1>7. EscrowBacked'
  BY <1>1 DEF EscrowBacked, Terminal
<1>8. bonds' = {}
  <2>1. bonds \subseteq claims \cup {"creator"}
    BY DEF IInv, BondsHaveOwners, TypeOK
  <2>2. CASE claims = {}
    BY <1>2, <2>1, <2>2
  <2>3. CASE claims # {} /\ bonds # {}
    <3>1. PICK v \in claims : TRUE
      BY <2>3
    <3>2. claims = {v}
      BY <2>3, SoleClaim DEF IInv, Auxiliary
    <3>3. current_workers > 0 /\ status = "InProgress"
      <4>1. claims \in SUBSET Workers
        BY DEF IInv, TypeOK
      <4>2. Cardinality(claims) \in Nat /\ Cardinality(claims) # 0
        BY <2>3, <4>1, WorkerSets, <3>1
      <4> QED
        BY <1>1, <2>3, <4>2 DEF IInv, CountersAgree, StatusMatchesWork
    <3> QED
      BY <1>2, <1>3, <2>1, <3>2, <3>3
  <2> QED
    BY <1>2, <2>2, <2>3
<1>9. Auxiliary'
  <2>1. current_workers' <= current_workers
    BY <1>1 DEF IInv, TypeOK
  <2> QED
    BY <1>1, <1>8, <2>1, AuxiliaryKept DEF Terminal, taskVars
<1> QED
  BY <1>3, <1>5, <1>6, <1>7, <1>8, <1>9 DEF IInv, BondsHaveOwners

\* An expired claim takes its worker's bond with it: on an Exclusive task the
\* claim is the only one, so a bounced submission cannot hide behind another
\* result under review.
LEMMA ExpireInvariant ==
  ASSUME IInv, TypeOK', NEW w \in Workers, NEW caller, ExpireClaim(w, caller)
  PROVE  IInv'
<1>1. /\ w \in claims /\ w \notin Submitted
      /\ status \in {"InProgress", "PendingValidation"}
      /\ PayCleanup /\ SaturatingRelease(w) /\ CloseClaim(w)
      /\ status' = IF IsManual THEN SyncedStatus(status, pending, current_workers')
                   ELSE IF current_workers' = 0 /\ status = "InProgress" THEN "Open"
                   ELSE status
      /\ UNCHANGED <<taskVars, live_submissions, pending, submissionVars, escrow_open>>
  BY DEF ExpireClaim, Submitted
<1>2. SlotsAgree' /\ claims' = claims \ {w} /\ current_workers' = current_workers - 1
  BY <1>1, SlotReleased, CountersAgreeParts DEF IInv
<1>3. Submitted' = Submitted
  BY <1>1 DEF Submitted, submissionVars
<1>4. CountersAgree'
  BY <1>1, <1>2, <1>3 DEF IInv, CountersAgree, SlotsAgree
<1>5. /\ StatusMatchesWork'
      /\ status' \in {"Open", "InProgress", "PendingValidation"}
  <2>1. CASE IsManual
    <3>1. IsManual' /\ config_open'
      BY <1>1, <2>1 DEF IInv, Auxiliary, IsManual, taskVars, Terminal
    <3>2. status' = SyncedStatus(status, pending', current_workers')
      BY <1>1, <2>1
    <3> QED
      BY <1>1, <1>4, <3>1, <3>2, SyncedStatusIsRight
  <2>2. CASE ~IsManual
    <3>1. Submitted = {} /\ status = "InProgress" /\ ~IsManual'
      BY <1>1, <2>2 DEF IInv, StatusMatchesWork, IsManual, taskVars
    <3>2. current_workers' = 0 => claims' = {}
      <4>1. claims' \in SUBSET Workers
        BY DEF TypeOK
      <4> QED
        BY <1>1, <1>2, <4>1, WorkerSets DEF SlotsAgree
    <3> QED
      BY <1>1, <1>3, <2>2, <3>1, <3>2 DEF StatusMatchesWork
  <2> QED
    BY <2>1, <2>2
<1>6. EscrowBacked'
  <2>1. escrow_open /\ escrow_lamports = EscrowRent + Reward - distributed
    BY <1>1 DEF IInv, EscrowBacked, Terminal
  <2>2. /\ distributed' <= Reward
        /\ escrow_lamports' = EscrowRent + Reward - distributed'
    <3>1. distributed \in Nat /\ escrow_lamports \in Nat /\ Reward \in Nat /\ EscrowRent \in Nat
      BY AmountsAssumption DEF IInv, TypeOK
    <3>2. /\ CleanupPaid \in Nat /\ CleanupPaid <= Reward - distributed
          /\ escrow_lamports' = escrow_lamports - CleanupPaid
          /\ distributed' = distributed + CleanupPaid
      BY <1>1, CleanupType DEF IInv
    <3> QED
      BY <2>1, <3>1, <3>2
  <2> QED
    BY <1>1, <1>5, <2>1, <2>2 DEF EscrowBacked, Terminal
<1>7. BondsHaveOwners' /\ bonds' \subseteq bonds
  <2>1. bonds' = IF BondLost(w) THEN bonds \ {w} ELSE bonds
    BY DEF ExpireClaim
  <2>2. CASE BondLost(w)
    <3>1. bonds' = bonds \ {w} /\ status' \notin Terminal
      BY <1>5, <2>1, <2>2 DEF Terminal
    <3> QED
      BY <1>1, <1>2, <3>1, WorkerBondReleased
  <2>3. CASE ~BondLost(w)
    <3>1. bonds = {}
      <4> SUFFICES ASSUME bonds # {} PROVE FALSE
        OBVIOUS
      <4>1. TaskType = "Exclusive" /\ status = "PendingValidation"
        BY <1>1, <2>3 DEF BondLost, IInv, Auxiliary
      <4>2. Submitted # {} /\ Submitted \subseteq claims /\ claims = {w}
        BY <1>1, <4>1, SoleClaim DEF IInv, StatusMatchesWork, CountersAgree
      <4> QED
        BY <1>1, <4>2
    <3> QED
      BY <2>1, <2>3, <3>1 DEF BondsHaveOwners
  <2> QED
    BY <2>2, <2>3
<1>8. Auxiliary'
  <2>1. current_workers' <= current_workers
    BY <1>2 DEF IInv, TypeOK
  <2> QED
    BY <1>1, <1>5, <1>7, <2>1, AuxiliaryKept DEF Terminal, taskVars
<1> QED
  BY <1>4, <1>5, <1>6, <1>7, <1>8 DEF IInv

LEMMA ReclaimInvariant ==
  ASSUME IInv, TypeOK', NEW w \in Workers, ReclaimTerminalClaim(w)
  PROVE  IInv'
<1>1. /\ w \in claims /\ status \in Terminal
      /\ IF submission[w] = "Submitted"
         THEN LeaveReview ELSE UNCHANGED <<pending, live_submissions>>
      /\ SaturatingRelease(w) /\ CloseClaim(w)
      /\ submission' = [submission EXCEPT ![w] = "none"]
      /\ UNCHANGED <<status, taskVars, escrowVars, bonds>>
  BY DEF ReclaimTerminalClaim, CloseSubmission
<1>2. SlotsAgree' /\ claims' = claims \ {w} /\ current_workers' = current_workers - 1
  BY <1>1, SlotReleased, CountersAgreeParts DEF IInv
<1>3. ReviewsAgree' /\ Submitted' = Submitted \ {w}
  <2>1. CASE submission[w] = "Submitted"
    <3>1. w \in Submitted
      BY <2>1 DEF Submitted
    <3> QED
      BY <1>1, <2>1, <3>1, ReviewLeft, CountersAgreeParts DEF IInv
  <2>2. CASE submission[w] # "Submitted"
    <3>1. Submitted' = Submitted \ {w} /\ w \notin Submitted
      BY <1>1, <2>2, SubmissionRemoved DEF IInv, Submitted
    <3> QED
      BY <1>1, <2>2, <3>1, CountersAgreeParts DEF IInv, ReviewsAgree
  <2> QED
    BY <2>1, <2>2
<1>4. CountersAgree'
  BY <1>2, <1>3 DEF IInv, CountersAgree, SlotsAgree, ReviewsAgree
<1>5. StatusMatchesWork'
  BY <1>1, <1>3 DEF IInv, StatusMatchesWork, taskVars, IsManual, Terminal
<1>6. EscrowBacked'
  BY <1>1 DEF IInv, EscrowBacked, escrowVars
<1>7. BondsHaveOwners'
  BY <1>1 DEF IInv, BondsHaveOwners
<1>8. Auxiliary'
  <2>1. current_workers' <= current_workers
    BY <1>2 DEF IInv, TypeOK
  <2> QED
    BY <1>1, <2>1, AuxiliaryKept DEF Terminal, taskVars
<1> QED
  BY <1>4, <1>5, <1>6, <1>7, <1>8 DEF IInv

\* Bonds are posted while the task runs, a worker's only beside its claim.
LEMMA PostBondInvariant ==
  ASSUME IInv, TypeOK', NEW p, PostBond(p), status \notin Terminal,
         p = "creator" \/ p \in claims
  PROVE  IInv'
<1>1. "creator" \notin Workers
  BY WorkersAssumption DEF Others
<1>2. /\ CountersAgree' /\ StatusMatchesWork' /\ EscrowBacked'
  BY DEF IInv, PostBond, taskVars, counterVars, claimVars, submissionVars, escrowVars,
         CountersAgree, StatusMatchesWork, EscrowBacked, Submitted, IsManual
<1>3. BondsHaveOwners'
  BY <1>1 DEF IInv, BondsHaveOwners, PostBond, claimVars
<1>4. Auxiliary'
  BY DEF IInv, Auxiliary, PostBond, taskVars, counterVars, IsManual
<1> QED
  BY <1>2, <1>3, <1>4 DEF IInv

\* close_task sweeps only what no counter counts.
LEMMA CloseTaskInvariant ==
  ASSUME IInv, TypeOK', NEW sweepConfig \in BOOLEAN, NEW swept \in SUBSET Workers,
         CloseTask(sweepConfig, swept)
  PROVE  IInv'
<1>1. /\ status \in Terminal /\ \A w \in swept : submission[w] = "Rejected"
      /\ submission' = [w \in Workers |-> IF w \in swept THEN "none" ELSE submission[w]]
      /\ config_open' = (config_open /\ ~sweepConfig)
      /\ sweepConfig => live_submissions = 0
      /\ UNCHANGED <<status, mode, counterVars, claimVars, escrowVars, bonds>>
  BY DEF CloseTask
<1>2. Submitted' = Submitted
  BY <1>1 DEF Submitted
<1>3. CountersAgree'
  BY <1>1, <1>2 DEF IInv, CountersAgree, counterVars, claimVars
<1>4. Submitted # {} => config_open'
  <2> SUFFICES ASSUME Submitted # {} PROVE config_open'
    OBVIOUS
  <2>1. live_submissions # 0
    <3>1. PICK v \in Submitted : v \in Workers
      BY DEF Submitted
    <3>2. Submitted \in SUBSET Workers
      BY DEF Submitted
    <3> QED
      BY <3>1, <3>2, WorkerSets DEF IInv, CountersAgree
  <2>2. config_open
    BY DEF IInv, StatusMatchesWork
  <2> QED
    BY <1>1, <2>1, <2>2, Zenon
<1>5. StatusMatchesWork'
  BY <1>1, <1>2, <1>4 DEF IInv, StatusMatchesWork, claimVars, IsManual, Terminal
<1>6. EscrowBacked' /\ BondsHaveOwners'
  BY <1>1 DEF IInv, EscrowBacked, BondsHaveOwners, escrowVars, claimVars
<1>7. Auxiliary'
  BY <1>1 DEF IInv, Auxiliary, counterVars, IsManual, Terminal
<1> QED
  BY <1>3, <1>5, <1>6, <1>7 DEF IInv

-----------------------------------------------------------------------------
LEMMA CreatorStepInvariant == IInv /\ TypeOK' /\ CreatorStep => IInv'
<1> SUFFICES ASSUME IInv, TypeOK', CreatorStep PROVE IInv'
  OBVIOUS
<1>1. CASE \E m \in ManualModes : ConfigureTaskValidation(m)
  BY <1>1, ConfigureInvariant
<1>2. CASE CancelTask
  BY <1>2, CancelInvariant
<1>3. CASE PostCreatorBond
  BY <1>3, PostBondInvariant DEF PostCreatorBond, Terminal
<1>4. CASE \E sweepConfig \in BOOLEAN, swept \in SUBSET Workers :
             CloseTask(sweepConfig, swept)
  BY <1>4, CloseTaskInvariant
<1> QED
  BY <1>1, <1>2, <1>3, <1>4 DEF CreatorStep

LEMMA ReviewStepInvariant ==
  ASSUME IInv, TypeOK', NEW w \in Workers, ReviewStep(w)
  PROVE  IInv'
<1>1. ASSUME NEW terms \in Terms, AcceptTaskResult(w, terms) PROVE IInv'
  BY <1>1, TermsType, AcceptInvariant DEF AcceptTaskResult
<1>2. ASSUME NEW terms \in Terms, ValidateTaskResult(w, terms) PROVE IInv'
  BY <1>2, TermsType, AcceptInvariant DEF ValidateTaskResult
<1>3. ASSUME NEW terms \in Terms, ResolveFrozenForWorker(w, terms) PROVE IInv'
  BY <1>3, TermsType, ResolveForWorkerInvariant
<1> QED
  BY <1>1, <1>2, <1>3, RejectInvariant, RequestChangesInvariant, FreezeInvariant,
     RefuseInvariant, ResolveForCreatorInvariant DEF ReviewStep

LEMMA WorkerStepInvariant ==
  ASSUME IInv, TypeOK', NEW w \in Workers, WorkerStep(w)
  PROVE  IInv'
<1>1. ASSUME NEW terms \in Terms, CompleteTask(w, terms) PROVE IInv'
  BY <1>1, TermsType, CompleteInvariant
<1>2. CASE PostWorkerBond(w)
  BY <1>2, PostBondInvariant DEF PostWorkerBond, Terminal
<1> QED
  BY <1>1, <1>2, ClaimInvariant, SubmitInvariant, ExpireInvariant DEF WorkerStep

LEMMA CrankInvariant ==
  ASSUME IInv, TypeOK', NEW w \in Workers, Crank(w)
  PROVE  IInv'
<1>1. ASSUME NEW terms \in Terms, AutoAcceptTaskResult(w, terms) PROVE IInv'
  BY <1>1, TermsType, AcceptInvariant DEF AutoAcceptTaskResult
<1>2. ASSUME NEW terms \in Terms, DistributeGhostShare(w, terms) PROVE IInv'
  BY <1>2, TermsType, GhostShareInvariant
<1>3. ASSUME NEW terms \in Terms, ExpireRejectFrozen(w, terms) PROVE IInv'
  BY <1>3, TermsType, ExpireFrozenInvariant
<1> QED
  BY <1>1, <1>2, <1>3, ExpireInvariant, ReclaimInvariant DEF Crank

LEMMA StepInvariant == IInv /\ [Next]_vars => IInv'
<1> SUFFICES ASSUME IInv, [Next]_vars PROVE IInv'
  OBVIOUS
<1>1. TypeOK'
  BY StepType DEF IInv
<1>2. CASE UNCHANGED vars
  BY <1>1, <1>2
     DEF IInv, vars, taskVars, counterVars, claimVars, submissionVars, escrowVars,
         CountersAgree, StatusMatchesWork, EscrowBacked, BondsHaveOwners, Auxiliary,
         Submitted, IsManual
<1>3. CASE Next
  BY <1>1, <1>3, TickInvariant, CreatorStepInvariant, ReviewStepInvariant,
     WorkerStepInvariant, CrankInvariant DEF Next
<1> QED
  BY <1>2, <1>3

\* The inductive invariant holds in every reachable state.
THEOREM Invariant == Spec => []IInv
BY InitInvariant, StepInvariant, PTL DEF Spec

(***************************************************************************)
(* The counters every handler maintains by hand agree with the accounts,   *)
(* whatever interleaving of instructions touched them.                     *)
(***************************************************************************)
THEOREM CountersAlwaysAgree == Spec => []CountersAgree
<1>1. IInv => CountersAgree
  BY DEF IInv
<1> QED
  BY <1>1, Invariant, PTL

(***************************************************************************)
(* The status is what the claim and submission accounts say.               *)
(***************************************************************************)
THEOREM StatusAlwaysMatchesWork == Spec => []StatusMatchesWork
<1>1. IInv => StatusMatchesWork
  BY DEF IInv
<1> QED
  BY <1>1, Invariant, PTL

(***************************************************************************)
(* The escrow holds its rent and exactly the reward not yet distributed    *)
(* until the terminal step, and nothing afterwards.                        *)
(***************************************************************************)
THEOREM EscrowAlwaysBacked == Spec => []EscrowBacked
<1>1. IInv => EscrowBacked
  BY DEF IInv
<1> QED
  BY <1>1, Invariant, PTL

(***************************************************************************)
(* No completion bond outlives its claim or its task.                      *)
(***************************************************************************)
THEOREM BondsAlwaysHaveOwners == Spec => []BondsHaveOwners
<1>1. IInv => BondsHaveOwners
  BY DEF IInv
<1> QED
  BY <1>1, Invariant, PTL

(***************************************************************************)
(* Every claim a terminal step leaves behind can be reclaimed.             *)
(***************************************************************************)
THEOREM ClaimsNeverStranded == Spec => []NoClaimStranded
<1>1. IInv => NoClaimStranded
  <2> SUFFICES ASSUME IInv, status \in Terminal, NEW w \in claims,
                      submission[w] = "Submitted"
               PROVE  status = "Completed" /\ TaskType = "Collaborative" /\ config_open
    BY DEF NoClaimStranded
  <2>1. Submitted # {}
    BY DEF IInv, TypeOK, Submitted
  <2> QED
    BY <2>1 DEF IInv, StatusMatchesWork, Terminal
<1> QED
  BY <1>1, Invariant, PTL

-----------------------------------------------------------------------------
(***************************************************************************)
(* After the terminal step no instruction pays out of the escrow or        *)
(* records a completion.                                                   *)
(***************************************************************************)
Settled ==
  status \in Terminal =>
    /\ status' = status /\ completions' = completions
    /\ escrow_lamports' = 0 /\ distributed' = distributed
    /\ tasks_completed' = tasks_completed

LEMMA TerminalSteps ==
  ASSUME status \in Terminal, Next
  PROVE  \/ Tick
         \/ \E w \in Workers : ReclaimTerminalClaim(w)
         \/ \E sweepConfig \in BOOLEAN, swept \in SUBSET Workers :
              CloseTask(sweepConfig, swept)
<1>1. CreatorStep => \E sweepConfig \in BOOLEAN, swept \in SUBSET Workers :
                       CloseTask(sweepConfig, swept)
  BY DEF CreatorStep, Terminal, ConfigureTaskValidation, Configurable, CancelTask,
         Cancellable, PostCreatorBond
<1>2. ASSUME NEW w \in Workers PROVE ~ReviewStep(w)
  BY DEF ReviewStep, Terminal, AcceptTaskResult, ValidateTaskResult, AcceptSubmission,
         ResolveFrozenForWorker, RejectTaskResult, RequestChanges, RejectAndFreeze,
         RefuseTaskResult, ResolveFrozenForCreator
<1>3. ASSUME NEW w \in Workers PROVE ~WorkerStep(w)
  BY DEF WorkerStep, Terminal, ClaimTask, SubmitTaskResult, CompleteTask,
         PostWorkerBond, ExpireClaim
<1>4. ASSUME NEW w \in Workers, Crank(w) PROVE ReclaimTerminalClaim(w)
  BY <1>4 DEF Crank, Terminal, AutoAcceptTaskResult, AcceptSubmission,
              DistributeGhostShare, ExpireRejectFrozen, ExpireClaim
<1> QED
  BY <1>1, <1>2, <1>3, <1>4 DEF Next

THEOREM TerminalStatesAreFinal == Spec => TerminalIsFinal
<1>1. IInv /\ [Next]_vars => [Settled]_vars
  <2> SUFFICES ASSUME IInv, Next, status \in Terminal
               PROVE  Settled
    BY DEF Settled
  <2>1. escrow_lamports = 0
    BY DEF IInv, EscrowBacked
  <2>2. CASE Tick
    BY <2>1, <2>2 DEF Settled, Tick, counterVars, escrowVars
  <2>3. ASSUME NEW w \in Workers, ReclaimTerminalClaim(w) PROVE Settled
    BY <2>1, <2>3 DEF Settled, ReclaimTerminalClaim, escrowVars
  <2>4. ASSUME NEW sweepConfig \in BOOLEAN, NEW swept \in SUBSET Workers,
               CloseTask(sweepConfig, swept)
        PROVE  Settled
    BY <2>1, <2>4 DEF Settled, CloseTask, counterVars, escrowVars
  <2> QED
    BY <2>2, <2>3, <2>4, TerminalSteps
<1>2. TerminalIsFinal <=> [][Settled]_vars
  BY DEF TerminalIsFinal, Settled
<1> QED
  BY <1>1, <1>2, Invariant, PTL DEF Spec

=============================================================================
