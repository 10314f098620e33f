---------------------------- MODULE TaskTypeProofs ----------------------------
(***************************************************************************)
(* Every account field of a task keeps its type: Spec => []TypeOK, for any *)
(* set of workers, any amounts, fees and windows.                          *)
(***************************************************************************)
EXTENDS TaskProperties, RewardSplitProofs

Payments == [Parties -> Int]

\* The fee terms of a settlement are quantities.
LEMMA TermsType ==
  ASSUME NEW terms \in Terms
  PROVE  /\ terms \in Quantities
         /\ [terms EXCEPT !.operator = 0, !.referrer = 0] \in Quantities
<1>1. PICK d \in ReputationDiscounts, legs \in CreditableLegs :
        terms = [protocol |-> EffectiveFeeBps(ProtocolFeeBps, d),
                 operator |-> OperatorFeeBps, referrer |-> ReferrerFeeBps,
                 creditable |-> legs]
  BY DEF Terms
<1>2. EffectiveFeeBps(ProtocolFeeBps, d) \in Nat
  BY FeesAssumption DEF EffectiveFeeBps
<1>3. OperatorFeeBps \in Nat /\ ReferrerFeeBps \in Nat /\ legs \in SUBSET Legs
  BY FeesAssumption DEF MaxOperatorFeeBps, MaxReferrerFeeBps
<1>4. terms \in Quantities
  BY <1>1, <1>2, <1>3 DEF Quantities
<1>5. [terms EXCEPT !.operator = 0, !.referrer = 0] \in Quantities
  BY <1>4 DEF Quantities
<1> QED
  BY <1>4, <1>5

LEMMA RequiredCompletionsType == RequiredCompletions \in Nat \ {0}
BY TaskAssumption DEF RequiredCompletions

\* Lamport movements are payments.
LEMMA PayType ==
  ASSUME NEW p, NEW amount \in Int
  PROVE  Pay(p, amount) \in Payments
BY DEF Pay, Payments

LEMMA BothType ==
  ASSUME NEW f \in Payments, NEW g \in Payments
  PROVE  Both(f, g) \in Payments
BY DEF Both, Payments

LEMMA NoPayType == NoPay \in Payments
BY DEF NoPay, Payments

LEMMA ReceiveType ==
  ASSUME wallet \in [Parties -> Int], NEW f \in Payments, Receive(f)
  PROVE  wallet' \in [Parties -> Int]
BY DEF Receive, Payments

LEMMA BondPaymentsType ==
  ASSUME NEW p, NEW q
  PROVE  /\ Refund(p) \in Payments /\ Forfeit(p, q) \in Payments
         /\ Deposit(p, q) \in Payments
<1>1. BondAmount \in Int /\ EntryDeposit \in Int
  BY AmountsAssumption
<1> QED
  BY <1>1, PayType DEF Refund, Forfeit, Deposit

LEMMA PayOutType ==
  ASSUME NEW w, NEW base \in Nat, NEW terms \in Quantities
  PROVE  PayOut(w, SplitOf(base, terms)) \in Payments
<1>1. terms.protocol \in Nat
  BY DEF Quantities
<1>2. Portion(base, terms.protocol) \in Nat
  BY <1>1, PortionType
<1>3. LegPaid(base, terms, "operator") \in Nat /\ LegPaid(base, terms, "referrer") \in Nat
  BY LegPaidType DEF Legs
<1>4. /\ SplitOf(base, terms).worker \in Int /\ SplitOf(base, terms).protocol \in Int
      /\ SplitOf(base, terms).operator \in Int /\ SplitOf(base, terms).referrer \in Int
  BY <1>2, <1>3 DEF SplitOf
<1> QED
  BY <1>4, PayType, BothType DEF PayOut

\* The workers a step sweeps are finitely many.
LEMMA SweptType ==
  ASSUME NEW swept \in SUBSET Workers
  PROVE  Cardinality(swept) \in Nat
BY WorkersAssumption, FS_Subset, FS_CardinalityType

-----------------------------------------------------------------------------
(***************************************************************************)
(* The pieces that several instructions share.                             *)
(***************************************************************************)
SubmissionType ==
  /\ submission \in [Workers -> SubmissionStates]
  /\ submission_count \in [Workers -> Nat]
  /\ review_deadline_at \in [Workers -> Nat] /\ rejected_at \in [Workers -> Nat]

ClaimType ==
  /\ claims \subseteq Workers /\ deposited \subseteq claims
  /\ expires_at \in [Workers -> Nat]

LEMMA CloseClaimType ==
  ASSUME TypeOK, NEW w \in Workers, CloseClaim(w)
  PROVE  ClaimType'
BY DEF TypeOK, CloseClaim, ClaimType

LEMMA CloseSubmissionType ==
  ASSUME TypeOK, NEW w \in Workers, CloseSubmission(w)
  PROVE  SubmissionType'
BY DEF TypeOK, CloseSubmission, SubmissionType, SubmissionStates

LEMMA MarkRejectedType ==
  ASSUME TypeOK, NEW w \in Workers, MarkRejected(w)
  PROVE  /\ submission' \in [Workers -> SubmissionStates]
         /\ submission_count' \in [Workers -> Nat]
         /\ rejected_at' \in [Workers -> Nat]
BY DEF TypeOK, MarkRejected, SubmissionStates

LEMMA LeaveReviewType ==
  ASSUME TypeOK, LeaveReview
  PROVE  pending' \in Nat /\ live_submissions' \in Nat
BY DEF TypeOK, LeaveReview

LEMMA ReleaseSlotType ==
  ASSUME TypeOK, NEW w \in Workers, ReleaseSlot(w)
  PROVE  current_workers' \in Nat /\ active_tasks' \in [Workers -> Nat]
BY DEF TypeOK, ReleaseSlot

LEMMA SaturatingReleaseType ==
  ASSUME TypeOK, NEW w \in Workers, SaturatingRelease(w)
  PROVE  current_workers' \in Nat /\ active_tasks' \in [Workers -> Nat]
BY DEF TypeOK, SaturatingRelease, Dec

LEMMA SyncedStatusType ==
  ASSUME NEW st \in Statuses, NEW n, NEW m
  PROVE  SyncedStatus(st, n, m) \in Statuses
BY DEF SyncedStatus, Statuses

\* A bond that is released leaves only workers' and the creator's bonds.
LEMMA ReleaseBondsType ==
  ASSUME TypeOK, NEW w, ReleaseBonds(w)
  PROVE  bonds' \subseteq Workers \cup {"creator"}
BY DEF TypeOK, ReleaseBonds

\* A settlement releases a natural amount, which is what the escrow loses and
\* what escrow.distributed gains.
LEMMA SettlementEffect ==
  ASSUME TypeOK, NEW w \in Workers, NEW terms \in Quantities, NEW extra,
         ExecuteCompletionRewards(w, terms, extra)
  PROVE  \E base \in Nat :
           /\ base = RewardPerWorker(TaskType, Reward, RequiredCompletions, completions)
           /\ distributed' = distributed + base
           /\ escrow_lamports - base >= IF Completes THEN 0 ELSE EscrowRent
           /\ escrow_lamports' = IF Completes THEN 0 ELSE escrow_lamports - base
           /\ wallet' = [q \in Parties |-> wallet[q] +
                Both(Both(PayOut(w, SplitOf(base, terms)), extra),
                     Pay("creator", IF Completes THEN escrow_lamports - base ELSE 0))[q]]
<1> DEFINE base == RewardPerWorker(TaskType, Reward, RequiredCompletions, completions)
<1>1. base \in Nat
  BY RewardPerWorkerType, RequiredCompletionsType, AmountsAssumption DEF TypeOK
<1>2. SplitTotal(SplitOf(base, terms)) = base
  BY <1>1, SettlementPaysBase
<1> QED
  BY <1>1, <1>2 DEF ExecuteCompletionRewards, Receive

LEMMA SettlementType ==
  ASSUME TypeOK, NEW w \in Workers, NEW terms \in Quantities, NEW extra \in Payments,
         ExecuteCompletionRewards(w, terms, extra)
  PROVE  /\ distributed' \in Nat /\ escrow_lamports' \in Nat
         /\ escrow_open' \in BOOLEAN
         /\ completions' \in Nat /\ tasks_completed' \in [Workers -> Nat]
         /\ current_workers' \in Nat /\ active_tasks' \in [Workers -> Nat]
         /\ wallet' \in [Parties -> Int]
<1>1. PICK base \in Nat :
        /\ distributed' = distributed + base
        /\ escrow_lamports - base >= IF Completes THEN 0 ELSE EscrowRent
        /\ escrow_lamports' = IF Completes THEN 0 ELSE escrow_lamports - base
        /\ wallet' = [q \in Parties |-> wallet[q] +
             Both(Both(PayOut(w, SplitOf(base, terms)), extra),
                  Pay("creator", IF Completes THEN escrow_lamports - base ELSE 0))[q]]
  BY SettlementEffect
<1>2. distributed' \in Nat /\ escrow_lamports' \in Nat
  BY <1>1, AmountsAssumption DEF TypeOK
<1>3. wallet' \in [Parties -> Int]
  <2>1. PayOut(w, SplitOf(base, terms)) \in Payments
    BY PayOutType
  <2>2. Pay("creator", IF Completes THEN escrow_lamports - base ELSE 0) \in Payments
    BY PayType DEF TypeOK
  <2>3. Both(Both(PayOut(w, SplitOf(base, terms)), extra),
             Pay("creator", IF Completes THEN escrow_lamports - base ELSE 0)) \in Payments
    BY <2>1, <2>2, BothType
  <2> QED
    BY <1>1, <2>3 DEF TypeOK, Payments
<1>4. current_workers' \in Nat /\ active_tasks' \in [Workers -> Nat]
  BY ReleaseSlotType DEF ExecuteCompletionRewards
<1>5. /\ escrow_open' \in BOOLEAN
      /\ completions' \in Nat /\ tasks_completed' \in [Workers -> Nat]
  BY DEF ExecuteCompletionRewards, TypeOK
<1> QED
  BY <1>2, <1>3, <1>4, <1>5

-----------------------------------------------------------------------------
LEMMA InitTypeOK == Init => TypeOK
<1> SUFFICES ASSUME Init PROVE TypeOK
  OBVIOUS
<1>1. Pay("creator", -(EscrowRent + Reward)) \in Payments
  BY PayType, AmountsAssumption
<1> QED
  BY <1>1, TaskAssumption, TimesAssumption, AmountsAssumption
     DEF Init, TypeOK, Payments, Statuses, Manual, SubmissionStates

LEMMA TickType == TypeOK /\ Tick => TypeOK'
BY DEF TypeOK, Tick, taskVars, counterVars, claimVars, submissionVars, escrowVars

LEMMA ClaimTaskType ==
  ASSUME TypeOK, NEW w \in Workers, ClaimTask(w)
  PROVE  TypeOK'
<1>1. wallet' \in [Parties -> Int]
  BY PayType, ReceiveType, AmountsAssumption DEF ClaimTask, TypeOK
<1> QED
  BY <1>1, TimesAssumption
     DEF TypeOK, ClaimTask, submissionVars, escrowVars, Statuses

LEMMA ConfigureType ==
  ASSUME TypeOK, NEW m \in ManualModes, ConfigureTaskValidation(m)
  PROVE  TypeOK'
BY TaskAssumption
   DEF TypeOK, ConfigureTaskValidation, claimVars, submissionVars, escrowVars

LEMMA SubmitType ==
  ASSUME TypeOK, NEW w \in Workers, SubmitTaskResult(w)
  PROVE  TypeOK'
<1>1. SubmissionType'
  BY TimesAssumption DEF SubmitTaskResult, TypeOK, SubmissionType, SubmissionStates
<1> QED
  BY <1>1 DEF TypeOK, SubmitTaskResult, SubmissionType, taskVars, claimVars,
              escrowVars, Statuses

LEMMA AcceptType ==
  ASSUME TypeOK, NEW w \in Workers, NEW terms \in Quantities, AcceptSubmission(w, terms)
  PROVE  TypeOK'
<1>1. Both(RefundBonds(w), Deposit(w, w)) \in Payments
  BY BondPaymentsType, BothType DEF RefundBonds
<1>2. /\ ExecuteCompletionRewards(w, terms, Both(RefundBonds(w), Deposit(w, w)))
      /\ LeaveReview /\ CloseClaim(w) /\ CloseSubmission(w) /\ ReleaseBonds(w)
      /\ UNCHANGED <<now, taskVars>>
  BY DEF AcceptSubmission
<1>3. /\ distributed' \in Nat /\ escrow_lamports' \in Nat /\ escrow_open' \in BOOLEAN
      /\ completions' \in Nat /\ tasks_completed' \in [Workers -> Nat]
      /\ current_workers' \in Nat /\ active_tasks' \in [Workers -> Nat]
      /\ wallet' \in [Parties -> Int]
  BY <1>1, <1>2, SettlementType
<1>4. status' \in Statuses
  BY SyncedStatusType DEF AcceptSubmission, TypeOK, Statuses
<1>5. ClaimType' /\ SubmissionType'
  BY <1>2, CloseClaimType, CloseSubmissionType
<1>6. pending' \in Nat /\ live_submissions' \in Nat
  BY <1>2, LeaveReviewType
<1>7. bonds' \subseteq Workers \cup {"creator"}
  BY <1>2, ReleaseBondsType
<1> QED
  BY <1>2, <1>3, <1>4, <1>5, <1>6, <1>7
     DEF TypeOK, ClaimType, SubmissionType, taskVars

LEMMA RefuseType ==
  ASSUME TypeOK, NEW w \in Workers, RefuseTaskResult(w)
  PROVE  TypeOK'
<1>1. DismissalPay(w) \in Payments
  BY BondPaymentsType, BothType DEF DismissalPay
<1>2. wallet' \in [Parties -> Int]
  BY <1>1, ReceiveType DEF RefuseTaskResult, TypeOK
<1>3. pending' \in Nat /\ live_submissions' \in Nat
  BY LeaveReviewType DEF RefuseTaskResult
<1>4. current_workers' \in Nat /\ active_tasks' \in [Workers -> Nat]
  BY ReleaseSlotType DEF RefuseTaskResult
<1>5. status' \in Statuses
  BY SyncedStatusType DEF RefuseTaskResult, Statuses
<1>6. /\ submission' \in [Workers -> SubmissionStates]
      /\ submission_count' \in [Workers -> Nat]
      /\ rejected_at' \in [Workers -> Nat]
  BY MarkRejectedType DEF RefuseTaskResult
<1>7. ClaimType'
  BY CloseClaimType DEF RefuseTaskResult
<1> QED
  BY <1>2, <1>3, <1>4, <1>5, <1>6, <1>7
     DEF TypeOK, RefuseTaskResult, taskVars, escrowVars, ClaimType

LEMMA RejectType ==
  ASSUME TypeOK, NEW w \in Workers, RejectTaskResult(w)
  PROVE  TypeOK'
<1>1. DismissalPay(w) \in Payments
  BY BondPaymentsType, BothType DEF DismissalPay
<1>2. wallet' \in [Parties -> Int]
  BY <1>1, ReceiveType DEF RejectTaskResult, TypeOK
<1>3. pending' \in Nat /\ live_submissions' \in Nat
  BY LeaveReviewType DEF RejectTaskResult
<1>4. current_workers' \in Nat /\ active_tasks' \in [Workers -> Nat]
  BY ReleaseSlotType DEF RejectTaskResult
<1>5. status' \in Statuses
  BY SyncedStatusType DEF RejectTaskResult, Statuses
<1>6. SubmissionType' /\ ClaimType'
  BY CloseSubmissionType, CloseClaimType DEF RejectTaskResult
<1> QED
  BY <1>2, <1>3, <1>4, <1>5, <1>6
     DEF TypeOK, RejectTaskResult, taskVars, escrowVars, ClaimType, SubmissionType

LEMMA RequestChangesType ==
  ASSUME TypeOK, NEW w \in Workers, RequestChanges(w)
  PROVE  TypeOK'
<1>1. pending' \in Nat /\ live_submissions' \in Nat
  BY LeaveReviewType DEF RequestChanges
<1>2. status' \in Statuses
  BY SyncedStatusType DEF RequestChanges, Statuses
<1>3. /\ submission' \in [Workers -> SubmissionStates]
      /\ submission_count' \in [Workers -> Nat]
      /\ rejected_at' \in [Workers -> Nat]
  BY MarkRejectedType DEF RequestChanges
<1>4. deadline' \in Nat /\ expires_at' \in [Workers -> Nat]
  BY TimesAssumption DEF RequestChanges, TypeOK, Extended
<1> QED
  BY <1>1, <1>2, <1>3, <1>4 DEF TypeOK, RequestChanges, escrowVars

LEMMA FreezeType ==
  ASSUME TypeOK, NEW w \in Workers, RejectAndFreeze(w)
  PROVE  TypeOK'
<1>1. pending' \in Nat /\ live_submissions' \in Nat
  BY LeaveReviewType DEF RejectAndFreeze
<1>2. /\ submission' \in [Workers -> SubmissionStates]
      /\ submission_count' \in [Workers -> Nat]
      /\ rejected_at' \in [Workers -> Nat]
  BY MarkRejectedType DEF RejectAndFreeze
<1>3. review_deadline_at' \in [Workers -> Nat]
  BY TimesAssumption DEF RejectAndFreeze, TypeOK
<1> QED
  BY <1>1, <1>2, <1>3
     DEF TypeOK, RejectAndFreeze, taskVars, claimVars, escrowVars, Statuses

\* Both exits of a frozen task that pay the worker.
LEMMA ThawType ==
  ASSUME TypeOK, NEW w \in Workers, NEW terms \in Quantities, NEW extra \in Payments,
         ExecuteCompletionRewards(w, terms, extra),
         status' \in {status, "Completed"},
         CloseClaim(w), CloseSubmission(w), ReleaseBonds(w),
         UNCHANGED <<now, taskVars, live_submissions, pending>>
  PROVE  TypeOK'
<1>1. /\ distributed' \in Nat /\ escrow_lamports' \in Nat /\ escrow_open' \in BOOLEAN
      /\ completions' \in Nat /\ tasks_completed' \in [Workers -> Nat]
      /\ current_workers' \in Nat /\ active_tasks' \in [Workers -> Nat]
      /\ wallet' \in [Parties -> Int]
  BY SettlementType
<1>2. ClaimType' /\ SubmissionType'
  BY CloseClaimType, CloseSubmissionType
<1>3. bonds' \subseteq Workers \cup {"creator"}
  BY ReleaseBondsType
<1> QED
  BY <1>1, <1>2, <1>3 DEF TypeOK, ClaimType, SubmissionType, taskVars, Statuses

LEMMA ResolveForWorkerType ==
  ASSUME TypeOK, NEW w \in Workers, NEW terms \in Quantities,
         ResolveFrozenForWorker(w, terms)
  PROVE  TypeOK'
<1>1. Both(Both(Refund(w), Forfeit("creator", "treasury")), Deposit(w, w)) \in Payments
  BY BondPaymentsType, BothType
<1> QED
  BY <1>1, ThawType DEF ResolveFrozenForWorker

LEMMA ExpireFrozenType ==
  ASSUME TypeOK, NEW w \in Workers, NEW terms \in Quantities,
         ExpireRejectFrozen(w, terms)
  PROVE  TypeOK'
<1>1. Both(RefundBonds(w), Deposit(w, w)) \in Payments
  BY BondPaymentsType, BothType DEF RefundBonds
<1> QED
  BY <1>1, ThawType DEF ExpireRejectFrozen

LEMMA ResolveForCreatorType ==
  ASSUME TypeOK, NEW w \in Workers, ResolveFrozenForCreator(w)
  PROVE  TypeOK'
<1>1. Both(Both(Refund("creator"), Forfeit(w, "treasury")),
           Both(Pay("creator", escrow_lamports), Deposit(w, w))) \in Payments
  BY BondPaymentsType, BothType, PayType DEF TypeOK
<1>2. wallet' \in [Parties -> Int]
  BY <1>1, ReceiveType DEF ResolveFrozenForCreator, TypeOK
<1>3. current_workers' \in Nat /\ active_tasks' \in [Workers -> Nat]
  BY ReleaseSlotType DEF ResolveFrozenForCreator
<1>4. ClaimType' /\ SubmissionType'
  BY CloseClaimType, CloseSubmissionType DEF ResolveFrozenForCreator
<1>5. bonds' \subseteq Workers \cup {"creator"}
  BY ReleaseBondsType DEF ResolveFrozenForCreator
<1> QED
  BY <1>2, <1>3, <1>4, <1>5
     DEF TypeOK, ResolveFrozenForCreator, ClaimType, SubmissionType, taskVars, Statuses

LEMMA CompleteTaskType ==
  ASSUME TypeOK, NEW w \in Workers, NEW terms \in Quantities, CompleteTask(w, terms)
  PROVE  TypeOK'
<1>1. Both(RefundBonds(w), Deposit(w, w)) \in Payments
  BY BondPaymentsType, BothType DEF RefundBonds
<1>2. /\ distributed' \in Nat /\ escrow_lamports' \in Nat /\ escrow_open' \in BOOLEAN
      /\ completions' \in Nat /\ tasks_completed' \in [Workers -> Nat]
      /\ current_workers' \in Nat /\ active_tasks' \in [Workers -> Nat]
      /\ wallet' \in [Parties -> Int]
  BY <1>1, SettlementType DEF CompleteTask
<1>3. ClaimType' /\ bonds' \subseteq Workers \cup {"creator"}
  BY CloseClaimType, ReleaseBondsType DEF CompleteTask
<1> QED
  BY <1>2, <1>3
     DEF TypeOK, CompleteTask, ClaimType, submissionVars, taskVars, Statuses

\* A ghost share is a natural amount, and what it takes the escrow keeps
\* account of.
LEMMA GhostShareEffect ==
  ASSUME TypeOK, NEW w \in Workers, NEW terms \in Quantities,
         DistributeGhostShare(w, terms)
  PROVE  \E slice \in Nat :
           LET last == live_submissions = 1
               left == escrow_lamports - slice
           IN /\ slice = GhostSlice(Reward - distributed, live_submissions)
              /\ distributed' = distributed + slice
              /\ left >= IF last THEN 0 ELSE EscrowRent
              /\ escrow_lamports' = IF last THEN 0 ELSE left
              /\ wallet' = [q \in Parties |-> wallet[q] +
                   Both(Both(PayOut(w, SplitOf(slice, terms)), Deposit(w, w)),
                        Pay("creator", IF last THEN left ELSE 0))[q]]
<1> DEFINE slice == GhostSlice(Reward - distributed, live_submissions)
<1>1. slice \in Nat
  <2>1. Reward - distributed \in Nat /\ live_submissions \in Nat \ {0}
    BY AmountsAssumption DEF TypeOK, DistributeGhostShare
  <2> QED
    BY <2>1, DivType DEF GhostSlice
<1>2. SplitTotal(SplitOf(slice, terms)) = slice
  BY <1>1, SettlementPaysBase
<1> QED
  BY <1>1, <1>2 DEF DistributeGhostShare, Receive

LEMMA GhostShareType ==
  ASSUME TypeOK, NEW w \in Workers, NEW terms \in Quantities,
         DistributeGhostShare(w, terms)
  PROVE  TypeOK'
<1> DEFINE last == live_submissions = 1
<1>1. PICK slice \in Nat :
        /\ distributed' = distributed + slice
        /\ escrow_lamports - slice >= IF last THEN 0 ELSE EscrowRent
        /\ escrow_lamports' = IF last THEN 0 ELSE escrow_lamports - slice
        /\ wallet' = [q \in Parties |-> wallet[q] +
             Both(Both(PayOut(w, SplitOf(slice, terms)), Deposit(w, w)),
                  Pay("creator", IF last THEN escrow_lamports - slice ELSE 0))[q]]
  BY GhostShareEffect
<1>2. distributed' \in Nat /\ escrow_lamports' \in Nat
  BY <1>1, AmountsAssumption DEF TypeOK
<1>3. Both(Both(PayOut(w, SplitOf(slice, terms)), Deposit(w, w)),
           Pay("creator", IF last THEN escrow_lamports - slice ELSE 0)) \in Payments
  BY PayOutType, BondPaymentsType, PayType, BothType DEF TypeOK
<1>4. wallet' \in [Parties -> Int]
  BY <1>1, <1>3 DEF TypeOK, Payments
<1>5. /\ pending' \in Nat /\ live_submissions' \in Nat
      /\ current_workers' \in Nat /\ active_tasks' \in [Workers -> Nat]
  BY LeaveReviewType, ReleaseSlotType DEF DistributeGhostShare
<1>6. ClaimType' /\ SubmissionType'
  BY CloseClaimType, CloseSubmissionType DEF DistributeGhostShare
<1>7. /\ completions' \in Nat /\ tasks_completed' \in [Workers -> Nat]
      /\ status' \in Statuses /\ escrow_open' \in BOOLEAN
      /\ UNCHANGED <<now, taskVars, bonds>>
  BY DEF TypeOK, DistributeGhostShare, Statuses
<1> QED
  BY <1>2, <1>4, <1>5, <1>6, <1>7
     DEF TypeOK, ClaimType, SubmissionType, taskVars

LEMMA SweptDepositsType ==
  ASSUME NEW swept \in SUBSET Workers
  PROVE  SweptDeposits(swept) \in Payments
<1>1. EntryDeposit \in Nat /\ Cardinality(swept \cap deposited) \in Nat
  BY SweptType, AmountsAssumption
<1>2. EntryDeposit * Cardinality(swept \cap deposited) \in Int
  BY <1>1
<1>3. Pay("treasury", EntryDeposit * Cardinality(swept \cap deposited)) \in Payments
  BY <1>2, PayType
<1>4. [q \in Parties |-> IF q \in swept \cap deposited THEN EntryDeposit ELSE 0] \in Payments
  BY <1>1 DEF Payments
<1> QED
  BY <1>3, <1>4 DEF SweptDeposits

LEMMA CancelType ==
  ASSUME TypeOK, CancelTask
  PROVE  TypeOK'
<1> DEFINE noShow == status = "InProgress" /\ current_workers > 0
<1>1. PICK swept \in SUBSET claims, bonded \in Workers :
        /\ claims' = claims \ swept
        /\ deposited' = deposited \ swept
        /\ expires_at' = [w \in Workers |-> IF w \in swept THEN 0 ELSE expires_at[w]]
        /\ active_tasks' = [w \in Workers |->
             IF w \in swept THEN Dec(active_tasks[w]) ELSE active_tasks[w]]
        /\ bonds' = bonds \ {"creator", bonded}
        /\ Receive(Both(
             Both(Pay("creator", escrow_lamports), Refund("creator")),
             Both(IF noShow THEN Forfeit(bonded, "creator") ELSE Refund(bonded),
                  SweptDeposits(swept))))
  BY DEF CancelTask
<1>2. SweptDeposits(swept) \in Payments
  BY SweptDepositsType DEF TypeOK
<1>3. Both(Both(Pay("creator", escrow_lamports), Refund("creator")),
           Both(IF noShow THEN Forfeit(bonded, "creator") ELSE Refund(bonded),
                SweptDeposits(swept))) \in Payments
  BY <1>2, PayType, BondPaymentsType, BothType DEF TypeOK
<1>4. wallet' \in [Parties -> Int]
  BY <1>1, <1>3, ReceiveType DEF TypeOK
<1>5. ClaimType' /\ active_tasks' \in [Workers -> Nat]
  BY <1>1 DEF TypeOK, ClaimType, Dec
<1> QED
  BY <1>1, <1>4, <1>5
     DEF TypeOK, CancelTask, ClaimType, taskVars, submissionVars, Statuses

\* The cleanup reward is a natural amount that the escrow can pay.
LEMMA CleanupType ==
  ASSUME TypeOK, PayCleanup
  PROVE  /\ CleanupPaid \in Nat
         /\ CleanupPaid <= Reward - distributed
         /\ escrow_lamports' \in Nat /\ distributed' \in Nat
         /\ escrow_lamports' = escrow_lamports - CleanupPaid
         /\ distributed' = distributed + CleanupPaid
BY AmountsAssumption DEF TypeOK, PayCleanup, CleanupPaid

LEMMA ExpireClaimType ==
  ASSUME TypeOK, NEW w \in Workers, NEW caller, ExpireClaim(w, caller)
  PROVE  TypeOK'
<1>1. CleanupPaid \in Nat /\ escrow_lamports' \in Nat /\ distributed' \in Nat
  BY CleanupType DEF ExpireClaim
<1>2. Both(Pay(caller, CleanupPaid),
           Both(IF BondLost(w) THEN Forfeit(w, "creator") ELSE NoPay,
                Deposit(w, IF ContestConfigured THEN "treasury" ELSE w))) \in Payments
  BY <1>1, PayType, BondPaymentsType, NoPayType, BothType
<1>3. wallet' \in [Parties -> Int]
  BY <1>2, ReceiveType DEF ExpireClaim, TypeOK
<1>4. current_workers' \in Nat /\ active_tasks' \in [Workers -> Nat]
  BY SaturatingReleaseType DEF ExpireClaim
<1>5. status' \in Statuses
  BY SyncedStatusType DEF ExpireClaim, TypeOK, Statuses
<1>6. ClaimType'
  BY CloseClaimType DEF ExpireClaim
<1>7. bonds' \subseteq Workers \cup {"creator"}
  BY DEF ExpireClaim, TypeOK
<1> QED
  BY <1>1, <1>3, <1>4, <1>5, <1>6, <1>7
     DEF TypeOK, ExpireClaim, ClaimType, taskVars, submissionVars

LEMMA ReclaimType ==
  ASSUME TypeOK, NEW w \in Workers, ReclaimTerminalClaim(w)
  PROVE  TypeOK'
<1>1. wallet' \in [Parties -> Int]
  BY ReceiveType, BondPaymentsType DEF ReclaimTerminalClaim, TypeOK
<1>2. current_workers' \in Nat /\ active_tasks' \in [Workers -> Nat]
  BY SaturatingReleaseType DEF ReclaimTerminalClaim
<1>3. pending' \in Nat /\ live_submissions' \in Nat
  BY LeaveReviewType DEF ReclaimTerminalClaim, TypeOK
<1>4. ClaimType' /\ SubmissionType'
  BY CloseClaimType, CloseSubmissionType DEF ReclaimTerminalClaim
<1> QED
  BY <1>1, <1>2, <1>3, <1>4
     DEF TypeOK, ReclaimTerminalClaim, ClaimType, SubmissionType, taskVars, escrowVars

LEMMA PostBondType ==
  ASSUME TypeOK, NEW p \in Workers \cup {"creator"}, PostBond(p)
  PROVE  TypeOK'
<1>1. wallet' \in [Parties -> Int]
  BY PayType, ReceiveType, AmountsAssumption DEF PostBond, TypeOK
<1> QED
  BY <1>1 DEF TypeOK, PostBond, taskVars, counterVars, claimVars, submissionVars, escrowVars

LEMMA CloseTaskType ==
  ASSUME TypeOK, NEW sweepConfig \in BOOLEAN, NEW swept \in SUBSET Workers,
         CloseTask(sweepConfig, swept)
  PROVE  TypeOK'
<1>1. SubmissionType'
  BY DEF TypeOK, CloseTask, SubmissionType, SubmissionStates
<1> QED
  BY <1>1 DEF TypeOK, CloseTask, SubmissionType, counterVars, claimVars, escrowVars

-----------------------------------------------------------------------------
LEMMA CreatorStepType == TypeOK /\ CreatorStep => TypeOK'
<1> SUFFICES ASSUME TypeOK, CreatorStep PROVE TypeOK'
  OBVIOUS
<1>1. CASE \E m \in ManualModes : ConfigureTaskValidation(m)
  BY <1>1, ConfigureType
<1>2. CASE CancelTask
  BY <1>2, CancelType
<1>3. CASE PostCreatorBond
  BY <1>3, PostBondType DEF PostCreatorBond
<1>4. CASE \E sweepConfig \in BOOLEAN, swept \in SUBSET Workers :
             CloseTask(sweepConfig, swept)
  BY <1>4, CloseTaskType
<1> QED
  BY <1>1, <1>2, <1>3, <1>4 DEF CreatorStep

LEMMA ReviewStepType ==
  ASSUME TypeOK, NEW w \in Workers, ReviewStep(w)
  PROVE  TypeOK'
<1>1. ASSUME NEW terms \in Terms, AcceptTaskResult(w, terms) PROVE TypeOK'
  BY <1>1, TermsType, AcceptType DEF AcceptTaskResult
<1>2. ASSUME NEW terms \in Terms, ValidateTaskResult(w, terms) PROVE TypeOK'
  BY <1>2, TermsType, AcceptType DEF ValidateTaskResult
<1>3. ASSUME NEW terms \in Terms, ResolveFrozenForWorker(w, terms) PROVE TypeOK'
  BY <1>3, TermsType, ResolveForWorkerType
<1> QED
  BY <1>1, <1>2, <1>3, RejectType, RequestChangesType, FreezeType, RefuseType,
     ResolveForCreatorType DEF ReviewStep

LEMMA WorkerStepType ==
  ASSUME TypeOK, NEW w \in Workers, WorkerStep(w)
  PROVE  TypeOK'
<1>1. ASSUME NEW terms \in Terms, CompleteTask(w, terms) PROVE TypeOK'
  BY <1>1, TermsType, CompleteTaskType
<1>2. CASE PostWorkerBond(w)
  BY <1>2, PostBondType DEF PostWorkerBond
<1> QED
  BY <1>1, <1>2, ClaimTaskType, SubmitType, ExpireClaimType DEF WorkerStep

LEMMA CrankType ==
  ASSUME TypeOK, NEW w \in Workers, Crank(w)
  PROVE  TypeOK'
<1>1. ASSUME NEW terms \in Terms, AutoAcceptTaskResult(w, terms) PROVE TypeOK'
  BY <1>1, TermsType, AcceptType DEF AutoAcceptTaskResult
<1>2. ASSUME NEW terms \in Terms, DistributeGhostShare(w, terms) PROVE TypeOK'
  BY <1>2, TermsType, GhostShareType
<1>3. ASSUME NEW terms \in Terms, ExpireRejectFrozen(w, terms) PROVE TypeOK'
  BY <1>3, TermsType, ExpireFrozenType
<1> QED
  BY <1>1, <1>2, <1>3, ExpireClaimType, ReclaimType DEF Crank

LEMMA StepType == TypeOK /\ [Next]_vars => TypeOK'
<1> SUFFICES ASSUME TypeOK, [Next]_vars PROVE TypeOK'
  OBVIOUS
<1>1. CASE UNCHANGED vars
  BY <1>1 DEF TypeOK, vars, taskVars, counterVars, claimVars, submissionVars, escrowVars
<1>2. CASE Next
  BY <1>2, TickType, CreatorStepType, ReviewStepType, WorkerStepType, CrankType DEF Next
<1> QED
  BY <1>1, <1>2

(***************************************************************************)
(* Whatever the instructions are called with, no account field of a task   *)
(* leaves its type: no counter underflows, no account's lamports go        *)
(* negative, and only the account of a live claim holds an entry deposit.  *)
(***************************************************************************)
THEOREM TypeCorrect == Spec => []TypeOK
BY InitTypeOK, StepType, PTL DEF Spec

-----------------------------------------------------------------------------
(***************************************************************************)
(* Conservation: what an instruction pays out is exactly what the escrow,  *)
(* the bonds and the entry deposits lose by it.                            *)
(***************************************************************************)
Worth(f) == SumFunctionOnSet(f, Parties)

BondOf(p) == IF p \in bonds THEN BondAmount ELSE 0
DepositOf(w) == IF w \in deposited THEN EntryDeposit ELSE 0

BondsHeld == BondAmount * Cardinality(bonds)
DepositsHeld == EntryDeposit * Cardinality(deposited)

\* All there is: what a step must leave alone.
Lamports == SumFunction(wallet) + escrow_lamports + BondsHeld + DepositsHeld

LEMMA PartiesFinite == IsFiniteSet(Parties)
<1>1. IsFiniteSet(Others)
  <2> DEFINE A == {"creator"}
             B == A \cup {"treasury"}
             C == B \cup {"operator"}
             D == C \cup {"referrer"}
  <2>1. IsFiniteSet(A) BY FS_Singleton
  <2>2. IsFiniteSet(B) BY <2>1, FS_AddElement
  <2>3. IsFiniteSet(C) BY <2>2, FS_AddElement
  <2>4. IsFiniteSet(D) BY <2>3, FS_AddElement
  <2>5. IsFiniteSet(D \cup {"cranker"}) BY <2>4, FS_AddElement
  <2>6. Others = D \cup {"cranker"} BY DEF Others
  <2> QED BY <2>5, <2>6
<1> QED
  BY <1>1, WorkersAssumption, FS_Union DEF Parties

LEMMA WorthType ==
  ASSUME NEW f \in Payments
  PROVE  Worth(f) \in Int
BY PartiesFinite, SumType DEF Worth, Payments

\* What one party receives is all that is paid.
LEMMA WorthOfPay ==
  ASSUME NEW p \in Parties, NEW amount \in Int
  PROVE  Worth(Pay(p, amount)) = amount
<1>1. Pay(p, amount) = [q \in Parties |-> IF q \in {p} THEN amount ELSE 0]
  BY DEF Pay
<1>2. SumFunctionOnSet([q \in Parties |-> IF q \in {p} THEN amount ELSE 0], Parties)
        = amount * Cardinality({p})
  BY PartiesFinite, SumOfShares, {p} \in SUBSET Parties
<1>3. Cardinality({p}) = 1
  BY FS_Singleton
<1> QED
  BY <1>1, <1>2, <1>3 DEF Worth

LEMMA WorthOfNothing == Worth(NoPay) = 0
<1>1. NoPay = Pay("creator", 0) /\ "creator" \in Parties
  BY DEF NoPay, Pay, Parties, Others
<1> QED
  BY <1>1, WorthOfPay

LEMMA WorthOfBoth ==
  ASSUME NEW f \in Payments, NEW g \in Payments
  PROVE  Worth(Both(f, g)) = Worth(f) + Worth(g)
<1>1. f \in [Parties -> Int] /\ g \in [Parties -> Int]
  BY DEF Payments
<1>2. SumFunctionOnSet([q \in Parties |-> f[q] + g[q]], Parties)
        = SumFunctionOnSet(f, Parties) + SumFunctionOnSet(g, Parties)
  BY <1>1, PartiesFinite, SumOfSums
<1> QED
  BY <1>2 DEF Worth, Both

LEMMA WorthReceived ==
  ASSUME wallet \in [Parties -> Int], NEW f \in Payments, Receive(f)
  PROVE  SumFunction(wallet') = SumFunction(wallet) + Worth(f)
<1>1. wallet' = Both(wallet, f) /\ wallet \in Payments
  BY DEF Receive, Both, Payments
<1>2. Worth(wallet') = Worth(wallet) + Worth(f)
  BY <1>1, WorthOfBoth
<1>3. DOMAIN wallet = Parties /\ DOMAIN wallet' = Parties
  BY <1>1 DEF Both
<1> QED
  BY <1>2, <1>3 DEF SumFunction, Worth

\* Bonds and entry deposits are worth the same wherever they are paid to.
LEMMA WorthOfBonds ==
  ASSUME NEW p \in Parties, NEW to \in Parties
  PROVE  /\ Worth(Refund(p)) = BondOf(p) /\ BondOf(p) \in Nat
         /\ Worth(Forfeit(p, to)) = BondOf(p)
         /\ Worth(Deposit(p, to)) = DepositOf(p) /\ DepositOf(p) \in Nat
<1>1. BondOf(p) \in Nat /\ DepositOf(p) \in Nat
  BY AmountsAssumption DEF BondOf, DepositOf
<1> QED
  BY <1>1, WorthOfPay DEF Refund, Forfeit, Deposit, BondOf, DepositOf

LEMMA WorthOfPayOut ==
  ASSUME NEW w \in Workers, NEW base \in Nat, NEW terms \in Quantities
  PROVE  Worth(PayOut(w, SplitOf(base, terms))) = base
<1> DEFINE s == SplitOf(base, terms)
<1>1. /\ s.worker \in Int /\ s.protocol \in Int
      /\ s.operator \in Int /\ s.referrer \in Int
  <2>1. terms.protocol \in Nat
    BY DEF Quantities
  <2>2. Portion(base, terms.protocol) \in Nat
    BY <2>1, PortionType
  <2>3. LegPaid(base, terms, "operator") \in Nat /\ LegPaid(base, terms, "referrer") \in Nat
    BY LegPaidType DEF Legs
  <2> QED
    BY <2>2, <2>3 DEF SplitOf
<1>2. SplitTotal(s) = base
  BY SettlementPaysBase
<1> HIDE DEF s
<1>3. /\ w \in Parties /\ "treasury" \in Parties
      /\ "operator" \in Parties /\ "referrer" \in Parties
  BY DEF Parties, Others
<1>4. /\ Worth(Pay(w, s.worker)) = s.worker
      /\ Worth(Pay("treasury", s.protocol)) = s.protocol
      /\ Worth(Pay("operator", s.operator)) = s.operator
      /\ Worth(Pay("referrer", s.referrer)) = s.referrer
  BY <1>1, <1>3, WorthOfPay
<1>5. /\ Pay(w, s.worker) \in Payments /\ Pay("treasury", s.protocol) \in Payments
      /\ Pay("operator", s.operator) \in Payments /\ Pay("referrer", s.referrer) \in Payments
  BY <1>1, PayType
<1>6. Worth(PayOut(w, s)) = (s.worker + s.protocol) + (s.operator + s.referrer)
  BY <1>4, <1>5, BothType, WorthOfBoth DEF PayOut
<1> QED
  BY <1>1, <1>2, <1>6 DEF SplitTotal, s

LEMMA PartOfParties ==
  ASSUME NEW S \in SUBSET Parties
  PROVE  /\ IsFiniteSet(S) /\ Cardinality(S) \in Nat
         /\ BondAmount * Cardinality(S) \in Nat
         /\ EntryDeposit * Cardinality(S) \in Nat
<1>1. IsFiniteSet(S) /\ Cardinality(S) \in Nat
  BY PartiesFinite, FS_Subset, FS_CardinalityType
<1> QED
  BY <1>1, ProductType, AmountsAssumption

\* One account fewer, if it was there.
LEMMA OneFewer ==
  ASSUME NEW amount \in Nat, NEW S \in SUBSET Parties, NEW x
  PROVE  amount * Cardinality(S \ {x})
           = amount * Cardinality(S) - (IF x \in S THEN amount ELSE 0)
<1>1. Cardinality(S) \in Nat
  BY PartOfParties
<1>2. CASE x \in S
  <2>1. Cardinality(S \ {x}) = Cardinality(S) - 1
    BY <1>2, PartOfParties, FS_RemoveElement
  <2> DEFINE k == Cardinality(S)
  <2>2. k \in Nat
    BY <1>1
  <2>3. amount * (k - 1) = amount * k - amount
    <3> HIDE DEF k
    <3> QED BY <2>2
  <2> QED
    BY <1>2, <2>1, <2>3
<1>3. CASE x \notin S
  <2> DEFINE n == amount * Cardinality(S)
  <2>1. amount * Cardinality(S \ {x}) = n
    <3>1. S \ {x} = S
      BY <1>3
    <3> QED
      BY <3>1
  <2>2. n \in Nat
    BY <1>1, ProductType
  <2>3. n = n - 0
    <3> HIDE DEF n
    <3> QED BY <2>2
  <2> QED
    BY <1>3, <2>1, <2>3
<1> QED
  BY <1>2, <1>3

LEMMA BondClosed ==
  ASSUME TypeOK, NEW p, bonds' = bonds \ {p}
  PROVE  BondsHeld' = BondsHeld - BondOf(p)
<1>1. bonds \in SUBSET Parties
  BY DEF TypeOK, Parties, Others
<1> QED
  BY <1>1, OneFewer, AmountsAssumption DEF BondsHeld, BondOf

LEMMA BondsClosed ==
  ASSUME TypeOK, NEW w \in Workers, ReleaseBonds(w)
  PROVE  BondsHeld' = BondsHeld - BondOf("creator") - BondOf(w)
<1> DEFINE left == bonds \ {"creator"}
<1>1. bonds \in SUBSET Parties /\ left \in SUBSET Parties
  BY DEF TypeOK, Parties, Others
<1>2. bonds' = left \ {w} /\ (w \in left <=> w \in bonds)
  BY WorkersAssumption DEF ReleaseBonds, Others
<1>3. BondAmount * Cardinality(left) = BondsHeld - BondOf("creator")
  BY <1>1, OneFewer, AmountsAssumption DEF BondsHeld, BondOf
<1>4. BondAmount * Cardinality(left \ {w}) = BondAmount * Cardinality(left) - BondOf(w)
  <2> HIDE DEF left
  <2> QED BY <1>1, <1>2, OneFewer, AmountsAssumption DEF BondOf
<1> QED
  BY <1>2, <1>3, <1>4 DEF BondsHeld

LEMMA DepositReturned ==
  ASSUME TypeOK, NEW w \in Workers, CloseClaim(w)
  PROVE  DepositsHeld' = DepositsHeld - DepositOf(w)
<1>1. deposited \in SUBSET Parties
  BY DEF TypeOK, Parties
<1> QED
  BY <1>1, OneFewer, AmountsAssumption DEF CloseClaim, DepositsHeld, DepositOf

LEMMA HoldingsType ==
  ASSUME TypeOK
  PROVE  /\ BondsHeld \in Nat /\ DepositsHeld \in Nat
         /\ escrow_lamports \in Nat /\ SumFunction(wallet) \in Int
<1>1. SumFunction(wallet) \in Int
  <2>1. wallet \in Payments /\ DOMAIN wallet = Parties
    BY DEF TypeOK, Payments
  <2> QED
    BY <2>1, WorthType DEF SumFunction, Worth
<1>2. bonds \in SUBSET Parties /\ deposited \in SUBSET Parties
  BY DEF TypeOK, Parties, Others
<1> QED
  BY <1>1, <1>2, PartOfParties DEF BondsHeld, DepositsHeld, TypeOK

LEMMA HoldingsTypeNext ==
  ASSUME TypeOK'
  PROVE  /\ BondsHeld' \in Nat /\ DepositsHeld' \in Nat
         /\ escrow_lamports' \in Nat
<1>1. bonds' \in SUBSET Parties /\ deposited' \in SUBSET Parties
  BY DEF TypeOK, Parties, Others
<1> QED
  BY <1>1, PartOfParties DEF BondsHeld, DepositsHeld, TypeOK

\* The law for one step: what it pays out is what the accounts lose.
LEMMA PaidFromAccounts ==
  ASSUME TypeOK, NEW f \in Payments, Receive(f),
         Worth(f) = (escrow_lamports - escrow_lamports') + (BondsHeld - BondsHeld')
                      + (DepositsHeld - DepositsHeld'),
         TypeOK'
  PROVE  Lamports' = Lamports
<1>1. SumFunction(wallet') = SumFunction(wallet) + Worth(f)
  BY WorthReceived DEF TypeOK
<1>2. /\ BondsHeld \in Nat /\ DepositsHeld \in Nat
      /\ escrow_lamports \in Nat /\ SumFunction(wallet) \in Int
  BY HoldingsType
<1>3. /\ BondsHeld' \in Nat /\ DepositsHeld' \in Nat
      /\ escrow_lamports' \in Nat
  BY HoldingsTypeNext
<1> QED
  BY <1>1, <1>2, <1>3 DEF Lamports

\* Steps that move no lamports.
LEMMA NothingPaid ==
  ASSUME UNCHANGED <<wallet, escrow_lamports, bonds, deposited>>
  PROVE  Lamports' = Lamports
BY DEF Lamports, BondsHeld, DepositsHeld

LEMMA InitConserved == Init => Lamports = 0
<1> SUFFICES ASSUME Init PROVE Lamports = 0
  OBVIOUS
<1>1. EscrowRent + Reward \in Nat /\ "creator" \in Parties
  BY AmountsAssumption DEF Parties, Others
<1>2. Worth(Pay("creator", -(EscrowRent + Reward))) = -(EscrowRent + Reward)
  BY <1>1, WorthOfPay
<1>3. DOMAIN wallet = Parties /\ wallet = Pay("creator", -(EscrowRent + Reward))
  BY DEF Init, Pay
<1>4. SumFunction(wallet) = -(EscrowRent + Reward)
  BY <1>2, <1>3 DEF SumFunction, Worth
<1>5. bonds = {} /\ deposited = {} /\ Cardinality({}) = 0
      /\ escrow_lamports = EscrowRent + Reward
  BY FS_EmptySet DEF Init
<1>6. BondAmount * 0 = 0 /\ EntryDeposit * 0 = 0
  BY AmountsAssumption
<1> QED
  BY <1>1, <1>4, <1>5, <1>6 DEF Lamports, BondsHeld, DepositsHeld

\* A settlement pays what leaves the escrow, and what else the instruction
\* gives out.
LEMMA SettlementPays ==
  ASSUME TypeOK, NEW w \in Workers, NEW terms \in Quantities, NEW extra \in Payments,
         ExecuteCompletionRewards(w, terms, extra)
  PROVE  \E f \in Payments :
           /\ Receive(f)
           /\ Worth(f) = (escrow_lamports - escrow_lamports') + Worth(extra)
<1>1. PICK base \in Nat :
        /\ escrow_lamports - base >= IF Completes THEN 0 ELSE EscrowRent
        /\ escrow_lamports' = IF Completes THEN 0 ELSE escrow_lamports - base
        /\ wallet' = [q \in Parties |-> wallet[q] +
             Both(Both(PayOut(w, SplitOf(base, terms)), extra),
                  Pay("creator", IF Completes THEN escrow_lamports - base ELSE 0))[q]]
  BY SettlementEffect
<1> DEFINE rest == IF Completes THEN escrow_lamports - base ELSE 0
           f == Both(Both(PayOut(w, SplitOf(base, terms)), extra), Pay("creator", rest))
<1>2. rest \in Int /\ escrow_lamports \in Nat /\ "creator" \in Parties
  BY DEF TypeOK, Parties, Others
<1>3. /\ PayOut(w, SplitOf(base, terms)) \in Payments
      /\ Pay("creator", rest) \in Payments
  BY <1>2, PayOutType, PayType
<1>4. f \in Payments
  BY <1>3, BothType
<1>5. Worth(f) = (base + Worth(extra)) + rest
  <2> DEFINE share == PayOut(w, SplitOf(base, terms))
  <2>1. Worth(share) = base /\ Worth(Pay("creator", rest)) = rest
    BY <1>2, WorthOfPayOut, WorthOfPay
  <2>2. share \in Payments
    BY <1>3
  <2> HIDE DEF share
  <2>3. Both(share, extra) \in Payments
    BY <2>2, BothType
  <2>4. Worth(Both(share, extra)) = base + Worth(extra)
    BY <2>1, <2>2, WorthOfBoth
  <2>5. Worth(Both(Both(share, extra), Pay("creator", rest)))
          = Worth(Both(share, extra)) + Worth(Pay("creator", rest))
    BY <1>3, <2>3, WorthOfBoth
  <2> QED
    BY <2>1, <2>4, <2>5 DEF share
<1>6. Receive(f)
  BY <1>1 DEF Receive
<1>7. Worth(extra) \in Int
  BY WorthType
<1> HIDE DEF f
<1>8. Worth(f) = (escrow_lamports - escrow_lamports') + Worth(extra)
  BY <1>1, <1>2, <1>5, <1>7
<1> QED
  BY <1>4, <1>6, <1>8

\* A settlement that gives the bonds and the entry deposit back to someone.
LEMMA SettlementConserves ==
  ASSUME TypeOK, TypeOK',
         NEW w \in Workers, NEW terms \in Quantities, NEW extra \in Payments,
         ExecuteCompletionRewards(w, terms, extra),
         Worth(extra) = (BondsHeld - BondsHeld') + (DepositsHeld - DepositsHeld')
  PROVE  Lamports' = Lamports
<1>1. PICK f \in Payments :
        /\ Receive(f)
        /\ Worth(f) = (escrow_lamports - escrow_lamports') + Worth(extra)
  BY SettlementPays
<1>2. Worth(f) = (escrow_lamports - escrow_lamports') + (BondsHeld - BondsHeld')
                   + (DepositsHeld - DepositsHeld')
  <2>1. /\ BondsHeld \in Int /\ DepositsHeld \in Int /\ escrow_lamports \in Int
        /\ BondsHeld' \in Int /\ DepositsHeld' \in Int /\ escrow_lamports' \in Int
    BY HoldingsType, HoldingsTypeNext
  <2> QED
    BY <1>1, <2>1
<1> QED
  BY <1>1, <1>2, PaidFromAccounts

\* Closing a claim gives both bonds and the deposit away, whoever gets them.
LEMMA EverythingReturned ==
  ASSUME TypeOK, NEW w \in Workers, CloseClaim(w), ReleaseBonds(w),
         NEW a \in Payments, NEW b \in Payments, NEW c \in Payments,
         Worth(a) = BondOf("creator"), Worth(b) = BondOf(w), Worth(c) = DepositOf(w)
  PROVE  /\ Both(Both(a, b), c) \in Payments
         /\ Both(Both(b, a), c) \in Payments
         /\ Worth(Both(Both(a, b), c))
              = (BondsHeld - BondsHeld') + (DepositsHeld - DepositsHeld')
         /\ Worth(Both(Both(b, a), c)) = Worth(Both(Both(a, b), c))
<1>1. /\ Both(a, b) \in Payments /\ Both(b, a) \in Payments
      /\ Both(Both(a, b), c) \in Payments /\ Both(Both(b, a), c) \in Payments
  BY BothType
<1>2. /\ BondsHeld' = BondsHeld - BondOf("creator") - BondOf(w)
      /\ DepositsHeld' = DepositsHeld - DepositOf(w)
  BY BondsClosed, DepositReturned
<1>3. /\ BondsHeld \in Nat /\ DepositsHeld \in Nat /\ BondOf("creator") \in Nat
      /\ BondOf(w) \in Nat /\ DepositOf(w) \in Nat
  <2>1. "creator" \in Parties /\ w \in Parties
    BY DEF Parties, Others
  <2> QED
    BY <2>1, HoldingsType, WorthOfBonds
<1>4. /\ Worth(Both(Both(a, b), c)) = (BondOf("creator") + BondOf(w)) + DepositOf(w)
      /\ Worth(Both(Both(b, a), c)) = (BondOf(w) + BondOf("creator")) + DepositOf(w)
  BY <1>1, WorthOfBoth
<1> QED
  BY <1>1, <1>2, <1>3, <1>4

LEMMA AcceptConserved ==
  ASSUME TypeOK, TypeOK', NEW w \in Workers,
         NEW terms \in Quantities, AcceptSubmission(w, terms)
  PROVE  Lamports' = Lamports
<1> DEFINE extra == Both(RefundBonds(w), Deposit(w, w))
<1>1. "creator" \in Parties /\ w \in Parties
  BY DEF Parties, Others
<1>2. /\ extra \in Payments
      /\ Worth(extra) = (BondsHeld - BondsHeld') + (DepositsHeld - DepositsHeld')
  BY <1>1, BondPaymentsType, WorthOfBonds, EverythingReturned
     DEF AcceptSubmission, RefundBonds
<1>3. ExecuteCompletionRewards(w, terms, extra)
  BY DEF AcceptSubmission
<1> QED
  BY <1>2, <1>3, SettlementConserves

LEMMA CompleteConserved ==
  ASSUME TypeOK, TypeOK', NEW w \in Workers,
         NEW terms \in Quantities, CompleteTask(w, terms)
  PROVE  Lamports' = Lamports
<1> DEFINE extra == Both(RefundBonds(w), Deposit(w, w))
<1>1. "creator" \in Parties /\ w \in Parties
  BY DEF Parties, Others
<1>2. /\ extra \in Payments
      /\ Worth(extra) = (BondsHeld - BondsHeld') + (DepositsHeld - DepositsHeld')
  BY <1>1, BondPaymentsType, WorthOfBonds, EverythingReturned
     DEF CompleteTask, RefundBonds
<1>3. ExecuteCompletionRewards(w, terms, extra)
  BY DEF CompleteTask
<1> QED
  BY <1>2, <1>3, SettlementConserves

LEMMA ExpireFrozenConserved ==
  ASSUME TypeOK, TypeOK', NEW w \in Workers,
         NEW terms \in Quantities, ExpireRejectFrozen(w, terms)
  PROVE  Lamports' = Lamports
<1> DEFINE extra == Both(RefundBonds(w), Deposit(w, w))
<1>1. "creator" \in Parties /\ w \in Parties
  BY DEF Parties, Others
<1>2. /\ extra \in Payments
      /\ Worth(extra) = (BondsHeld - BondsHeld') + (DepositsHeld - DepositsHeld')
  BY <1>1, BondPaymentsType, WorthOfBonds, EverythingReturned
     DEF ExpireRejectFrozen, RefundBonds
<1>3. ExecuteCompletionRewards(w, terms, extra)
  BY DEF ExpireRejectFrozen
<1> QED
  BY <1>2, <1>3, SettlementConserves

\* Here the creator's bond is forfeited, which is worth the same.
LEMMA ResolveForWorkerConserved ==
  ASSUME TypeOK, TypeOK', NEW w \in Workers,
         NEW terms \in Quantities, ResolveFrozenForWorker(w, terms)
  PROVE  Lamports' = Lamports
<1> DEFINE extra == Both(Both(Refund(w), Forfeit("creator", "treasury")), Deposit(w, w))
<1>1. "creator" \in Parties /\ "treasury" \in Parties /\ w \in Parties
  BY DEF Parties, Others
<1>2. /\ Forfeit("creator", "treasury") \in Payments
      /\ Refund(w) \in Payments /\ Deposit(w, w) \in Payments
      /\ Worth(Forfeit("creator", "treasury")) = BondOf("creator")
      /\ Worth(Refund(w)) = BondOf(w) /\ Worth(Deposit(w, w)) = DepositOf(w)
  BY <1>1, BondPaymentsType, WorthOfBonds
<1>3. /\ extra \in Payments
      /\ Worth(extra) = (BondsHeld - BondsHeld') + (DepositsHeld - DepositsHeld')
  BY <1>2, EverythingReturned DEF ResolveFrozenForWorker
<1>4. ExecuteCompletionRewards(w, terms, extra)
  BY DEF ResolveFrozenForWorker
<1> QED
  BY <1>3, <1>4, SettlementConserves

LEMMA ResolveForCreatorConserved ==
  ASSUME TypeOK, TypeOK', NEW w \in Workers,
         ResolveFrozenForCreator(w)
  PROVE  Lamports' = Lamports
<1> DEFINE a == Both(Refund("creator"), Forfeit(w, "treasury"))
           b == Both(Pay("creator", escrow_lamports), Deposit(w, w))
<1>1. "creator" \in Parties /\ "treasury" \in Parties /\ w \in Parties
  BY DEF Parties, Others
<1>2. escrow_lamports \in Int
  BY DEF TypeOK
<1>3. /\ Refund("creator") \in Payments /\ Forfeit(w, "treasury") \in Payments
      /\ Pay("creator", escrow_lamports) \in Payments /\ Deposit(w, w) \in Payments
  BY <1>2, BondPaymentsType, PayType
<1>4. a \in Payments /\ b \in Payments /\ Both(a, b) \in Payments
  BY <1>3, BothType
<1>5. /\ Worth(a) = BondOf("creator") + BondOf(w)
      /\ Worth(b) = escrow_lamports + DepositOf(w)
  BY <1>1, <1>2, <1>3, WorthOfBoth, WorthOfBonds, WorthOfPay
<1>6. Worth(Both(a, b)) = (BondOf("creator") + BondOf(w)) + (escrow_lamports + DepositOf(w))
  BY <1>4, <1>5, WorthOfBoth
<1>7. /\ BondsHeld' = BondsHeld - BondOf("creator") - BondOf(w)
      /\ DepositsHeld' = DepositsHeld - DepositOf(w)
      /\ escrow_lamports' = 0
  BY BondsClosed, DepositReturned DEF ResolveFrozenForCreator
<1>8. /\ BondsHeld \in Nat /\ DepositsHeld \in Nat /\ BondOf("creator") \in Nat
      /\ BondOf(w) \in Nat /\ DepositOf(w) \in Nat
  BY <1>1, HoldingsType, WorthOfBonds
<1>9. Receive(Both(a, b))
  BY DEF ResolveFrozenForCreator
<1> HIDE DEF a, b
<1> QED
  BY <1>2, <1>4, <1>6, <1>7, <1>8, <1>9, PaidFromAccounts

\* A dismissed worker gets its own bond and deposit back.
LEMMA DismissalConserved ==
  ASSUME TypeOK, TypeOK', NEW w \in Workers,
         CloseClaim(w), Receive(DismissalPay(w)), bonds' = bonds \ {w},
         UNCHANGED escrow_lamports
  PROVE  Lamports' = Lamports
<1>1. w \in Parties
  BY DEF Parties
<1>2. Refund(w) \in Payments /\ Deposit(w, w) \in Payments
  BY BondPaymentsType
<1>3. DismissalPay(w) \in Payments
  BY <1>2, BothType DEF DismissalPay
<1>4. Worth(DismissalPay(w)) = BondOf(w) + DepositOf(w)
  BY <1>1, <1>2, WorthOfBoth, WorthOfBonds DEF DismissalPay
<1>5. /\ BondsHeld' = BondsHeld - BondOf(w)
      /\ DepositsHeld' = DepositsHeld - DepositOf(w)
  BY BondClosed, DepositReturned
<1>6. /\ BondsHeld \in Nat /\ DepositsHeld \in Nat /\ escrow_lamports \in Nat
      /\ BondOf(w) \in Nat /\ DepositOf(w) \in Nat
  BY <1>1, HoldingsType, WorthOfBonds
<1> QED
  BY <1>3, <1>4, <1>5, <1>6, PaidFromAccounts

\* A ghost share leaves the bonds alone: a contest has none.
LEMMA GhostShareConserved ==
  ASSUME TypeOK, TypeOK', NEW w \in Workers,
         NEW terms \in Quantities, DistributeGhostShare(w, terms)
  PROVE  Lamports' = Lamports
<1> DEFINE last == live_submissions = 1
<1>1. PICK slice \in Nat :
        /\ escrow_lamports' = IF last THEN 0 ELSE escrow_lamports - slice
        /\ wallet' = [q \in Parties |-> wallet[q] +
             Both(Both(PayOut(w, SplitOf(slice, terms)), Deposit(w, w)),
                  Pay("creator", IF last THEN escrow_lamports - slice ELSE 0))[q]]
  BY GhostShareEffect
<1> DEFINE share == PayOut(w, SplitOf(slice, terms))
           rest == IF last THEN escrow_lamports - slice ELSE 0
           f == Both(Both(share, Deposit(w, w)), Pay("creator", rest))
<1>2. rest \in Int /\ escrow_lamports \in Nat /\ "creator" \in Parties /\ w \in Parties
  BY DEF TypeOK, Parties, Others
<1>3. /\ share \in Payments /\ Deposit(w, w) \in Payments
      /\ Pay("creator", rest) \in Payments
  BY <1>2, PayOutType, BondPaymentsType, PayType
<1>4. /\ Worth(share) = slice /\ Worth(Deposit(w, w)) = DepositOf(w)
      /\ Worth(Pay("creator", rest)) = rest /\ DepositOf(w) \in Nat
  BY <1>2, WorthOfPayOut, WorthOfBonds, WorthOfPay
<1>5. Receive(f)
  BY <1>1 DEF Receive
<1> HIDE DEF share
<1>6. Both(share, Deposit(w, w)) \in Payments /\ f \in Payments
  BY <1>3, BothType
<1>7. Worth(f) = (slice + DepositOf(w)) + rest
  <2>1. Worth(Both(share, Deposit(w, w))) = slice + DepositOf(w)
    BY <1>3, <1>4, WorthOfBoth
  <2>2. Worth(f) = Worth(Both(share, Deposit(w, w))) + Worth(Pay("creator", rest))
    BY <1>3, <1>6, WorthOfBoth
  <2> QED
    BY <1>4, <2>1, <2>2
<1>8. DepositsHeld' = DepositsHeld - DepositOf(w) /\ BondsHeld' = BondsHeld
  BY DepositReturned DEF DistributeGhostShare, BondsHeld
<1>9. BondsHeld \in Nat /\ DepositsHeld \in Nat
  BY HoldingsType
<1> HIDE DEF f
<1>10. Worth(f) = (escrow_lamports - escrow_lamports') + (BondsHeld - BondsHeld')
                    + (DepositsHeld - DepositsHeld')
  BY <1>1, <1>2, <1>4, <1>7, <1>8, <1>9
<1> QED
  BY <1>5, <1>6, <1>10, PaidFromAccounts

\* The swept deposits are paid out, to the treasury or to those who left them.
LEMMA WorthOfSwept ==
  ASSUME TypeOK, NEW swept \in SUBSET Workers, deposited' = deposited \ swept
  PROVE  /\ Worth(SweptDeposits(swept)) = EntryDeposit * Cardinality(swept \cap deposited)
         /\ DepositsHeld' = DepositsHeld - EntryDeposit * Cardinality(swept \cap deposited)
<1> DEFINE k == Cardinality(swept \cap deposited)
<1>1. k \in Nat /\ EntryDeposit \in Nat /\ EntryDeposit * k \in Int
  BY SweptType, AmountsAssumption, ProductType
<1>2. Worth(SweptDeposits(swept)) = EntryDeposit * k
  <2>1. CASE ContestConfigured
    <3>1. "treasury" \in Parties
      BY DEF Parties, Others
    <3> QED
      BY <1>1, <2>1, <3>1, WorthOfPay DEF SweptDeposits
  <2>2. CASE ~ContestConfigured
    <3>1. swept \cap deposited \in SUBSET Parties
      BY DEF Parties
    <3>2. SumFunctionOnSet([q \in Parties |->
            IF q \in swept \cap deposited THEN EntryDeposit ELSE 0], Parties)
            = EntryDeposit * k
      BY <1>1, <3>1, PartiesFinite, SumOfShares
    <3> QED
      BY <2>2, <3>2 DEF SweptDeposits, Worth
  <2> QED
    BY <2>1, <2>2
<1>3. DepositsHeld' = DepositsHeld - EntryDeposit * k
  <2> DEFINE n == Cardinality(deposited)
  <2>1. IsFiniteSet(deposited) /\ n \in Nat
    <3>1. deposited \in SUBSET Parties
      BY DEF TypeOK, Parties
    <3> QED
      BY <3>1, PartOfParties
  <2>2. Cardinality(deposited \ swept) = n - k
    <3>1. deposited \cap swept = swept \cap deposited
      OBVIOUS
    <3>2. Cardinality(deposited \ swept) = n - Cardinality(deposited \cap swept)
      BY <2>1, FS_Difference
    <3> QED
      BY <3>1, <3>2
  <2>3. DepositsHeld' = EntryDeposit * (n - k) /\ DepositsHeld = EntryDeposit * n
    BY <2>2 DEF DepositsHeld
  <2> HIDE DEF n, k
  <2>4. EntryDeposit * (n - k) = EntryDeposit * n - EntryDeposit * k
    BY <1>1, <2>1
  <2> QED
    BY <2>3, <2>4
<1> QED
  BY <1>2, <1>3

LEMMA CancelConserved ==
  ASSUME TypeOK, TypeOK', CancelTask
  PROVE  Lamports' = Lamports
<1> DEFINE noShow == status = "InProgress" /\ current_workers > 0
<1>1. PICK swept \in SUBSET claims, bonded \in Workers :
        /\ deposited' = deposited \ swept
        /\ bonds' = bonds \ {"creator", bonded}
        /\ Receive(Both(
             Both(Pay("creator", escrow_lamports), Refund("creator")),
             Both(IF noShow THEN Forfeit(bonded, "creator") ELSE Refund(bonded),
                  SweptDeposits(swept))))
  BY DEF CancelTask
<1> DEFINE a == Both(Pay("creator", escrow_lamports), Refund("creator"))
           c == IF noShow THEN Forfeit(bonded, "creator") ELSE Refund(bonded)
           d == SweptDeposits(swept)
           swept_worth == EntryDeposit * Cardinality(swept \cap deposited)
<1>2. "creator" \in Parties /\ bonded \in Parties /\ escrow_lamports \in Nat
      /\ swept \in SUBSET Workers
  BY DEF TypeOK, Parties, Others
<1>3. /\ Pay("creator", escrow_lamports) \in Payments /\ Refund("creator") \in Payments
      /\ a \in Payments /\ c \in Payments /\ d \in Payments
      /\ Both(c, d) \in Payments /\ Both(a, Both(c, d)) \in Payments
  BY <1>2, PayType, BondPaymentsType, SweptDepositsType, BothType
<1>4. /\ Worth(a) = escrow_lamports + BondOf("creator")
      /\ Worth(c) = BondOf(bonded)
      /\ BondOf("creator") \in Nat /\ BondOf(bonded) \in Nat
  BY <1>2, <1>3, WorthOfPay, WorthOfBonds, WorthOfBoth
<1>5. /\ Worth(d) = swept_worth
      /\ DepositsHeld' = DepositsHeld - swept_worth
  BY <1>1, <1>2, WorthOfSwept
<1>6. swept_worth \in Nat
  <2>1. swept \cap deposited \in SUBSET Parties
    BY <1>2 DEF Parties
  <2> QED
    BY <2>1, PartOfParties
<1>7. BondsHeld' = BondsHeld - BondOf("creator") - BondOf(bonded)
  BY <1>1, BondsClosed DEF ReleaseBonds
<1>8. BondsHeld \in Nat /\ DepositsHeld \in Nat
  BY HoldingsType
<1>9. escrow_lamports' = 0
  BY DEF CancelTask
<1>10. Receive(Both(a, Both(c, d)))
  BY <1>1
<1> HIDE DEF a, c, d, swept_worth
<1>11. Worth(Both(a, Both(c, d)))
         = (escrow_lamports + BondOf("creator")) + (BondOf(bonded) + swept_worth)
  BY <1>3, <1>4, <1>5, WorthOfBoth
<1>12. Worth(Both(a, Both(c, d))) = (escrow_lamports - escrow_lamports')
         + (BondsHeld - BondsHeld') + (DepositsHeld - DepositsHeld')
  BY <1>2, <1>4, <1>5, <1>6, <1>7, <1>8, <1>9, <1>11
<1> QED
  BY <1>3, <1>10, <1>12, PaidFromAccounts

LEMMA ExpireClaimConserved ==
  ASSUME TypeOK, TypeOK', NEW w \in Workers,
         NEW caller \in {w, "cranker"}, ExpireClaim(w, caller)
  PROVE  Lamports' = Lamports
<1> DEFINE a == Pay(caller, CleanupPaid)
           b == IF BondLost(w) THEN Forfeit(w, "creator") ELSE NoPay
           c == Deposit(w, IF ContestConfigured THEN "treasury" ELSE w)
           lost == IF BondLost(w) THEN BondOf(w) ELSE 0
<1>1. /\ CleanupPaid \in Nat
      /\ escrow_lamports' = escrow_lamports - CleanupPaid
  BY CleanupType DEF ExpireClaim
<1>2. /\ w \in Parties /\ caller \in Parties
      /\ "creator" \in Parties /\ "treasury" \in Parties
  BY DEF Parties, Others
<1>3. /\ a \in Payments /\ b \in Payments /\ c \in Payments
      /\ Both(b, c) \in Payments /\ Both(a, Both(b, c)) \in Payments
  BY <1>1, PayType, BondPaymentsType, NoPayType, BothType
<1>4. /\ Worth(a) = CleanupPaid /\ Worth(b) = lost /\ Worth(c) = DepositOf(w)
      /\ lost \in Nat /\ DepositOf(w) \in Nat
  BY <1>1, <1>2, WorthOfPay, WorthOfBonds, WorthOfNothing
<1>5. BondsHeld' = BondsHeld - lost
  <2>1. CASE BondLost(w)
    BY <2>1, BondClosed DEF ExpireClaim
  <2>2. CASE ~BondLost(w)
    <3>1. bonds' = bonds
      BY <2>2 DEF ExpireClaim
    <3>2. BondsHeld' = BondsHeld /\ BondsHeld \in Nat
      BY <3>1, HoldingsType DEF BondsHeld
    <3> QED
      BY <2>2, <3>2
  <2> QED
    BY <2>1, <2>2
<1>6. DepositsHeld' = DepositsHeld - DepositOf(w)
  BY DepositReturned DEF ExpireClaim
<1>7. BondsHeld \in Nat /\ DepositsHeld \in Nat /\ escrow_lamports \in Nat
  BY HoldingsType
<1>8. Receive(Both(a, Both(b, c)))
  BY DEF ExpireClaim
<1> HIDE DEF a, b, c, lost
<1>9. Worth(Both(a, Both(b, c))) = CleanupPaid + (lost + DepositOf(w))
  BY <1>3, <1>4, WorthOfBoth
<1>10. Worth(Both(a, Both(b, c))) = (escrow_lamports - escrow_lamports')
         + (BondsHeld - BondsHeld') + (DepositsHeld - DepositsHeld')
  BY <1>1, <1>4, <1>5, <1>6, <1>7, <1>9
<1> QED
  BY <1>3, <1>8, <1>10, PaidFromAccounts

LEMMA ReclaimConserved ==
  ASSUME TypeOK, TypeOK', NEW w \in Workers,
         ReclaimTerminalClaim(w)
  PROVE  Lamports' = Lamports
<1> DEFINE f == Deposit(w, IF submission[w] = "Submitted" THEN w ELSE "treasury")
<1>1. w \in Parties /\ "treasury" \in Parties
  BY DEF Parties, Others
<1>2. f \in Payments /\ Worth(f) = DepositOf(w) /\ DepositOf(w) \in Nat
  BY <1>1, BondPaymentsType, WorthOfBonds
<1>3. /\ DepositsHeld' = DepositsHeld - DepositOf(w)
      /\ BondsHeld' = BondsHeld /\ escrow_lamports' = escrow_lamports
  BY DepositReturned DEF ReclaimTerminalClaim, BondsHeld, escrowVars
<1>4. BondsHeld \in Nat /\ DepositsHeld \in Nat /\ escrow_lamports \in Nat
  BY HoldingsType
<1>5. Receive(f)
  BY DEF ReclaimTerminalClaim
<1> HIDE DEF f
<1> QED
  BY <1>2, <1>3, <1>4, <1>5, PaidFromAccounts

\* One account more.
LEMMA OneMore ==
  ASSUME NEW amount \in Nat, NEW S \in SUBSET Parties, NEW x \in Parties, x \notin S
  PROVE  amount * Cardinality(S \cup {x}) = amount * Cardinality(S) + amount
<1> DEFINE k == Cardinality(S)
<1>1. IsFiniteSet(S) /\ k \in Nat
  BY PartOfParties
<1>2. Cardinality(S \cup {x}) = k + 1
  BY <1>1, FS_AddElement
<1>3. amount * (k + 1) = amount * k + amount
  <2> HIDE DEF k
  <2> QED BY <1>1
<1> QED
  BY <1>2, <1>3

LEMMA ClaimTaskConserved ==
  ASSUME TypeOK, TypeOK', NEW w \in Workers, ClaimTask(w)
  PROVE  Lamports' = Lamports
<1> DEFINE left == IF ContestConfigured THEN EntryDeposit ELSE 0
           f == Pay(w, IF ContestConfigured THEN -EntryDeposit ELSE 0)
<1>1. w \in Parties /\ EntryDeposit \in Nat /\ left \in Nat
  BY AmountsAssumption DEF Parties
<1>2. f \in Payments /\ Worth(f) = IF ContestConfigured THEN -EntryDeposit ELSE 0
  BY <1>1, PayType, WorthOfPay
<1>3. BondsHeld \in Nat /\ DepositsHeld \in Nat /\ escrow_lamports \in Nat
  BY HoldingsType
<1>4. DepositsHeld' = DepositsHeld + left
  <2>1. w \notin deposited /\ deposited \in SUBSET Parties
    BY DEF ClaimTask, TypeOK, Parties
  <2>2. CASE ContestConfigured
    <3>1. deposited' = deposited \cup {w}
      BY <2>2 DEF ClaimTask
    <3> QED
      BY <1>1, <2>1, <2>2, <3>1, OneMore DEF DepositsHeld
  <2>3. CASE ~ContestConfigured
    <3>1. deposited' = deposited
      BY <2>3 DEF ClaimTask
    <3> QED
      BY <1>3, <2>3, <3>1 DEF DepositsHeld
  <2> QED
    BY <2>2, <2>3
<1>5. BondsHeld' = BondsHeld /\ escrow_lamports' = escrow_lamports
  BY DEF ClaimTask, BondsHeld, escrowVars
<1>6. Receive(f)
  BY DEF ClaimTask
<1> HIDE DEF f
<1> QED
  BY <1>1, <1>2, <1>3, <1>4, <1>5, <1>6, PaidFromAccounts

LEMMA PostBondConserved ==
  ASSUME TypeOK, TypeOK', NEW p \in Workers \cup {"creator"},
         PostBond(p)
  PROVE  Lamports' = Lamports
<1> DEFINE f == Pay(p, -BondAmount)
<1>1. p \in Parties /\ BondAmount \in Nat
  BY AmountsAssumption DEF Parties, Others
<1>2. f \in Payments /\ Worth(f) = -BondAmount
  BY <1>1, PayType, WorthOfPay
<1>3. BondsHeld' = BondsHeld + BondAmount
  <2>1. bonds \in SUBSET Parties /\ p \notin bonds /\ bonds' = bonds \cup {p}
    BY DEF TypeOK, PostBond, Parties, Others
  <2> QED
    BY <1>1, <2>1, OneMore DEF BondsHeld
<1>4. DepositsHeld' = DepositsHeld /\ escrow_lamports' = escrow_lamports
  BY DEF PostBond, DepositsHeld, claimVars, escrowVars
<1>5. BondsHeld \in Nat /\ DepositsHeld \in Nat /\ escrow_lamports \in Nat
  BY HoldingsType
<1>6. Receive(f)
  BY DEF PostBond
<1> HIDE DEF f
<1> QED
  BY <1>1, <1>2, <1>3, <1>4, <1>5, <1>6, PaidFromAccounts

LEMMA CreatorStepConserved ==
  ASSUME TypeOK, TypeOK', CreatorStep
  PROVE  Lamports' = Lamports
<1>1. ASSUME NEW m \in ManualModes, ConfigureTaskValidation(m) PROVE Lamports' = Lamports
  BY <1>1, NothingPaid DEF ConfigureTaskValidation, claimVars, escrowVars
<1>2. CASE CancelTask
  BY <1>2, CancelConserved
<1>3. CASE PostCreatorBond
  BY <1>3, PostBondConserved DEF PostCreatorBond
<1>4. ASSUME NEW sweepConfig \in BOOLEAN, NEW swept \in SUBSET Workers,
             CloseTask(sweepConfig, swept)
      PROVE  Lamports' = Lamports
  BY <1>4, NothingPaid DEF CloseTask, claimVars, escrowVars
<1> QED
  BY <1>1, <1>2, <1>3, <1>4 DEF CreatorStep

LEMMA ReviewStepConserved ==
  ASSUME TypeOK, TypeOK', NEW w \in Workers, ReviewStep(w)
  PROVE  Lamports' = Lamports
<1>1. ASSUME NEW terms \in Terms, AcceptTaskResult(w, terms) PROVE Lamports' = Lamports
  BY <1>1, TermsType, AcceptConserved DEF AcceptTaskResult
<1>2. ASSUME NEW terms \in Terms, ValidateTaskResult(w, terms) PROVE Lamports' = Lamports
  BY <1>2, TermsType, AcceptConserved DEF ValidateTaskResult
<1>3. ASSUME NEW terms \in Terms, ResolveFrozenForWorker(w, terms)
      PROVE  Lamports' = Lamports
  BY <1>3, TermsType, ResolveForWorkerConserved
<1>4. CASE RejectTaskResult(w)
  BY <1>4, DismissalConserved DEF RejectTaskResult, escrowVars
<1>5. CASE RefuseTaskResult(w)
  BY <1>5, DismissalConserved DEF RefuseTaskResult, escrowVars
<1>6. CASE RequestChanges(w)
  BY <1>6, NothingPaid DEF RequestChanges, escrowVars
<1>7. CASE RejectAndFreeze(w)
  BY <1>7, NothingPaid DEF RejectAndFreeze, claimVars, escrowVars
<1> QED
  BY <1>1, <1>2, <1>3, <1>4, <1>5, <1>6, <1>7, ResolveForCreatorConserved DEF ReviewStep

LEMMA WorkerStepConserved ==
  ASSUME TypeOK, TypeOK', NEW w \in Workers, WorkerStep(w)
  PROVE  Lamports' = Lamports
<1>1. ASSUME NEW terms \in Terms, CompleteTask(w, terms) PROVE Lamports' = Lamports
  BY <1>1, TermsType, CompleteConserved
<1>2. CASE PostWorkerBond(w)
  BY <1>2, PostBondConserved DEF PostWorkerBond
<1>3. CASE SubmitTaskResult(w)
  BY <1>3, NothingPaid DEF SubmitTaskResult, claimVars, escrowVars
<1>4. CASE ExpireClaim(w, w)
  BY <1>4, ExpireClaimConserved
<1> QED
  BY <1>1, <1>2, <1>3, <1>4, ClaimTaskConserved DEF WorkerStep

LEMMA CrankConserved ==
  ASSUME TypeOK, TypeOK', NEW w \in Workers, Crank(w)
  PROVE  Lamports' = Lamports
<1>1. ASSUME NEW terms \in Terms, AutoAcceptTaskResult(w, terms)
      PROVE  Lamports' = Lamports
  BY <1>1, TermsType, AcceptConserved DEF AutoAcceptTaskResult
<1>2. ASSUME NEW terms \in Terms, DistributeGhostShare(w, terms)
      PROVE  Lamports' = Lamports
  BY <1>2, TermsType, GhostShareConserved
<1>3. ASSUME NEW terms \in Terms, ExpireRejectFrozen(w, terms) PROVE Lamports' = Lamports
  BY <1>3, TermsType, ExpireFrozenConserved
<1>4. CASE ExpireClaim(w, "cranker")
  BY <1>4, ExpireClaimConserved
<1> QED
  BY <1>1, <1>2, <1>3, <1>4, ReclaimConserved DEF Crank

LEMMA StepConserved == TypeOK /\ [Next]_vars => Lamports' = Lamports
<1> SUFFICES ASSUME TypeOK, [Next]_vars PROVE Lamports' = Lamports
  OBVIOUS
<1>1. TypeOK'
  BY StepType
<1>2. CASE UNCHANGED vars
  BY <1>2, NothingPaid DEF vars, claimVars, escrowVars
<1>3. CASE Tick
  BY <1>3, NothingPaid DEF Tick, claimVars, escrowVars
<1>4. CASE CreatorStep
  BY <1>1, <1>4, CreatorStepConserved
<1>5. ASSUME NEW w \in Workers, ReviewStep(w) \/ WorkerStep(w) \/ Crank(w)
      PROVE  Lamports' = Lamports
  BY <1>1, <1>5, ReviewStepConserved, WorkerStepConserved, CrankConserved
<1> QED
  BY <1>2, <1>3, <1>4, <1>5 DEF Next

(***************************************************************************)
(* No instruction creates or loses a lamport, whatever the fee terms, the  *)
(* rounding of the split, the number of workers or the order of the cranks:*)
(* the escrow, the bonds and the entry deposits hold exactly what the      *)
(* parties have put in and not got back.                                   *)
(***************************************************************************)
THEOREM LamportsAlwaysConserved == Spec => []LamportsConserved
<1>1. Init => LamportsConserved
  BY InitConserved DEF Lamports, LamportsConserved, BondsHeld, DepositsHeld
<1>2. TypeOK /\ LamportsConserved /\ [Next]_vars => LamportsConserved'
  BY StepConserved DEF Lamports, LamportsConserved, BondsHeld, DepositsHeld
<1> QED
  BY TypeCorrect, <1>1, <1>2, PTL DEF Spec

=============================================================================
