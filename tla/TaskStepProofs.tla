---------------------------- MODULE TaskStepProofs ----------------------------
(***************************************************************************)
(* What a step may never do: the action properties about submitted         *)
(* results, silent creators, bonds, review windows and marketplace legs,   *)
(* from the inductive invariant, and that every step keeps the abstract    *)
(* promise.  The terms a task was taken on (its windows and its legs) need *)
(* an invariant each, Windows and LegTerms, next to IInv.                  *)
(***************************************************************************)
EXTENDS TaskInvariantProofs

\* A contest is never attested: its only manual mode is the creator's review.
LEMMA ContestMode ==
  ASSUME IInv, Contest, IsManual
  PROVE  mode = "CreatorReview"
BY TaskAssumption DEF IInv, Auxiliary, Contest, IsManual, Manual

-----------------------------------------------------------------------------
(***************************************************************************)
(* Submitted work leaves review by payment, by a verdict the review mode   *)
(* grants, or because the Collaborative slots were filled by others.       *)
(***************************************************************************)
Judged(w) ==
  \/ status = "PendingValidation" /\ (Contest => now < GhostAt)
  \/ status = "Completed" /\ TaskType = "Collaborative"

WorkIsJudged ==
  \A w \in Workers :
    w \in Submitted /\ w \notin Submitted' /\ tasks_completed'[w] = tasks_completed[w]
      => Judged(w)

\* A step that changes one worker's submission has to answer for that one.
LEMMA OneSubmission ==
  ASSUME TypeOK, NEW v \in Workers, NEW x, submission' = [submission EXCEPT ![v] = x],
         v \in Submitted => tasks_completed'[v] # tasks_completed[v] \/ Judged(v)
  PROVE  WorkIsJudged
BY DEF TypeOK, Submitted, WorkIsJudged

LEMMA NoSubmission ==
  ASSUME submission' = submission
  PROVE  WorkIsJudged
BY DEF Submitted, WorkIsJudged

LEMMA PaidIsJudged ==
  ASSUME TypeOK, NEW v \in Workers, NEW terms, NEW extra,
         ExecuteCompletionRewards(v, terms, extra), CloseSubmission(v)
  PROVE  WorkIsJudged
<1>1. tasks_completed'[v] # tasks_completed[v]
  BY DEF ExecuteCompletionRewards, TypeOK
<1> QED
  BY <1>1, OneSubmission DEF CloseSubmission

LEMMA ReviewStepJudged ==
  ASSUME IInv, NEW v \in Workers, ReviewStep(v)
  PROVE  WorkIsJudged
<1> USE DEF IInv
<1>1. ASSUME NEW terms, AcceptSubmission(v, terms) PROVE WorkIsJudged
  BY <1>1, PaidIsJudged DEF AcceptSubmission
<1>2. ASSUME NEW terms \in Terms, ResolveFrozenForWorker(v, terms) PROVE WorkIsJudged
  BY <1>2, PaidIsJudged DEF ResolveFrozenForWorker
<1>3. CASE RejectTaskResult(v)
  BY <1>3, OneSubmission DEF RejectTaskResult, CloseSubmission, BeforeGhost, Judged
<1>4. CASE RequestChanges(v)
  BY <1>4, OneSubmission DEF RequestChanges, MarkRejected, Judged
<1>5. CASE RejectAndFreeze(v)
  BY <1>5, OneSubmission DEF RejectAndFreeze, MarkRejected, Judged, Contest
<1>6. CASE RefuseTaskResult(v)
  <2>1. ~Contest
    BY <1>6, ContestMode DEF RefuseTaskResult, IsManual, Manual
  <2> QED
    BY <1>6, <2>1, OneSubmission DEF RefuseTaskResult, MarkRejected, Judged
<1>7. CASE ResolveFrozenForCreator(v)
  <2>1. v \notin Submitted
    BY <1>7 DEF ResolveFrozenForCreator, StatusMatchesWork
  <2> QED
    BY <1>7, <2>1, OneSubmission DEF ResolveFrozenForCreator, CloseSubmission
<1> QED
  BY <1>1, <1>2, <1>3, <1>4, <1>5, <1>6, <1>7
     DEF ReviewStep, AcceptTaskResult, ValidateTaskResult

LEMMA WorkerStepJudged ==
  ASSUME IInv, NEW v \in Workers, WorkerStep(v)
  PROVE  WorkIsJudged
<1>1. CASE SubmitTaskResult(v)
  BY <1>1, OneSubmission DEF SubmitTaskResult, IInv, Submitted
<1>2. CASE submission' = submission
  BY <1>2, NoSubmission
<1> QED
  BY <1>1, <1>2
     DEF WorkerStep, ClaimTask, CompleteTask, PostWorkerBond, PostBond, ExpireClaim,
         submissionVars

LEMMA CrankJudged ==
  ASSUME IInv, NEW v \in Workers, Crank(v)
  PROVE  WorkIsJudged
<1> USE DEF IInv
<1>1. ASSUME NEW terms \in Terms, AutoAcceptTaskResult(v, terms) PROVE WorkIsJudged
  BY <1>1, PaidIsJudged DEF AutoAcceptTaskResult, AcceptSubmission
<1>2. ASSUME NEW terms \in Terms, DistributeGhostShare(v, terms) PROVE WorkIsJudged
  <2>1. tasks_completed'[v] # tasks_completed[v]
    BY <1>2 DEF DistributeGhostShare, TypeOK
  <2> QED
    BY <1>2, <2>1, OneSubmission DEF DistributeGhostShare, CloseSubmission
<1>3. ASSUME NEW terms \in Terms, ExpireRejectFrozen(v, terms) PROVE WorkIsJudged
  BY <1>3, PaidIsJudged DEF ExpireRejectFrozen
<1>4. CASE ExpireClaim(v, "cranker")
  BY <1>4, NoSubmission DEF ExpireClaim, submissionVars
<1>5. CASE ReclaimTerminalClaim(v)
  BY <1>5, OneSubmission
     DEF ReclaimTerminalClaim, CloseSubmission, StragglerReclaimable, Submitted, Judged
<1> QED
  BY <1>1, <1>2, <1>3, <1>4, <1>5 DEF Crank

LEMMA CreatorStepJudged ==
  ASSUME IInv, CreatorStep
  PROVE  WorkIsJudged
<1>1. ASSUME NEW sweepConfig \in BOOLEAN, NEW swept \in SUBSET Workers,
             CloseTask(sweepConfig, swept)
      PROVE  WorkIsJudged
  BY <1>1 DEF CloseTask, WorkIsJudged, Submitted
<1>2. CASE submission' = submission
  BY <1>2, NoSubmission
<1> QED
  BY <1>1, <1>2
     DEF CreatorStep, ConfigureTaskValidation, CancelTask, PostCreatorBond, PostBond,
         submissionVars

\* A submitted result leaves review only by payment, a granted verdict, or
\* because others filled the Collaborative slots: in particular nobody is
\* dismissed after a contest's ghost boundary.
THEOREM SubmittedWorkAlwaysJudged == Spec => SubmittedWorkIsJudged
<1>1. IInv /\ [Next]_vars => [WorkIsJudged]_vars
  <2> SUFFICES ASSUME IInv, Next PROVE WorkIsJudged
    OBVIOUS
  <2>1. CASE Tick
    BY <2>1, NoSubmission DEF Tick, submissionVars
  <2> QED
    BY <2>1, ReviewStepJudged, WorkerStepJudged, CrankJudged, CreatorStepJudged DEF Next
<1>2. SubmittedWorkIsJudged <=> [][WorkIsJudged]_vars
  BY DEF SubmittedWorkIsJudged, WorkIsJudged, Judged
<1> QED
  BY <1>1, <1>2, Invariant, PTL DEF Spec

-----------------------------------------------------------------------------
(***************************************************************************)
(* Past a contest's ghost boundary, with entries live, the creator gets    *)
(* nothing but the escrow's rent and the status stays or is Completed.     *)
(***************************************************************************)
AfterGhost == status = "PendingValidation" /\ Contest /\ now >= GhostAt

NoClawback ==
  /\ wallet'["creator"] <= wallet["creator"] + EscrowRent
  /\ status' \in {"PendingValidation", "Completed"}

LEMMA GhostState ==
  ASSUME IInv, AfterGhost
  PROVE  /\ mode = "CreatorReview" /\ IsManual /\ ContestConfigured
         /\ TaskType = "Competitive"
         /\ pending \in Nat \ {0}
         /\ escrow_lamports = EscrowRent + Reward - distributed
         /\ "creator" \in Parties /\ wallet["creator"] \in Int
         /\ \A w \in Workers : w # "creator" /\ w # "treasury"
<1>1. Submitted # {} /\ IsManual /\ TaskType = "Competitive"
  BY DEF IInv, AfterGhost, StatusMatchesWork, Contest
<1>2. mode = "CreatorReview" /\ ContestConfigured
  BY <1>1, ContestMode DEF ContestConfigured, Contest
<1>3. pending \in Nat \ {0}
  <2>1. Submitted \in SUBSET Workers /\ pending = Cardinality(Submitted)
    BY DEF Submitted, IInv, CountersAgree
  <2>2. IsFiniteSet(Submitted)
    BY <2>1, WorkersAssumption, FS_Subset
  <2> QED
    BY <1>1, <2>1, <2>2, FS_CardinalityType, FS_EmptySet
<1>4. escrow_lamports = EscrowRent + Reward - distributed
  BY DEF IInv, AfterGhost, EscrowBacked, Terminal
<1>5. "creator" \in Parties /\ wallet["creator"] \in Int
  BY DEF IInv, TypeOK, Parties, Others
<1>6. \A w \in Workers : w # "creator" /\ w # "treasury"
  BY WorkersAssumption DEF Others
<1> QED
  BY <1>1, <1>2, <1>3, <1>4, <1>5, <1>6

\* A slice is paid to the entrant and the fee payees; what the last one leaves
\* of the escrow is its rent.
LEMMA GhostShareKeepsPrize ==
  ASSUME IInv, AfterGhost, NEW w \in Workers, NEW terms \in Quantities,
         DistributeGhostShare(w, terms)
  PROVE  NoClawback
<1> DEFINE last == live_submissions = 1
<1>1. PICK slice \in Nat :
        /\ slice = GhostSlice(Reward - distributed, live_submissions)
        /\ wallet' = [q \in Parties |-> wallet[q] +
             Both(Both(PayOut(w, SplitOf(slice, terms)), Deposit(w, w)),
                  Pay("creator", IF last THEN escrow_lamports - slice ELSE 0))[q]]
  BY GhostShareEffect DEF IInv
<1>2. PayOut(w, SplitOf(slice, terms))["creator"] = 0 /\ Deposit(w, w)["creator"] = 0
  BY GhostState DEF PayOut, Both, Pay, Deposit
<1>3. wallet'["creator"] = wallet["creator"] + IF last THEN escrow_lamports - slice ELSE 0
  <2>1. (IF last THEN escrow_lamports - slice ELSE 0) \in Int
    BY DEF IInv, TypeOK
  <2> QED
    BY <1>1, <1>2, <2>1, GhostState DEF Both, Pay
<1>4. last => slice = Reward - distributed
  <2>1. distributed \in Nat /\ Reward - distributed \in Nat
    BY AmountsAssumption DEF IInv, TypeOK, DistributeGhostShare
  <2>2. \A n \in Nat : n \div 1 = n
    BY SMT
  <2> QED
    BY <1>1, <2>1, <2>2 DEF GhostSlice
<1>5. wallet'["creator"] <= wallet["creator"] + EscrowRent
  BY <1>3, <1>4, GhostState, AmountsAssumption DEF IInv, TypeOK
<1>6. status' \in {"PendingValidation", "Completed"}
  BY DEF DistributeGhostShare
<1> QED
  BY <1>5, <1>6 DEF NoClawback

\* An absent entrant's deposit goes to the treasury, its cleanup to the caller.
LEMMA ExpiryKeepsPrize ==
  ASSUME IInv, AfterGhost, NEW w \in Workers, NEW caller \in Workers \cup {"cranker"},
         ExpireClaim(w, caller)
  PROVE  NoClawback
<1>1. ~BondLost(w)
  BY GhostState DEF BondLost
<1>2. /\ Pay(caller, CleanupPaid)["creator"] = 0
      /\ NoPay["creator"] = 0 /\ Deposit(w, "treasury")["creator"] = 0
  BY GhostState DEF Pay, NoPay, Deposit
<1>3. wallet'["creator"] = wallet["creator"]
  BY <1>1, <1>2, GhostState DEF ExpireClaim, Receive, Both
<1>4. status' = "PendingValidation"
  BY GhostState DEF ExpireClaim, AfterGhost, SyncedStatus
<1> QED
  BY <1>3, <1>4, GhostState, AmountsAssumption DEF NoClawback

\* The steps that are possible at all past the boundary.
LEMMA GhostSteps ==
  ASSUME IInv, AfterGhost, Next
  PROVE  \/ UNCHANGED wallet /\ status' = status
         \/ \E w \in Workers : ClaimTask(w) \/ ExpireClaim(w, w) \/ ExpireClaim(w, "cranker")
         \/ \E w \in Workers, terms \in Terms : DistributeGhostShare(w, terms)
<1> USE GhostState DEF AfterGhost
<1>1. Tick => UNCHANGED wallet /\ status' = status
  BY DEF Tick
<1>2. ~CreatorStep
  BY DEF CreatorStep, ConfigureTaskValidation, Configurable, CancelTask, Cancellable,
         PostCreatorBond, PostBond, CloseTask, Terminal
<1>3. ASSUME NEW w \in Workers PROVE ~ReviewStep(w)
  <2>1. ~BeforeGhost
    BY TimesAssumption DEF BeforeGhost, GhostAt, IInv, TypeOK
  <2> QED
    BY <2>1
       DEF ReviewStep, AcceptTaskResult, ValidateTaskResult, ResolveFrozenForWorker,
           RejectTaskResult, RequestChanges, RejectAndFreeze, RefuseTaskResult,
           ResolveFrozenForCreator
<1>4. ASSUME NEW w \in Workers, WorkerStep(w)
      PROVE  \/ UNCHANGED wallet /\ status' = status
             \/ ClaimTask(w) \/ ExpireClaim(w, w)
  BY <1>4 DEF WorkerStep, SubmitTaskResult, CompleteTask, PostWorkerBond, PostBond
<1>5. ASSUME NEW w \in Workers, Crank(w)
      PROVE  \/ ExpireClaim(w, "cranker")
             \/ \E terms \in Terms : DistributeGhostShare(w, terms)
  BY <1>5 DEF Crank, AutoAcceptTaskResult, ExpireRejectFrozen, ReclaimTerminalClaim,
              Terminal
<1> QED
  BY <1>1, <1>2, <1>3, <1>4, <1>5 DEF Next

\* A creator who let the selection window pass cannot take the prize back,
\* whoever cranks the contest and in whatever order.
THEOREM NoClawbackEver == Spec => NoClawbackAfterGhost
<1>1. IInv /\ [Next]_vars => [AfterGhost => NoClawback]_vars
  <2> SUFFICES ASSUME IInv, AfterGhost, Next PROVE NoClawback
    OBVIOUS
  <2>1. CASE UNCHANGED wallet /\ status' = status
    BY <2>1, GhostState, AmountsAssumption DEF NoClawback, AfterGhost
  <2>2. ASSUME NEW w \in Workers, ClaimTask(w) PROVE NoClawback
    BY <2>2, GhostState, AmountsAssumption
       DEF ClaimTask, Receive, Pay, NoClawback, AfterGhost
  <2> QED
    BY <2>1, <2>2, GhostSteps, GhostShareKeepsPrize, ExpiryKeepsPrize, TermsType
<1>2. NoClawbackAfterGhost <=> [][AfterGhost => NoClawback]_vars
  BY DEF NoClawbackAfterGhost, AfterGhost, NoClawback
<1> QED
  BY <1>1, <1>2, Invariant, PTL DEF Spec

-----------------------------------------------------------------------------
(***************************************************************************)
(* A worker whose bond is not returned did not show up, or lost a frozen   *)
(* dispute.                                                                *)
(***************************************************************************)
Excused(w) ==
  \/ /\ submission[w] # "Submitted"
     /\ now > expires_at[w] \/ DeadlinePassed
  \/ status = "RejectFrozen" /\ status' = "Cancelled"

BondsLostForCause ==
  \A w \in bonds \cap Workers :
    w \notin bonds' /\ wallet'[w] < wallet[w] + BondAmount /\ BondAmount > 0
      => Excused(w)

LEMMA BondsKept ==
  ASSUME bonds \subseteq bonds'
  PROVE  BondsLostForCause
BY DEF BondsLostForCause

\* One worker's bond at most leaves with a step, which answers for it.
LEMMA OneBond ==
  ASSUME NEW w \in Workers, bonds \ {"creator", w} \subseteq bonds',
         w \in bonds /\ BondAmount > 0 /\ ~Excused(w) => wallet'[w] >= wallet[w] + BondAmount,
         wallet'[w] \in Int, wallet[w] \in Int
  PROVE  BondsLostForCause
<1>1. \A v \in Workers : v # "creator"
  BY WorkersAssumption DEF Others
<1> QED
  BY <1>1, AmountsAssumption DEF BondsLostForCause

LEMMA WorkerIsNobodyElse ==
  ASSUME NEW w \in Workers
  PROVE  /\ w \in Parties
         /\ w \notin {"creator", "treasury", "operator", "referrer", "cranker"}
BY WorkersAssumption DEF Parties, Others

\* A settlement pays its worker at least what it pays out besides the share.
LEMMA SettlementPaysExtra ==
  ASSUME TypeOK, TypeOK', NEW w \in Workers, NEW terms \in Quantities,
         NEW extra \in Payments, ExecuteCompletionRewards(w, terms, extra)
  PROVE  wallet'[w] >= wallet[w] + extra[w]
<1> DEFINE base == RewardPerWorker(TaskType, Reward, RequiredCompletions, completions)
           back == IF Completes THEN escrow_lamports - SplitTotal(SplitOf(base, terms)) ELSE 0
<1>1. base \in Nat
  BY RewardPerWorkerType, RequiredCompletionsType, AmountsAssumption DEF TypeOK
<1>2. SplitOf(base, terms).worker \in Nat
  BY <1>1, WorkerIsPaid DEF ExecuteCompletionRewards
<1>3. PayOut(w, SplitOf(base, terms))[w] = SplitOf(base, terms).worker
  BY <1>2, WorkerIsNobodyElse DEF PayOut, Both, Pay
<1>4. Pay("creator", back)[w] = 0
  BY WorkerIsNobodyElse DEF Pay
<1>5. wallet'[w] = wallet[w] + ((SplitOf(base, terms).worker + extra[w]) + 0)
  BY <1>3, <1>4, WorkerIsNobodyElse DEF ExecuteCompletionRewards, Receive, Both
<1>6. wallet[w] \in Int /\ extra[w] \in Int
  BY WorkerIsNobodyElse DEF TypeOK, Payments
<1> QED
  BY <1>2, <1>5, <1>6

\* What returns a bond to w pays it back in full.
LEMMA RefundPaid ==
  ASSUME NEW w \in Workers, w \in bonds
  PROVE  /\ Refund(w)[w] = BondAmount /\ Refund("creator")[w] = 0
         /\ Forfeit("creator", "treasury")[w] = 0
         /\ Deposit(w, w)[w] \in Nat /\ RefundBonds(w)[w] = BondAmount
         /\ Deposit(w, "treasury")[w] = 0
<1>1. BondAmount \in Nat /\ EntryDeposit \in Nat
  BY AmountsAssumption
<1>2. /\ Refund(w)[w] = BondAmount /\ Refund("creator")[w] = 0
      /\ Forfeit("creator", "treasury")[w] = 0 /\ Deposit(w, "treasury")[w] = 0
      /\ Deposit(w, w)[w] \in Nat
  BY <1>1, WorkerIsNobodyElse DEF Refund, Forfeit, Deposit, Pay
<1>3. RefundBonds(w)[w] = BondAmount
  BY <1>1, <1>2, WorkerIsNobodyElse DEF RefundBonds, Both
<1> QED
  BY <1>2, <1>3

LEMMA SettlementReturnsBond ==
  ASSUME TypeOK, TypeOK', NEW w \in Workers, NEW terms \in Quantities,
         NEW extra \in {Both(RefundBonds(w), Deposit(w, w)),
                        Both(Both(Refund(w), Forfeit("creator", "treasury")), Deposit(w, w))},
         ExecuteCompletionRewards(w, terms, extra), ReleaseBonds(w)
  PROVE  BondsLostForCause
<1>1. extra \in Payments
  BY BondPaymentsType, BothType DEF RefundBonds
<1>2. wallet'[w] >= wallet[w] + extra[w]
  BY <1>1, SettlementPaysExtra
<1>3. wallet[w] \in Int /\ wallet'[w] \in Int
  BY WorkerIsNobodyElse DEF TypeOK
<1>4. w \in bonds => extra[w] >= BondAmount /\ extra[w] \in Int
  BY RefundPaid, WorkerIsNobodyElse, AmountsAssumption DEF Both
<1>5. w \in bonds => wallet'[w] >= wallet[w] + BondAmount
  BY <1>2, <1>3, <1>4, AmountsAssumption
<1> QED
  BY <1>3, <1>5, OneBond DEF ReleaseBonds

LEMMA DismissalReturnsBond ==
  ASSUME TypeOK, TypeOK', NEW w \in Workers, Receive(DismissalPay(w)), bonds' = bonds \ {w}
  PROVE  BondsLostForCause
<1>1. wallet[w] \in Int /\ wallet'[w] \in Int
  BY WorkerIsNobodyElse DEF TypeOK
<1>2. w \in bonds => wallet'[w] >= wallet[w] + BondAmount
  BY <1>1, RefundPaid, WorkerIsNobodyElse, AmountsAssumption
     DEF Receive, DismissalPay, Both
<1> QED
  BY <1>1, <1>2, OneBond

LEMMA ReviewStepBonds ==
  ASSUME TypeOK, TypeOK', NEW w \in Workers, ReviewStep(w)
  PROVE  BondsLostForCause
<1>1. ASSUME NEW terms \in Quantities, AcceptSubmission(w, terms) PROVE BondsLostForCause
  BY <1>1, SettlementReturnsBond DEF AcceptSubmission
<1>2. ASSUME NEW terms \in Terms, ResolveFrozenForWorker(w, terms) PROVE BondsLostForCause
  BY <1>2, TermsType, SettlementReturnsBond DEF ResolveFrozenForWorker
<1>3. CASE RejectTaskResult(w) \/ RefuseTaskResult(w)
  BY <1>3, DismissalReturnsBond DEF RejectTaskResult, RefuseTaskResult
<1>4. CASE RequestChanges(w) \/ RejectAndFreeze(w)
  BY <1>4, BondsKept DEF RequestChanges, RejectAndFreeze
<1>5. CASE ResolveFrozenForCreator(w)
  BY <1>5 DEF ResolveFrozenForCreator, BondsLostForCause, Excused
<1>6. ASSUME NEW terms \in Terms, AcceptTaskResult(w, terms) PROVE BondsLostForCause
  BY <1>1, <1>6, TermsType DEF AcceptTaskResult
<1>7. ASSUME NEW terms \in Terms, ValidateTaskResult(w, terms) PROVE BondsLostForCause
  BY <1>1, <1>7, TermsType DEF ValidateTaskResult
<1> QED
  BY <1>2, <1>3, <1>4, <1>5, <1>6, <1>7 DEF ReviewStep

LEMMA ExpiryBonds ==
  ASSUME NEW w \in Workers, NEW caller, ExpireClaim(w, caller)
  PROVE  BondsLostForCause
<1>1. submission[w] # "Submitted" /\ now > expires_at[w]
  BY DEF ExpireClaim, Expired
<1>2. bonds \ {w} \subseteq bonds'
  BY DEF ExpireClaim
<1> QED
  BY <1>1, <1>2 DEF BondsLostForCause, Excused

LEMMA WorkerStepBonds ==
  ASSUME TypeOK, TypeOK', NEW w \in Workers, WorkerStep(w)
  PROVE  BondsLostForCause
<1>1. ASSUME NEW terms \in Terms, CompleteTask(w, terms) PROVE BondsLostForCause
  BY <1>1, TermsType, SettlementReturnsBond DEF CompleteTask
<1>2. CASE ClaimTask(w) \/ SubmitTaskResult(w) \/ PostWorkerBond(w)
  BY <1>2, BondsKept DEF ClaimTask, SubmitTaskResult, PostWorkerBond, PostBond
<1> QED
  BY <1>1, <1>2, ExpiryBonds DEF WorkerStep

LEMMA CrankBonds ==
  ASSUME TypeOK, TypeOK', NEW w \in Workers, Crank(w)
  PROVE  BondsLostForCause
<1>1. ASSUME NEW terms \in Terms, AutoAcceptTaskResult(w, terms) PROVE BondsLostForCause
  BY <1>1, TermsType, SettlementReturnsBond
     DEF AutoAcceptTaskResult, AcceptSubmission
<1>2. ASSUME NEW terms \in Terms, DistributeGhostShare(w, terms) PROVE BondsLostForCause
  BY <1>2, BondsKept DEF DistributeGhostShare
<1>3. ASSUME NEW terms \in Terms, ExpireRejectFrozen(w, terms) PROVE BondsLostForCause
  BY <1>3, TermsType, SettlementReturnsBond DEF ExpireRejectFrozen
<1>4. CASE ReclaimTerminalClaim(w)
  BY <1>4, BondsKept DEF ReclaimTerminalClaim
<1> QED
  BY <1>1, <1>2, <1>3, <1>4, ExpiryBonds DEF Crank

\* A cancelled no-show is past the deadline without a result; a cancellation
\* nobody is to blame for returns the bond.
LEMMA CancelBonds ==
  ASSUME TypeOK, TypeOK', status = "InProgress" => Submitted = {}, CancelTask
  PROVE  BondsLostForCause
<1> DEFINE noShow == status = "InProgress" /\ current_workers > 0
           payment(swept, bonded) == Both(
             Both(Pay("creator", escrow_lamports), Refund("creator")),
             Both(IF noShow THEN Forfeit(bonded, "creator") ELSE Refund(bonded),
                  SweptDeposits(swept)))
<1>1. PICK swept \in SUBSET claims, bonded \in Workers :
        bonds' = bonds \ {"creator", bonded} /\ Receive(payment(swept, bonded))
  BY DEF CancelTask
<1>2. wallet[bonded] \in Int /\ wallet'[bonded] \in Int
  BY WorkerIsNobodyElse DEF TypeOK
<1>3. CASE noShow
  <2>1. DeadlinePassed
    BY <1>3 DEF CancelTask, Cancellable
  <2>2. submission[bonded] # "Submitted"
    BY <1>3 DEF Submitted
  <2> QED
    BY <1>1, <1>2, <2>1, <2>2, OneBond DEF Excused
<1>4. CASE ~noShow
  <2>1. SweptDeposits(swept)[bonded] \in Nat
    BY AmountsAssumption, WorkerIsNobodyElse DEF SweptDeposits, Pay
  <2>2. Pay("creator", escrow_lamports)[bonded] = 0
    BY WorkerIsNobodyElse DEF Pay
  <2>3. bonded \in bonds => payment(swept, bonded)[bonded] =
                              (0 + 0) + (BondAmount + SweptDeposits(swept)[bonded])
    BY <1>4, <2>2, RefundPaid, WorkerIsNobodyElse DEF Both
  <2>4. wallet'[bonded] = wallet[bonded] + payment(swept, bonded)[bonded]
    BY <1>1, WorkerIsNobodyElse DEF Receive
  <2>5. bonded \in bonds => wallet'[bonded] >= wallet[bonded] + BondAmount
    <3> HIDE DEF payment
    <3> QED
      BY <1>2, <2>1, <2>3, <2>4, AmountsAssumption
  <2> QED
    BY <1>1, <1>2, <2>5, OneBond
<1> QED
  BY <1>3, <1>4

\* What the instructions need for it: well-formed accounts, and that nothing is
\* under review while the task is in progress.
LEMMA NextBonds ==
  ASSUME TypeOK, TypeOK', status = "InProgress" => Submitted = {}, Next
  PROVE  BondsLostForCause
<1>1. CASE Tick
  BY <1>1, BondsKept DEF Tick
<1>2. CASE CreatorStep
  BY <1>2, CancelBonds, BondsKept
     DEF CreatorStep, ConfigureTaskValidation, PostCreatorBond, PostBond, CloseTask
<1> QED
  BY <1>1, <1>2, ReviewStepBonds, WorkerStepBonds, CrankBonds DEF Next

\* No worker's completion bond is lost, or returned short, by a review, a
\* completion, a timeout or a cancellation it is not to blame for.
THEOREM BondsAreLostForCause == Spec => BondLostOnlyByNoShow
<1>1. IInv /\ [Next]_vars => [BondsLostForCause]_vars
  BY StepType, NextBonds DEF IInv, StatusMatchesWork
<1>2. BondLostOnlyByNoShow <=> [][BondsLostForCause]_vars
  BY DEF BondLostOnlyByNoShow, BondsLostForCause, Excused
<1> QED
  BY <1>1, <1>2, Invariant, PTL DEF Spec

-----------------------------------------------------------------------------
(***************************************************************************)
(* The lifecycle implements TaskPromise: every instruction moves the       *)
(* engagement of one worker, ends them all, or is not seen at all.         *)
(***************************************************************************)
Pot == IF escrow_open THEN Reward - distributed ELSE 0
Frozen == status = "RejectFrozen"

LEMMA OneEngagement ==
  ASSUME NEW v \in Workers, claims' \ {v} = claims \ {v},
         \A u \in Workers : u # v => submission'[u] = submission[u],
         (Frozen' <=> Frozen) \/ claims \subseteq {v}
  PROVE  Engagement' = [Engagement EXCEPT ![v] = Engagement'[v]]
BY DEF Engagement, Frozen

LEMMA SameEngagement ==
  ASSUME claims' = claims, submission' = submission, Frozen' <=> Frozen
  PROVE  Engagement' = Engagement
BY DEF Engagement, Frozen

\* What a worker is engaged in, by its accounts.
LEMMA EngagementCases ==
  ASSUME NEW v \in Workers
  PROVE  /\ v \notin claims => Engagement[v] = "none"
         /\ v \in claims /\ submission[v] = "Submitted" => Engagement[v] = "delivered"
         /\ v \in claims /\ submission[v] # "Submitted" /\ Frozen => Engagement[v] = "contested"
         /\ v \in claims /\ submission[v] # "Submitted" /\ ~Frozen => Engagement[v] = "working"
BY DEF Engagement, Frozen

LEMMA PotKept ==
  ASSUME UNCHANGED escrowVars
  PROVE  Pot' = Pot
BY DEF Pot, escrowVars

PromiseStep == Promise!Next \/ UNCHANGED Promise!promiseVars

\* Steps that only move clocks, bonds or review accounts.
\* What is left of a prize shrinks when more of it is paid out.
LEMMA Shrinks ==
  ASSUME NEW prize \in Nat, NEW m \in Nat, NEW n \in Nat, m <= n, n <= prize
  PROVE  prize - n \in 0..(prize - m)
OBVIOUS

LEMMA StutterPromise ==
  ASSUME Engagement' = Engagement, Pot' = Pot, (status' \in Terminal <=> status \in Terminal),
         mode' = mode, tasks_completed' = tasks_completed
  PROVE  PromiseStep
BY DEF PromiseStep, Promise!promiseVars, Pot, IsManual

LEMMA TickPromise ==
  ASSUME Tick
  PROVE  PromiseStep
<1>1. Engagement' = Engagement
  BY SameEngagement DEF Tick, claimVars, submissionVars, Frozen
<1> QED
  BY <1>1, PotKept, StutterPromise DEF Tick, taskVars, counterVars

LEMMA ConfigurePromise ==
  ASSUME IInv, NEW m \in ManualModes, ConfigureTaskValidation(m)
  PROVE  PromiseStep
<1>1. /\ status = "Open" /\ claims = {} /\ status' = status /\ mode' \in Manual
      /\ UNCHANGED <<claims, submission, tasks_completed, escrowVars>>
  BY TaskAssumption DEF ConfigureTaskValidation, Configurable, IInv, StatusMatchesWork,
     claimVars, submissionVars
<1>2. Engagement' = Engagement
  BY <1>1, SameEngagement DEF Frozen
<1>3. \A w \in Workers : Engagement[w] = "none"
  BY <1>1, EngagementCases
<1>4. Promise!Review
  BY <1>1, <1>2, <1>3, PotKept DEF Promise!Review, Terminal, IsManual, Pot
<1> QED
  BY <1>4 DEF PromiseStep, Promise!Next

LEMMA ClaimPromise ==
  ASSUME IInv, NEW v \in Workers, ClaimTask(v)
  PROVE  PromiseStep
<1>1. /\ v \notin claims /\ claims' = claims \cup {v} /\ submission' = submission
      /\ status \notin Terminal /\ status' \notin Terminal /\ ~Frozen /\ ~Frozen'
      /\ UNCHANGED <<mode, tasks_completed, escrowVars>>
  BY DEF ClaimTask, submissionVars, Terminal, Frozen
<1>2. v \notin Submitted
  BY <1>1 DEF IInv, CountersAgree
<1>3. Engagement[v] = "none" /\ Engagement'[v] = "working"
  BY <1>1, <1>2 DEF Engagement, Submitted, Frozen
<1>4. Engagement' = [Engagement EXCEPT ![v] = "working"]
  BY <1>1, <1>3, OneEngagement
<1>5. Promise!Engage(v)
  BY <1>1, <1>3, <1>4, PotKept DEF Promise!Engage, Promise!Move, Pot, IsManual
<1> QED
  BY <1>5 DEF PromiseStep, Promise!Next

LEMMA SubmitPromise ==
  ASSUME IInv, NEW v \in Workers, SubmitTaskResult(v)
  PROVE  PromiseStep
<1>1. /\ v \in claims /\ claims' = claims /\ submission[v] # "Submitted" /\ IsManual
      /\ submission' = [submission EXCEPT ![v] = "Submitted"]
      /\ status \notin Terminal /\ status' \notin Terminal /\ ~Frozen /\ ~Frozen'
      /\ UNCHANGED <<mode, tasks_completed, escrowVars>>
  BY DEF SubmitTaskResult, claimVars, taskVars, Terminal, Frozen
<1>2. Engagement[v] = "working" /\ Engagement'[v] = "delivered"
  BY <1>1 DEF Engagement, Frozen, IInv, TypeOK
<1>3. Engagement' = [Engagement EXCEPT ![v] = "delivered"]
  <2>1. \A u \in Workers : u # v => submission'[u] = submission[u]
    BY <1>1 DEF IInv, TypeOK
  <2> QED
    BY <1>1, <1>2, <2>1, OneEngagement
<1>4. Promise!Deliver(v)
  BY <1>1, <1>2, <1>3, PotKept DEF Promise!Deliver, Promise!Move, Pot, IsManual
<1> QED
  BY <1>4 DEF PromiseStep, Promise!Next

\* The claim of v is closed and what becomes of its submission is its own affair.
LEMMA Disengaged ==
  ASSUME IInv, NEW v \in Workers, CloseClaim(v),
         \A u \in Workers : u # v => submission'[u] = submission[u],
         (Frozen' <=> Frozen) \/ claims \subseteq {v}
  PROVE  Engagement' = [Engagement EXCEPT ![v] = "none"]
<1>1. claims' = claims \ {v}
  BY DEF CloseClaim
<1>2. Engagement'[v] = "none"
  BY <1>1 DEF Engagement
<1> QED
  BY <1>1, <1>2, OneEngagement

LEMMA ClosedAlone ==
  ASSUME IInv, NEW v \in Workers, CloseSubmission(v) \/ MarkRejected(v) \/ UNCHANGED submissionVars
  PROVE  \A u \in Workers : u # v => submission'[u] = submission[u]
BY DEF IInv, TypeOK, CloseSubmission, MarkRejected, submissionVars

\* One engagement is paid for out of the pot.
LEMMA PayForPromise ==
  ASSUME IInv, IInv', NEW v \in Workers, status \notin Terminal, mode' = mode,
         IF IsManual THEN Engagement[v] \in {"delivered", "contested"}
                     ELSE Engagement[v] = "working",
         Engagement' = [Engagement EXCEPT ![v] = "none"],
         tasks_completed' = [tasks_completed EXCEPT ![v] = @ + 1],
         distributed <= distributed'
  PROVE  PromiseStep
<1>1. distributed <= Reward /\ Pot = Reward - distributed
  BY DEF IInv, EscrowBacked, Pot
<1>2. CASE status' \in Terminal
  <2>1. Pot' = 0
    BY <1>2 DEF IInv, EscrowBacked, Pot
  <2> QED
    BY <1>2, <2>1 DEF Promise!PayFor, Promise!Move, PromiseStep, Promise!Next, Pot, IsManual
<1>3. CASE status' \notin Terminal
  <2>1. distributed' <= Reward /\ Pot' = Reward - distributed'
    BY <1>3 DEF IInv, EscrowBacked, Pot
  <2>2. Reward \in Nat /\ distributed \in Nat /\ distributed' \in Nat
    BY AmountsAssumption DEF IInv, TypeOK
  <2>3. Pot' \in 0..Pot
    BY <1>1, <2>1, <2>2, Shrinks
  <2> QED
    BY <1>3, <2>3 DEF Promise!PayFor, Promise!Move, PromiseStep, Promise!Next, Pot, IsManual
<1> QED
  BY <1>2, <1>3

LEMMA SettlementGrows ==
  ASSUME IInv, NEW v \in Workers, NEW terms \in Quantities, NEW extra,
         ExecuteCompletionRewards(v, terms, extra)
  PROVE  /\ distributed <= distributed'
         /\ tasks_completed' = [tasks_completed EXCEPT ![v] = @ + 1]
<1>1. PICK base \in Nat : distributed' = distributed + base
  BY SettlementEffect DEF IInv
<1> QED
  BY <1>1 DEF ExecuteCompletionRewards, IInv, TypeOK

LEMMA AcceptPromise ==
  ASSUME IInv, IInv', NEW v \in Workers, NEW terms \in Quantities, AcceptSubmission(v, terms)
  PROVE  PromiseStep
<1>1. /\ status = "PendingValidation" /\ IsManual /\ SubmissionPending(v) /\ mode' = mode
      /\ CloseClaim(v) /\ CloseSubmission(v)
      /\ ExecuteCompletionRewards(v, terms, Both(RefundBonds(v), Deposit(v, v)))
  BY DEF AcceptSubmission, taskVars
<1>2. status \notin Terminal /\ ~Frozen /\ ~Frozen'
  BY DEF AcceptSubmission, SyncedStatus, Terminal, Frozen
<1>3. Engagement[v] = "delivered"
  BY <1>1 DEF Engagement, SubmissionPending
<1>4. Engagement' = [Engagement EXCEPT ![v] = "none"]
  BY <1>1, <1>2, Disengaged, ClosedAlone
<1> QED
  BY <1>1, <1>2, <1>3, <1>4, SettlementGrows, PayForPromise

LEMMA DismissPromise ==
  ASSUME IInv, NEW v \in Workers, RefuseTaskResult(v) \/ RejectTaskResult(v)
  PROVE  PromiseStep
<1>1. /\ SubmissionPending(v) /\ CloseClaim(v) /\ (MarkRejected(v) \/ CloseSubmission(v))
      /\ UNCHANGED <<mode, tasks_completed, escrowVars>>
      /\ status \notin Terminal /\ status' \notin Terminal /\ ~Frozen /\ ~Frozen'
  BY DEF RefuseTaskResult, RejectTaskResult, SyncedStatus, taskVars, Terminal, Frozen
<1>2. Engagement[v] = "delivered"
  BY <1>1 DEF Engagement, SubmissionPending
<1>3. Engagement' = [Engagement EXCEPT ![v] = "none"]
  BY <1>1, Disengaged, ClosedAlone
<1>4. Promise!Refuse(v)
  BY <1>1, <1>2, <1>3, PotKept DEF Promise!Refuse, Promise!Move, Pot, IsManual
<1> QED
  BY <1>4 DEF PromiseStep, Promise!Next

LEMMA SendBackPromise ==
  ASSUME IInv, NEW v \in Workers, RequestChanges(v) \/ RejectAndFreeze(v)
  PROVE  PromiseStep
<1>1. /\ SubmissionPending(v) /\ MarkRejected(v) /\ claims' = claims
      /\ UNCHANGED <<mode, tasks_completed, escrowVars>>
      /\ status \notin Terminal /\ status' \notin Terminal /\ ~Frozen
  BY DEF RequestChanges, RejectAndFreeze, SyncedStatus, claimVars, taskVars, Terminal, Frozen
<1>2. Frozen' => claims \subseteq {v}
  <2>1. Frozen' => TaskType = "Exclusive"
    BY DEF RequestChanges, RejectAndFreeze, SyncedStatus, Frozen
  <2> QED
    BY <1>1, <2>1, SoleClaim DEF SubmissionPending
<1>3. Engagement[v] = "delivered"
  BY <1>1 DEF Engagement, SubmissionPending
<1>4. Engagement'[v] = IF Frozen' THEN "contested" ELSE "working"
  BY <1>1 DEF Engagement, SubmissionPending, MarkRejected, Frozen, IInv, TypeOK
<1>5. Engagement' = [Engagement EXCEPT ![v] = IF Frozen' THEN "contested" ELSE "working"]
  BY <1>1, <1>2, <1>4, OneEngagement, ClosedAlone
<1>6. Promise!SendBack(v)
  BY <1>1, <1>3, <1>5, PotKept DEF Promise!SendBack, Promise!Move, Pot, IsManual
<1> QED
  BY <1>6 DEF PromiseStep, Promise!Next

\* A frozen task has the one claim that is contested.
LEMMA FrozenClaim ==
  ASSUME IInv, NEW v \in claims, Frozen
  PROVE  /\ claims = {v} /\ submission[v] = "Rejected" /\ Engagement[v] = "contested"
         /\ IsManual /\ TaskType = "Exclusive" /\ status \notin Terminal
BY DEF IInv, StatusMatchesWork, Auxiliary, Engagement, TypeOK, Frozen, Terminal

LEMMA ThawPromise ==
  ASSUME IInv, IInv', NEW v \in Workers, NEW terms \in Terms,
         ResolveFrozenForWorker(v, terms) \/ ExpireRejectFrozen(v, terms)
  PROVE  PromiseStep
<1>1. /\ Frozen /\ v \in claims /\ mode' = mode /\ CloseClaim(v) /\ CloseSubmission(v)
      /\ \E extra : ExecuteCompletionRewards(v, terms, extra)
  BY DEF ResolveFrozenForWorker, ExpireRejectFrozen, taskVars, Frozen
<1>2. claims = {v} /\ Engagement[v] = "contested" /\ IsManual /\ status \notin Terminal
  BY <1>1, FrozenClaim
<1>3. Engagement' = [Engagement EXCEPT ![v] = "none"]
  BY <1>1, <1>2, Disengaged, ClosedAlone
<1>4. terms \in Quantities
  BY TermsType
<1> QED
  BY <1>1, <1>2, <1>3, <1>4, SettlementGrows, PayForPromise

LEMMA CompletePromise ==
  ASSUME IInv, IInv', NEW v \in Workers, NEW terms \in Terms, CompleteTask(v, terms)
  PROVE  PromiseStep
<1>1. /\ v \in claims /\ ~IsManual /\ status = "InProgress" /\ mode' = mode
      /\ CloseClaim(v) /\ UNCHANGED submissionVars /\ ~Frozen'
      /\ \E extra : ExecuteCompletionRewards(v, terms, extra)
  BY DEF CompleteTask, SelfCertified, taskVars, Frozen
<1>2. submission[v] # "Submitted"
  BY <1>1 DEF IInv, StatusMatchesWork, Submitted
<1>3. ~Frozen /\ status \notin Terminal /\ Engagement[v] = "working"
  BY <1>1, <1>2 DEF Engagement, Frozen, Terminal
<1>4. Engagement' = [Engagement EXCEPT ![v] = "none"]
  BY <1>1, <1>3, Disengaged, ClosedAlone
<1>5. terms \in Quantities
  BY TermsType
<1> QED
  BY <1>1, <1>3, <1>4, <1>5, SettlementGrows, PayForPromise

LEMMA GhostSharePromise ==
  ASSUME IInv, IInv', NEW v \in Workers, NEW terms \in Terms, DistributeGhostShare(v, terms)
  PROVE  PromiseStep
<1>1. /\ SubmissionPending(v) /\ IsManual /\ mode' = mode
      /\ CloseClaim(v) /\ CloseSubmission(v)
      /\ status \notin Terminal /\ ~Frozen /\ ~Frozen'
      /\ tasks_completed' = [tasks_completed EXCEPT ![v] = @ + 1]
  BY DEF DistributeGhostShare, taskVars, Frozen, Terminal, IsManual, Manual
<1>2. Engagement[v] = "delivered"
  BY <1>1 DEF Engagement, SubmissionPending
<1>3. Engagement' = [Engagement EXCEPT ![v] = "none"]
  BY <1>1, Disengaged, ClosedAlone
<1>4. distributed <= distributed'
  <2> DEFINE slice == GhostSlice(Reward - distributed, live_submissions)
  <2>1. distributed' = distributed + SplitTotal(SplitOf(slice, terms))
    BY DEF DistributeGhostShare
  <2>2. slice \in Nat
    <3>1. /\ Reward - distributed \in Nat /\ live_submissions \in Nat \ {0}
      BY AmountsAssumption DEF DistributeGhostShare, IInv, TypeOK
    <3> QED
      BY <3>1, DivType DEF GhostSlice
  <2>3. SplitTotal(SplitOf(slice, terms)) = slice
    BY <2>2, TermsType, SettlementPaysBase
  <2> QED
    BY <2>1, <2>2, <2>3 DEF IInv, TypeOK
<1> QED
  BY <1>1, <1>2, <1>3, <1>4, PayForPromise

\* The end of a task by its creator, or by a ruling in the creator's favour.
LEMMA CallOffPromise ==
  ASSUME IInv, IInv', status \notin Terminal, status' = "Cancelled",
         claims' = {}, \A w \in claims : submission[w] # "Submitted",
         mode' = mode, tasks_completed' = tasks_completed
  PROVE  PromiseStep
<1>1. Pot' = 0
  BY DEF IInv, EscrowBacked, Terminal, Pot
<1>2. /\ \A w \in Workers : Engagement[w] # "delivered"
      /\ Engagement' = [w \in Workers |-> "none"]
  BY DEF Engagement
<1>3. Promise!CallOff
  BY <1>1, <1>2 DEF Promise!CallOff, Pot, Terminal, IsManual
<1> QED
  BY <1>3 DEF PromiseStep, Promise!Next

LEMMA ResolveForCreatorPromise ==
  ASSUME IInv, IInv', NEW v \in Workers, ResolveFrozenForCreator(v)
  PROVE  PromiseStep
<1>1. /\ Frozen /\ v \in claims /\ claims' = claims \ {v} /\ status' = "Cancelled"
      /\ mode' = mode /\ tasks_completed' = tasks_completed
  BY DEF ResolveFrozenForCreator, CloseClaim, taskVars, Frozen
<1>2. claims = {v} /\ submission[v] = "Rejected" /\ status \notin Terminal
  BY <1>1, FrozenClaim
<1> QED
  BY <1>1, <1>2, CallOffPromise

LEMMA CancelPromise ==
  ASSUME IInv, IInv', CancelTask
  PROVE  PromiseStep
<1>1. /\ status \in {"Open", "InProgress"} /\ status' = "Cancelled"
      /\ mode' = mode /\ tasks_completed' = tasks_completed
  BY DEF CancelTask, Cancellable, taskVars
<1>2. PICK swept \in SUBSET claims :
        Cardinality(swept) = current_workers /\ claims' = claims \ swept
  BY DEF CancelTask
<1>3. claims' = {}
  <2>1. claims \in SUBSET Workers
    BY DEF IInv, TypeOK
  <2> QED
    BY <1>2, <2>1, SameCardinality DEF IInv, CountersAgree
<1>4. \A w \in claims : submission[w] # "Submitted"
  BY <1>1 DEF IInv, TypeOK, StatusMatchesWork, Submitted
<1> QED
  BY <1>1, <1>3, <1>4, CallOffPromise DEF Terminal

\* Removing an absent worker costs the cleanup reward, or what is left.
LEMMA ExpirePromise ==
  ASSUME IInv, IInv', NEW v \in Workers, NEW caller, ExpireClaim(v, caller)
  PROVE  PromiseStep
<1>1. /\ v \in claims /\ submission[v] # "Submitted" /\ PayCleanup /\ CloseClaim(v)
      /\ mode' = mode /\ tasks_completed' = tasks_completed
      /\ escrow_open' = escrow_open /\ UNCHANGED submissionVars
  BY DEF ExpireClaim, taskVars
<1>2. status \notin Terminal /\ status' \notin Terminal /\ ~Frozen /\ ~Frozen'
  BY DEF ExpireClaim, SyncedStatus, Terminal, Frozen
<1>3. Engagement[v] = "working"
  BY <1>1, <1>2 DEF Engagement, Frozen
<1>4. Engagement' = [Engagement EXCEPT ![v] = "none"]
  BY <1>1, <1>2, Disengaged, ClosedAlone
<1>5. Pot' \in 0..Pot /\ Pot - Pot' <= CleanupReward
  <2>1. escrow_open /\ distributed <= Reward
    BY <1>2 DEF IInv, EscrowBacked
  <2>2. Reward \in Nat /\ distributed \in Nat /\ CleanupReward \in Nat
    BY AmountsAssumption DEF IInv, TypeOK
  <2>3. Pot = Reward - distributed /\ Pot' = Reward - (distributed + CleanupPaid)
    BY <1>1, <2>1 DEF Pot, PayCleanup
  <2> QED
    BY <2>1, <2>2, <2>3 DEF CleanupPaid
<1>6. Promise!Remove(v)
  BY <1>1, <1>2, <1>3, <1>4, <1>5 DEF Promise!Remove, Promise!Move, Pot, IsManual
<1> QED
  BY <1>6 DEF PromiseStep, Promise!Next

LEMMA ReclaimPromise ==
  ASSUME IInv, NEW v \in Workers, ReclaimTerminalClaim(v)
  PROVE  PromiseStep
<1>1. /\ status \in Terminal /\ status' = status /\ v \in claims
      /\ CloseClaim(v) /\ CloseSubmission(v) /\ ~Frozen /\ ~Frozen'
      /\ UNCHANGED <<mode, tasks_completed, escrowVars>>
  BY DEF ReclaimTerminalClaim, taskVars, Terminal, Frozen
<1>2. Engagement[v] \in {"working", "delivered"}
  BY <1>1 DEF Engagement, Frozen
<1>3. Engagement' = [Engagement EXCEPT ![v] = "none"]
  BY <1>1, Disengaged, ClosedAlone
<1>4. Promise!WindUp(v)
  BY <1>1, <1>2, <1>3, PotKept DEF Promise!WindUp, Promise!Move, Pot, IsManual
<1> QED
  BY <1>4 DEF PromiseStep, Promise!Next

LEMMA PostBondPromise ==
  ASSUME NEW p, PostBond(p)
  PROVE  PromiseStep
<1>1. Engagement' = Engagement
  BY SameEngagement DEF PostBond, claimVars, submissionVars, Frozen
<1> QED
  BY <1>1, PotKept, StutterPromise DEF PostBond, taskVars, counterVars

LEMMA CloseTaskPromise ==
  ASSUME IInv, NEW sweepConfig \in BOOLEAN, NEW swept \in SUBSET Workers,
         CloseTask(sweepConfig, swept)
  PROVE  PromiseStep
<1>1. /\ current_workers = 0 /\ claims' = claims /\ status' = status
      /\ UNCHANGED <<mode, tasks_completed, escrowVars>>
  BY DEF CloseTask, claimVars, counterVars
<1>2. claims = {}
  <2>1. claims \in SUBSET Workers
    BY DEF IInv, TypeOK
  <2> QED
    BY <1>1, <2>1, WorkersAssumption, FS_Subset, FS_EmptySet DEF IInv, CountersAgree
<1>3. Engagement' = Engagement
  BY <1>1, <1>2 DEF Engagement
<1> QED
  BY <1>1, <1>3, PotKept, StutterPromise

LEMMA InitPromise ==
  ASSUME Init
  PROVE  Promise!Init
<1>1. Engagement = [w \in Workers |-> "none"]
  BY DEF Init, Engagement
<1>2. Pot = Reward
  BY AmountsAssumption DEF Init, Pot
<1>3. (status \notin Terminal) = TRUE /\ IsManual \in BOOLEAN
  BY DEF Init, Terminal, IsManual
<1> QED
  BY <1>1, <1>2, <1>3 DEF Init, Promise!Init, Pot

LEMMA StepPromise ==
  ASSUME IInv, IInv', [Next]_vars
  PROVE  PromiseStep
<1>1. CASE UNCHANGED vars
  <2>1. Engagement' = Engagement
    BY <1>1, SameEngagement DEF vars, claimVars, submissionVars, Frozen
  <2> QED
    BY <1>1, <2>1, PotKept, StutterPromise DEF vars, taskVars, counterVars
<1>2. CASE CreatorStep
  BY <1>2, ConfigurePromise, CancelPromise, PostBondPromise, CloseTaskPromise
     DEF CreatorStep, PostCreatorBond
<1>3. ASSUME NEW v \in Workers, ReviewStep(v)
      PROVE  PromiseStep
  BY <1>3, TermsType, AcceptPromise, ThawPromise, DismissPromise, SendBackPromise,
     ResolveForCreatorPromise
     DEF ReviewStep, AcceptTaskResult, ValidateTaskResult
<1>4. ASSUME NEW v \in Workers, WorkerStep(v)
      PROVE  PromiseStep
  BY <1>4, ClaimPromise, SubmitPromise, CompletePromise, PostBondPromise, ExpirePromise
     DEF WorkerStep, PostWorkerBond
<1>5. ASSUME NEW v \in Workers, Crank(v)
      PROVE  PromiseStep
  BY <1>5, TermsType, AcceptPromise, GhostSharePromise, ThawPromise, ExpirePromise,
     ReclaimPromise
     DEF Crank, AutoAcceptTaskResult
<1> QED
  BY <1>1, <1>2, <1>3, <1>4, <1>5, TickPromise DEF Next

\* The program keeps the abstract promise, whatever its amounts, fees, windows
\* and workers: the prize leaves the escrow only for judged or self-certified
\* work, for removing an absent worker, or once, at the end.
THEOREM PromiseAlwaysKept == Spec => PromiseKept
<1>1. IInv /\ IInv' /\ [Next]_vars => [Promise!Next]_Promise!promiseVars
  BY StepPromise DEF PromiseStep
<1>2. Init => Promise!Init
  BY InitPromise
<1> QED
  BY <1>1, <1>2, Invariant, PTL DEF Spec, PromiseKept, Promise!Spec

-----------------------------------------------------------------------------
(***************************************************************************)
(* Which tasks are attested.  The attested settlement pays no legs, so it  *)
(* matters that no task that owes one is ever attested: a hire keeps       *)
(* its mode while its record is open, and the record stays open until the  *)
(* task has ended.                                                         *)
(***************************************************************************)
LegTerms ==
  /\ Hired /\ status \notin Terminal => hire_open
  /\ mode = "ExternalAttestation" => OperatorFeeBps = 0 /\ ReferrerFeeBps = 0

\* Only two instructions touch what the legs depend on.
LEMMA SettingsKept ==
  ASSUME Next
  PROVE  \/ UNCHANGED <<mode, hire_open>>
         \/ status' \in Terminal /\ mode' = mode
         \/ \E m \in ManualModes : ConfigureTaskValidation(m)
<1>1. Tick => UNCHANGED <<mode, hire_open>>
  BY DEF Tick, taskVars
<1>2. CreatorStep => \/ UNCHANGED <<mode, hire_open>>
                     \/ status' \in Terminal /\ mode' = mode
                     \/ \E m \in ManualModes : ConfigureTaskValidation(m)
  BY DEF CreatorStep, CancelTask, PostCreatorBond, PostBond, CloseTask, taskVars
<1>3. ASSUME NEW w \in Workers, ReviewStep(w) PROVE UNCHANGED <<mode, hire_open>>
  BY <1>3 DEF ReviewStep, AcceptTaskResult, ValidateTaskResult, AcceptSubmission,
              ResolveFrozenForWorker, RejectTaskResult, RequestChanges, RejectAndFreeze,
              RefuseTaskResult, ResolveFrozenForCreator, taskVars
<1>4. ASSUME NEW w \in Workers, WorkerStep(w) PROVE UNCHANGED <<mode, hire_open>>
  BY <1>4 DEF WorkerStep, ClaimTask, SubmitTaskResult, CompleteTask, PostWorkerBond,
              PostBond, ExpireClaim, taskVars
<1>5. ASSUME NEW w \in Workers, Crank(w) PROVE UNCHANGED <<mode, hire_open>>
  BY <1>5 DEF Crank, AutoAcceptTaskResult, AcceptSubmission, DistributeGhostShare,
              ExpireRejectFrozen, ExpireClaim, ReclaimTerminalClaim, taskVars
<1> QED
  BY <1>1, <1>2, <1>3, <1>4, <1>5 DEF Next

LEMMA StepLegTerms ==
  ASSUME LegTerms, [Next]_vars
  PROVE  LegTerms'
<1>1. CASE UNCHANGED vars
  BY <1>1 DEF LegTerms, vars, taskVars
<1>2. CASE Next
  <2>1. status \in Terminal => status' \in Terminal
    BY <1>2, TerminalSteps DEF Tick, ReclaimTerminalClaim, CloseTask
  <2>2. ASSUME NEW m \in ManualModes, ConfigureTaskValidation(m) PROVE LegTerms'
    <3>1. ~Hired /\ (m # "CreatorReview" => ReferrerFeeBps = 0) /\ mode' = m
      BY <2>2 DEF ConfigureTaskValidation, Configurable, LegTerms, Terminal
    <3>2. OperatorFeeBps = 0
      BY <3>1, FeesAssumption
    <3> QED
      BY <3>1, <3>2 DEF LegTerms
  <2> QED
    BY <1>2, <2>1, <2>2, SettingsKept DEF LegTerms
<1> QED
  BY <1>1, <1>2

LEMMA InitLegTerms ==
  ASSUME Init
  PROVE  LegTerms
BY TaskAssumption DEF Init, LegTerms

-----------------------------------------------------------------------------
(***************************************************************************)
(* The resubmission window.                                                *)
(***************************************************************************)
Over == status \in Terminal \cup {"RejectFrozen"}

WindowEnd(w) == rejected_at[w] + ReviewWindow

\* A bounced worker's clocks both cover its window until the window is over.
Covered(w) ==
  \/ now > WindowEnd(w)
  \/ /\ w \in claims /\ expires_at[w] >= WindowEnd(w)
     /\ deadline = 0 \/ deadline >= WindowEnd(w)

Windows ==
  /\ \A w \in claims : expires_at[w] > 0
  /\ mode # "ExternalAttestation"
  /\ ~IsManual => \A w \in Workers : submission[w] = "none"
  /\ ~Over => \A w \in Workers : submission[w] = "Rejected" => Covered(w)

\* A task that is frozen or terminal stays so.
LEMMA OverStays ==
  ASSUME IInv, Next, Over
  PROVE  Over'
<1> USE DEF Over
<1>1. CASE status \in Terminal
  BY <1>1, TerminalSteps DEF Tick, ReclaimTerminalClaim, CloseTask
<1>2. CASE status = "RejectFrozen"
  <2>1. CreatorStep => status' = status
    BY <1>2 DEF CreatorStep, ConfigureTaskValidation, Configurable, CancelTask,
                Cancellable, PostCreatorBond, CloseTask, Terminal
  <2>2. ASSUME NEW w \in Workers, ReviewStep(w)
        PROVE  status' \in {status, "Completed", "Cancelled"}
    BY <1>2, <2>2
       DEF ReviewStep, AcceptTaskResult, ValidateTaskResult, AcceptSubmission,
           ResolveFrozenForWorker, RejectTaskResult, RequestChanges, RejectAndFreeze,
           RefuseTaskResult, ResolveFrozenForCreator
  <2>3. ASSUME NEW w \in Workers PROVE ~WorkerStep(w)
    BY <1>2 DEF WorkerStep, ClaimTask, SubmitTaskResult, CompleteTask, PostWorkerBond,
                ExpireClaim
  <2>4. ASSUME NEW w \in Workers, Crank(w)
        PROVE  status' \in {status, "Completed"}
    BY <1>2, <2>4
       DEF Crank, AutoAcceptTaskResult, AcceptSubmission, DistributeGhostShare,
           ExpireRejectFrozen, ExpireClaim, ReclaimTerminalClaim, Terminal
  <2> QED
    BY <1>2, <2>1, <2>2, <2>3, <2>4 DEF Next, Tick, Terminal
<1> QED
  BY <1>1, <1>2

\* A step that leaves the submissions, claims and clocks alone, or closes one
\* claim with its submission, keeps every other worker covered.
LEMMA OthersCovered ==
  ASSUME TypeOK, Windows, Over => Over', NEW v \in Workers, now' >= now, deadline' = deadline,
         mode' = mode, claims' \in {claims, claims \ {v}},
         \A w \in Workers \ {v} :
           /\ submission'[w] = submission[w] /\ rejected_at'[w] = rejected_at[w]
           /\ expires_at'[w] = expires_at[w],
         submission'[v] # "Rejected", ~IsManual => submission'[v] = "none",
         v \in claims' => expires_at'[v] > 0, now' \in Nat
  PROVE  Windows'
<1>1. ASSUME ~Over', NEW w \in Workers, submission'[w] = "Rejected" PROVE Covered(w)'
  <2>1. w # v /\ submission[w] = "Rejected" /\ rejected_at[w] \in Nat /\ now \in Nat
    BY <1>1 DEF TypeOK
  <2>2. WindowEnd(w)' = WindowEnd(w) /\ WindowEnd(w) \in Nat
    BY <2>1, TimesAssumption DEF WindowEnd
  <2>3. Covered(w)
    BY <1>1, <2>1 DEF Windows
  <2> QED
    BY <2>1, <2>2, <2>3 DEF Covered
<1> QED
  BY <1>1 DEF Windows, TypeOK, IsManual

\* Nothing the window depends on changes.
ClocksKept ==
  UNCHANGED <<submission, rejected_at, claims, expires_at, deadline>>

LEMMA ClocksKeptCovered ==
  ASSUME TypeOK, Windows, Over => Over', now' \in Nat, now' >= now, mode' = mode, ClocksKept
  PROVE  Windows'
<1>1. ASSUME ~Over', NEW w \in Workers, submission[w] = "Rejected" PROVE Covered(w)'
  <2>1. WindowEnd(w)' = WindowEnd(w) /\ WindowEnd(w) \in Nat /\ now \in Nat
    BY TimesAssumption DEF WindowEnd, ClocksKept, TypeOK
  <2> QED
    BY <1>1, <2>1 DEF Windows, Covered, ClocksKept
<1> QED
  BY <1>1 DEF Windows, ClocksKept, IsManual

\* Once frozen or ended only the clocks of live claims matter.
LEMMA OverCovered ==
  ASSUME TypeOK, Windows, Over', mode' = mode, claims' \subseteq claims,
         \A w \in claims' : expires_at'[w] = expires_at[w],
         ~IsManual => submission' = submission \/ \A w \in Workers : submission'[w] = "none"
  PROVE  Windows'
BY DEF Windows, IsManual

LEMMA ClaimCovered ==
  ASSUME TypeOK, TypeOK', Windows, ~Over, NEW v \in Workers, ClaimTask(v)
  PROVE  Windows'
<1>1. /\ v \notin claims /\ claims' = claims \cup {v}
      /\ expires_at' = [expires_at EXCEPT ![v] =
           IF deadline > 0 THEN deadline + CompletionBuffer ELSE now + MaxClaimDuration]
      /\ UNCHANGED <<now, deadline, mode, submission, rejected_at>>
  BY DEF ClaimTask, submissionVars
<1>2. expires_at'[v] > 0
  BY <1>1, TimesAssumption DEF TypeOK
<1>3. ASSUME NEW w \in Workers, submission[w] = "Rejected" PROVE Covered(w)'
  <2>1. WindowEnd(w)' = WindowEnd(w)
    BY <1>1 DEF WindowEnd
  <2>2. CASE w = v
    BY <1>1, <1>3, <2>1, <2>2 DEF Windows, Covered
  <2>3. CASE w # v
    BY <1>1, <1>3, <2>1, <2>3 DEF Windows, Covered, TypeOK
  <2> QED
    BY <2>2, <2>3
<1> QED
  BY <1>1, <1>2, <1>3 DEF Windows, TypeOK, IsManual

\* request_changes moves both clocks of the bounced worker past its window.
LEMMA RequestChangesCovered ==
  ASSUME TypeOK, TypeOK', Windows, ~Over, NEW v \in Workers, RequestChanges(v)
  PROVE  Windows'
<1> DEFINE until == now + ReviewWindow
<1>1. /\ v \in claims /\ IsManual
      /\ UNCHANGED <<now, mode, claims>>
      /\ expires_at' = [expires_at EXCEPT ![v] = Extended(@, until)]
      /\ deadline' = Extended(deadline, until)
      /\ submission' = [submission EXCEPT ![v] = "Rejected"]
      /\ rejected_at' = [rejected_at EXCEPT ![v] = now]
  BY DEF RequestChanges, MarkRejected, SubmissionPending, IsManual, Manual
<1>2. until \in Nat /\ now \in Nat /\ deadline \in Nat /\ v \in Workers
      /\ expires_at[v] \in Nat /\ expires_at[v] > 0
  BY <1>1, TimesAssumption DEF TypeOK, Windows
<1>3. /\ expires_at'[v] >= until /\ expires_at'[v] >= expires_at[v]
      /\ deadline' = 0 \/ deadline' >= until
      /\ deadline' >= deadline /\ (deadline = 0 <=> deadline' = 0)
  BY <1>1, <1>2 DEF Extended, TypeOK
<1>4. Covered(v)'
  BY <1>1, <1>2, <1>3 DEF Covered, WindowEnd, TypeOK
<1>5. ASSUME NEW w \in Workers, w # v, submission'[w] = "Rejected" PROVE Covered(w)'
  <2>1. /\ submission[w] = "Rejected" /\ expires_at'[w] = expires_at[w]
        /\ rejected_at'[w] = rejected_at[w] /\ rejected_at[w] \in Nat
    BY <1>1, <1>5 DEF TypeOK
  <2>2. WindowEnd(w)' = WindowEnd(w) /\ WindowEnd(w) \in Nat
    BY <2>1, TimesAssumption DEF WindowEnd
  <2>3. Covered(w)
    BY <2>1 DEF Windows
  <2> QED
    BY <1>1, <1>2, <1>3, <2>1, <2>2, <2>3 DEF Covered, TypeOK
<1>6. \A w \in claims' : expires_at'[w] > 0
  BY <1>1, <1>2, <1>3 DEF Windows, TypeOK
<1>7. IsManual'
  BY <1>1 DEF IsManual
<1> QED
  BY <1>1, <1>4, <1>5, <1>6, <1>7 DEF Windows

\* A claim expires only after its window.
LEMMA ExpireCovered ==
  ASSUME TypeOK, TypeOK', Windows, ~Over, NEW v \in Workers, NEW caller,
         ExpireClaim(v, caller)
  PROVE  Windows'
<1>1. /\ v \in claims /\ now > expires_at[v]
      /\ claims' = claims \ {v} /\ expires_at' = [expires_at EXCEPT ![v] = 0]
      /\ UNCHANGED <<now, mode, deadline, submission, rejected_at>>
  BY DEF ExpireClaim, Expired, CloseClaim, submissionVars, taskVars
<1>2. ASSUME NEW w \in Workers, submission[w] = "Rejected" PROVE Covered(w)'
  <2>1. WindowEnd(w)' = WindowEnd(w) /\ WindowEnd(w) \in Nat
    BY <1>1, TimesAssumption DEF WindowEnd, TypeOK
  <2>2. Covered(w)
    BY <1>2 DEF Windows
  <2> QED
    BY <1>1, <2>1, <2>2 DEF Covered, TypeOK
<1> QED
  BY <1>1, <1>2 DEF Windows, TypeOK, IsManual

\* A claim closed with its submission is only that worker's.
LEMMA ClosedCovered ==
  ASSUME TypeOK, TypeOK', Windows, Over => Over', NEW v \in Workers, CloseClaim(v),
         CloseSubmission(v), UNCHANGED <<now, deadline, mode>>
  PROVE  Windows'
<1>1. /\ claims' = claims \ {v} /\ expires_at' = [expires_at EXCEPT ![v] = 0]
      /\ submission' = [submission EXCEPT ![v] = "none"]
      /\ rejected_at' = [rejected_at EXCEPT ![v] = 0]
  BY DEF CloseClaim, CloseSubmission
<1>2. submission'[v] = "none" /\ v \notin claims' /\ now' \in Nat /\ now' >= now
  BY <1>1 DEF TypeOK
<1>3. \A w \in Workers \ {v} :
        /\ submission'[w] = submission[w] /\ rejected_at'[w] = rejected_at[w]
        /\ expires_at'[w] = expires_at[w]
  BY <1>1 DEF TypeOK
<1> QED
  BY <1>1, <1>2, <1>3, OthersCovered

-----------------------------------------------------------------------------
(***************************************************************************)
(* The windows are an invariant of a task that is never attested.  (Where  *)
(* the attested mode is on offer, a submission the attestor refused stays  *)
(* Rejected under a claim its worker may make later, although no changes   *)
(* were requested.)                                                        *)
(***************************************************************************)
NeverAttested ==
  Hired \/ ReferrerFeeBps > 0 \/ "ExternalAttestation" \notin ManualModes

LEMMA InitWindows ==
  ASSUME Init
  PROVE  Windows
BY TaskAssumption DEF Init, Windows

LEMMA ReviewStepWindows ==
  ASSUME IInv, TypeOK', Windows, Over => Over', NEW v \in Workers, ReviewStep(v)
  PROVE  Windows'
<1> USE DEF IInv
<1>1. ASSUME NEW terms, AcceptSubmission(v, terms) PROVE Windows'
  BY <1>1, ClosedCovered DEF AcceptSubmission, taskVars
<1>2. ASSUME NEW terms \in Terms, ResolveFrozenForWorker(v, terms) PROVE Windows'
  BY <1>2, ClosedCovered DEF ResolveFrozenForWorker, taskVars
<1>3. CASE RejectTaskResult(v)
  BY <1>3, ClosedCovered DEF RejectTaskResult, taskVars
<1>4. CASE RequestChanges(v)
  BY <1>4, RequestChangesCovered DEF RequestChanges, Over, Terminal
<1>5. CASE RejectAndFreeze(v)
  BY <1>5, OverCovered DEF RejectAndFreeze, taskVars, claimVars, Over, IsManual, Manual
<1>6. ~RefuseTaskResult(v)
  BY DEF RefuseTaskResult, Windows
<1>7. CASE ResolveFrozenForCreator(v)
  BY <1>7, ClosedCovered DEF ResolveFrozenForCreator, taskVars
<1> QED
  BY <1>1, <1>2, <1>3, <1>4, <1>5, <1>6, <1>7
     DEF ReviewStep, AcceptTaskResult, ValidateTaskResult

LEMMA WorkerStepWindows ==
  ASSUME IInv, TypeOK', Windows, Over => Over', NEW v \in Workers, WorkerStep(v)
  PROVE  Windows'
<1> USE DEF IInv
<1>1. CASE ClaimTask(v)
  BY <1>1, ClaimCovered DEF ClaimTask, Over, Terminal
<1>2. CASE SubmitTaskResult(v)
  <2>1. /\ UNCHANGED <<now, deadline, mode, claims, expires_at>> /\ IsManual
        /\ submission' = [submission EXCEPT ![v] = "Submitted"]
        /\ rejected_at' = [rejected_at EXCEPT ![v] = 0]
    BY <1>2 DEF SubmitTaskResult, taskVars, claimVars
  <2>2. \A w \in Workers \ {v} :
          /\ submission'[w] = submission[w] /\ rejected_at'[w] = rejected_at[w]
          /\ expires_at'[w] = expires_at[w]
    BY <2>1 DEF TypeOK
  <2>3. submission'[v] = "Submitted" /\ now' \in Nat /\ now' >= now
    BY <2>1 DEF TypeOK
  <2>4. v \in claims' => expires_at'[v] > 0
    BY <2>1 DEF Windows
  <2> QED
    BY <2>1, <2>2, <2>3, <2>4, OthersCovered
<1>3. ASSUME NEW terms \in Terms, CompleteTask(v, terms) PROVE Windows'
  <2>1. /\ UNCHANGED <<now, deadline, mode, submission, rejected_at>> /\ ~IsManual
        /\ claims' = claims \ {v} /\ expires_at' = [expires_at EXCEPT ![v] = 0]
    BY <1>3 DEF CompleteTask, SelfCertified, CloseClaim, taskVars, submissionVars
  <2>2. submission'[v] = "none" /\ v \notin claims' /\ now' \in Nat /\ now' >= now
    BY <2>1 DEF Windows, TypeOK
  <2>3. \A w \in Workers \ {v} : expires_at'[w] = expires_at[w]
    BY <2>1 DEF TypeOK
  <2> QED
    BY <2>1, <2>2, <2>3, OthersCovered
<1>4. CASE PostWorkerBond(v)
  BY <1>4, ClocksKeptCovered
     DEF PostWorkerBond, PostBond, ClocksKept, submissionVars, claimVars, taskVars, TypeOK
<1>5. CASE ExpireClaim(v, v)
  BY <1>5, ExpireCovered DEF ExpireClaim, Over, Terminal
<1> QED
  BY <1>1, <1>2, <1>3, <1>4, <1>5 DEF WorkerStep

LEMMA CrankWindows ==
  ASSUME IInv, TypeOK', Windows, Over => Over', NEW v \in Workers, Crank(v)
  PROVE  Windows'
<1> USE DEF IInv
<1>1. ASSUME NEW terms \in Terms, AutoAcceptTaskResult(v, terms) PROVE Windows'
  BY <1>1, ClosedCovered DEF AutoAcceptTaskResult, AcceptSubmission, taskVars
<1>2. ASSUME NEW terms \in Terms, DistributeGhostShare(v, terms) PROVE Windows'
  BY <1>2, ClosedCovered DEF DistributeGhostShare, taskVars
<1>3. ASSUME NEW terms \in Terms, ExpireRejectFrozen(v, terms) PROVE Windows'
  BY <1>3, ClosedCovered DEF ExpireRejectFrozen, taskVars
<1>4. CASE ExpireClaim(v, "cranker")
  BY <1>4, ExpireCovered DEF ExpireClaim, Over, Terminal
<1>5. CASE ReclaimTerminalClaim(v)
  BY <1>5, ClosedCovered DEF ReclaimTerminalClaim, taskVars
<1> QED
  BY <1>1, <1>2, <1>3, <1>4, <1>5 DEF Crank

LEMMA CreatorStepWindows ==
  ASSUME IInv, TypeOK', LegTerms, NeverAttested, Windows, Over => Over', CreatorStep
  PROVE  Windows'
<1> USE DEF IInv
<1>1. ASSUME NEW m \in ManualModes, ConfigureTaskValidation(m) PROVE Windows'
  <2>1. ~Hired /\ (m # "CreatorReview" => ReferrerFeeBps = 0)
    BY <1>1 DEF ConfigureTaskValidation, Configurable, LegTerms, Terminal
  <2>2. m = "CreatorReview"
    BY <2>1, TaskAssumption DEF NeverAttested, Manual
  <2>3. ClocksKept /\ now' = now /\ mode' = "CreatorReview" /\ status' = status
    BY <1>1, <2>2 DEF ConfigureTaskValidation, ClocksKept, submissionVars, claimVars
  <2>4. IsManual'
    BY <2>3 DEF IsManual, Manual
  <2> QED
    BY <2>3, <2>4 DEF Windows, ClocksKept, Covered, WindowEnd, Over
<1>2. CASE CancelTask
  <2>1. /\ mode' = mode /\ submission' = submission /\ claims' \subseteq claims
        /\ status' = "Cancelled"
        /\ \A w \in claims' : expires_at'[w] = expires_at[w]
    BY <1>2 DEF CancelTask, taskVars, submissionVars, TypeOK
  <2> QED
    BY <2>1, OverCovered DEF Over, Terminal
<1>3. CASE PostCreatorBond
  BY <1>3, ClocksKeptCovered
     DEF PostCreatorBond, PostBond, ClocksKept, submissionVars, claimVars, taskVars, TypeOK
<1>4. ASSUME NEW sweepConfig \in BOOLEAN, NEW swept \in SUBSET Workers,
             CloseTask(sweepConfig, swept)
      PROVE  Windows'
  <2>1. /\ mode' = mode /\ UNCHANGED <<claims, expires_at>> /\ Over'
        /\ \A w \in Workers : submission'[w] \in {submission[w], "none"}
    BY <1>4 DEF CloseTask, claimVars, Over, TypeOK
  <2> QED
    BY <2>1 DEF Windows, IsManual
<1> QED
  BY <1>1, <1>2, <1>3, <1>4 DEF CreatorStep

LEMMA StepWindows ==
  ASSUME IInv, LegTerms, NeverAttested, Windows, [Next]_vars
  PROVE  Windows'
<1>1. TypeOK' /\ TypeOK
  BY StepType DEF IInv
<1>2. CASE UNCHANGED vars
  BY <1>2 DEF vars, taskVars, claimVars, submissionVars, Windows, Over, Covered,
              WindowEnd, IsManual
<1>3. CASE Next
  <2>1. Over => Over'
    BY <1>3, OverStays
  <2>2. CASE Tick
    BY <1>1, <2>1, <2>2, ClocksKeptCovered
       DEF Tick, ClocksKept, submissionVars, claimVars, taskVars, TypeOK
  <2> QED
    BY <1>1, <1>3, <2>1, <2>2, ReviewStepWindows, WorkerStepWindows, CrankWindows,
       CreatorStepWindows DEF Next
<1> QED
  BY <1>2, <1>3

\* A bounced worker's claim is not removed by any step before its window ends.
WindowHonoured ==
  \A w \in claims :
    submission[w] = "Rejected" /\ w \notin claims' /\ mode = "CreatorReview"
      => \/ status \in Terminal \cup {"RejectFrozen"}
         \/ now > rejected_at[w] + ReviewWindow

LEMMA ClaimGone ==
  ASSUME IInv, Windows, Next, ~Over, NEW w \in claims, submission[w] = "Rejected",
         w \notin claims', mode = "CreatorReview"
  PROVE  now > WindowEnd(w)
<1>1. w \in Workers /\ Covered(w) /\ now \in Nat /\ deadline \in Nat
      /\ expires_at[w] \in Nat /\ WindowEnd(w) \in Nat
  BY TimesAssumption DEF IInv, TypeOK, Windows, WindowEnd
<1>2. DeadlinePassed => now > WindowEnd(w)
  BY <1>1 DEF DeadlinePassed, Covered
<1>3. now > expires_at[w] => now > WindowEnd(w)
  BY <1>1 DEF Covered
<1>4. ~Tick
  BY DEF Tick, claimVars
<1>5. CreatorStep => DeadlinePassed
  <2>1. CreatorStep => CancelTask
    BY DEF CreatorStep, ConfigureTaskValidation, PostCreatorBond, PostBond, CloseTask,
           claimVars
  <2>2. status # "Open"
    BY DEF IInv, StatusMatchesWork
  <2> QED
    BY <2>1, <2>2 DEF CancelTask, Cancellable
<1>6. ASSUME NEW v \in Workers PROVE ~ReviewStep(v)
  BY <1>6 DEF ReviewStep, AcceptTaskResult, ValidateTaskResult, AcceptSubmission,
     ResolveFrozenForWorker, RejectTaskResult, RequestChanges, RejectAndFreeze,
     RefuseTaskResult, ResolveFrozenForCreator, SubmissionPending, CloseClaim,
     Over, claimVars
<1>7. ASSUME NEW v \in Workers, WorkerStep(v) PROVE now > expires_at[w]
  BY <1>7 DEF WorkerStep, ClaimTask, SubmitTaskResult, CompleteTask, SelfCertified,
     IsManual, Manual, PostWorkerBond, PostBond, ExpireClaim, Expired, CloseClaim,
     claimVars
<1>8. ASSUME NEW v \in Workers, Crank(v) PROVE now > expires_at[w]
  BY <1>8 DEF Crank, AutoAcceptTaskResult, AcceptSubmission, DistributeGhostShare,
     ExpireRejectFrozen, ReclaimTerminalClaim, SubmissionPending, ExpireClaim, Expired,
     CloseClaim, Over
<1> QED
  BY <1>2, <1>3, <1>4, <1>5, <1>6, <1>7, <1>8 DEF Next

\* On a task that is never attested, changes its creator requests leave the
\* worker the full review window, whatever deadline, expiry or cancellation is
\* due meanwhile.
THEOREM ResubmitWindowAlwaysHonoured ==
  ASSUME NeverAttested
  PROVE  Spec => ResubmitWindowHonoured
<1>1. Init => Windows
  BY InitWindows
<1>2. IInv /\ LegTerms /\ Windows /\ [Next]_vars => Windows'
  BY StepWindows
<1>3. IInv /\ Windows /\ [Next]_vars => [WindowHonoured]_vars
  BY ClaimGone DEF WindowHonoured, Over, WindowEnd
<1>4. ResubmitWindowHonoured <=> [][WindowHonoured]_vars
  BY DEF ResubmitWindowHonoured, WindowHonoured
<1>5. Spec => []LegTerms
  BY InitLegTerms, StepLegTerms, PTL DEF Spec
<1> QED
  BY <1>1, <1>2, <1>3, <1>4, <1>5, Invariant, PTL DEF Spec

-----------------------------------------------------------------------------
(***************************************************************************)
(* Every settlement pays the legs.                                         *)
(***************************************************************************)
\* A settlement pays each leg its fee on what it releases.
LegsPaid ==
  tasks_completed' # tasks_completed =>
    \E creditable \in CreditableLegs : \A leg \in Legs :
      wallet'[leg] - wallet[leg] =
        IF leg \in creditable
        THEN Portion(distributed' - distributed, LegFeeBps(leg)) ELSE 0

\* The terms carry the fees the task was created with.
LegsOf(terms) ==
  /\ terms.creditable \in CreditableLegs
  /\ terms.operator = OperatorFeeBps /\ terms.referrer = ReferrerFeeBps

NothingForLegs(f) == \A leg \in Legs : f[leg] = 0

LEMMA PayOutLeg ==
  ASSUME NEW w \in Workers, NEW base \in Nat, NEW terms \in Quantities, LegsOf(terms),
         NEW leg \in Legs
  PROVE  PayOut(w, SplitOf(base, terms))[leg] =
           IF leg \in terms.creditable THEN Portion(base, LegFeeBps(leg)) ELSE 0
<1>1. /\ leg \in Parties /\ leg # w /\ leg # "treasury"
      /\ leg = "operator" \/ leg = "referrer"
  BY WorkersAssumption DEF Legs, Parties, Others
<1>2. LegPaid(base, terms, leg) \in Nat
  BY LegPaidType
<1>3. PayOut(w, SplitOf(base, terms))[leg] = LegPaid(base, terms, leg)
  BY <1>1, <1>2 DEF PayOut, Both, Pay, SplitOf
<1> QED
  BY <1>1, <1>3 DEF LegPaid, LegsOf, LegFeeBps

\* What is credited to a leg in a step that pays out a split of base.
LEMMA LegsCredited ==
  ASSUME TypeOK, NEW w \in Workers, NEW base \in Nat, NEW terms \in Quantities,
         LegsOf(terms), NEW extra, NothingForLegs(extra), NEW back \in Int,
         distributed' = distributed + base,
         wallet' = [q \in Parties |-> wallet[q] +
           Both(Both(PayOut(w, SplitOf(base, terms)), extra), Pay("creator", back))[q]]
  PROVE  LegsPaid
<1>1. distributed' - distributed = base
  BY DEF TypeOK
<1>2. ASSUME NEW leg \in Legs
      PROVE  wallet'[leg] - wallet[leg] =
               IF leg \in terms.creditable THEN Portion(base, LegFeeBps(leg)) ELSE 0
  <2>1. leg \in Parties /\ leg # "creator"
    BY DEF Legs, Parties, Others
  <2>2. wallet[leg] \in Int
    BY <2>1 DEF TypeOK
  <2> DEFINE paid == IF leg \in terms.creditable THEN Portion(base, LegFeeBps(leg)) ELSE 0
  <2>3. LegFeeBps(leg) \in Nat
    <3>1. OperatorFeeBps \in Nat /\ ReferrerFeeBps \in Nat
      BY FeesAssumption DEF MaxOperatorFeeBps, MaxReferrerFeeBps
    <3> QED
      BY <3>1 DEF LegFeeBps
  <2>4. paid \in Nat
    BY <2>3, PortionType
  <2>5. PayOut(w, SplitOf(base, terms))[leg] = paid
    BY PayOutLeg
  <2>6. wallet'[leg] = wallet[leg] + ((paid + 0) + 0)
    BY <2>1, <2>5 DEF Both, Pay, NothingForLegs
  <2> QED
    BY <2>2, <2>4, <2>6
<1> QED
  BY <1>1, <1>2 DEF LegsPaid, LegsOf

LEMMA SettlementLegs ==
  ASSUME TypeOK, NEW w \in Workers, NEW terms \in Quantities, LegsOf(terms),
         NEW extra, NothingForLegs(extra), ExecuteCompletionRewards(w, terms, extra)
  PROVE  LegsPaid
<1>1. PICK base \in Nat :
        /\ distributed' = distributed + base
        /\ wallet' = [q \in Parties |-> wallet[q] +
             Both(Both(PayOut(w, SplitOf(base, terms)), extra),
                  Pay("creator", IF Completes THEN escrow_lamports - base ELSE 0))[q]]
  BY SettlementEffect
<1>2. (IF Completes THEN escrow_lamports - base ELSE 0) \in Int
  BY DEF TypeOK
<1> QED
  BY <1>1, <1>2, LegsCredited

\* Bonds and deposits go to no leg.
LEMMA ExtrasForNoLeg ==
  ASSUME NEW w \in Workers
  PROVE  /\ NothingForLegs(Deposit(w, w))
         /\ NothingForLegs(Both(RefundBonds(w), Deposit(w, w)))
         /\ NothingForLegs(Both(Both(Refund(w), Forfeit("creator", "treasury")),
                                Deposit(w, w)))
<1>1. \A leg \in Legs : leg \in Parties \ {w, "creator", "treasury"}
  BY WorkersAssumption DEF Legs, Parties, Others
<1> QED
  BY <1>1 DEF NothingForLegs, Both, RefundBonds, Refund, Forfeit, Deposit, Pay

LEMMA TermsCarryLegs ==
  ASSUME NEW terms \in Terms
  PROVE  /\ terms \in Quantities /\ LegsOf(terms)
         /\ LET none == [terms EXCEPT !.operator = 0, !.referrer = 0]
            IN /\ none \in Quantities
               /\ OperatorFeeBps = 0 /\ ReferrerFeeBps = 0 => LegsOf(none)
<1>1. LegsOf(terms)
  BY DEF LegsOf, Terms
<1> QED
  BY <1>1, TermsType DEF LegsOf, Quantities

LEMMA ReviewStepLegs ==
  ASSUME IInv, LegTerms, NEW w \in Workers, ReviewStep(w)
  PROVE  LegsPaid
<1>1. TypeOK
  BY DEF IInv
<1>2. ASSUME NEW terms \in Quantities, LegsOf(terms), AcceptSubmission(w, terms)
      PROVE  LegsPaid
  BY <1>1, <1>2, SettlementLegs, ExtrasForNoLeg DEF AcceptSubmission
<1>3. ASSUME NEW terms \in Terms, AcceptTaskResult(w, terms) PROVE LegsPaid
  BY <1>2, <1>3, TermsCarryLegs DEF AcceptTaskResult
<1>4. ASSUME NEW terms \in Terms, ValidateTaskResult(w, terms) PROVE LegsPaid
  BY <1>2, <1>4, TermsCarryLegs DEF ValidateTaskResult, LegTerms
<1>5. ASSUME NEW terms \in Terms, ResolveFrozenForWorker(w, terms) PROVE LegsPaid
  BY <1>1, <1>5, TermsCarryLegs, SettlementLegs, ExtrasForNoLeg DEF ResolveFrozenForWorker
<1>6. CASE RejectTaskResult(w) \/ RequestChanges(w) \/ RejectAndFreeze(w)
             \/ RefuseTaskResult(w) \/ ResolveFrozenForCreator(w)
  BY <1>6 DEF RejectTaskResult, RequestChanges, RejectAndFreeze, RefuseTaskResult,
              ResolveFrozenForCreator, LegsPaid
<1> QED
  BY <1>3, <1>4, <1>5, <1>6 DEF ReviewStep

LEMMA WorkerStepLegs ==
  ASSUME IInv, NEW w \in Workers, WorkerStep(w)
  PROVE  LegsPaid
<1>1. TypeOK
  BY DEF IInv
<1>2. ASSUME NEW terms \in Terms, CompleteTask(w, terms) PROVE LegsPaid
  BY <1>1, <1>2, TermsCarryLegs, SettlementLegs, ExtrasForNoLeg DEF CompleteTask
<1>3. CASE ClaimTask(w) \/ SubmitTaskResult(w) \/ PostWorkerBond(w) \/ ExpireClaim(w, w)
  BY <1>3 DEF ClaimTask, SubmitTaskResult, PostWorkerBond, PostBond, ExpireClaim,
              counterVars, LegsPaid
<1> QED
  BY <1>2, <1>3 DEF WorkerStep

LEMMA CrankLegs ==
  ASSUME IInv, NEW w \in Workers, Crank(w)
  PROVE  LegsPaid
<1>1. TypeOK
  BY DEF IInv
<1>2. ASSUME NEW terms \in Terms, AutoAcceptTaskResult(w, terms) PROVE LegsPaid
  BY <1>1, <1>2, TermsCarryLegs, SettlementLegs, ExtrasForNoLeg
     DEF AutoAcceptTaskResult, AcceptSubmission
<1>3. ASSUME NEW terms \in Terms, DistributeGhostShare(w, terms) PROVE LegsPaid
  <2>1. terms \in Quantities /\ LegsOf(terms)
    BY TermsCarryLegs
  <2> DEFINE last == live_submissions = 1
  <2>2. PICK slice \in Nat :
          /\ distributed' = distributed + slice
          /\ wallet' = [q \in Parties |-> wallet[q] +
               Both(Both(PayOut(w, SplitOf(slice, terms)), Deposit(w, w)),
                    Pay("creator", IF last THEN escrow_lamports - slice ELSE 0))[q]]
    BY <1>1, <1>3, <2>1, GhostShareEffect
  <2>3. (IF last THEN escrow_lamports - slice ELSE 0) \in Int
    BY <1>1 DEF TypeOK
  <2> QED
    BY <1>1, <2>1, <2>2, <2>3, ExtrasForNoLeg, LegsCredited
<1>4. ASSUME NEW terms \in Terms, ExpireRejectFrozen(w, terms) PROVE LegsPaid
  BY <1>1, <1>4, TermsCarryLegs, SettlementLegs, ExtrasForNoLeg DEF ExpireRejectFrozen
<1>5. CASE ExpireClaim(w, "cranker") \/ ReclaimTerminalClaim(w)
  BY <1>5 DEF ExpireClaim, ReclaimTerminalClaim, LegsPaid
<1> QED
  BY <1>2, <1>3, <1>4, <1>5 DEF Crank

LEMMA CreatorStepLegs ==
  ASSUME CreatorStep
  PROVE  LegsPaid
BY DEF CreatorStep, ConfigureTaskValidation, CancelTask, PostCreatorBond, PostBond,
       CloseTask, counterVars, LegsPaid

\* Every completion pays the operator and the referrer their fee on what it
\* releases, unless the payee cannot be credited; in particular no task that
\* owes a leg ever reaches the attested settlement, which passes none.
THEOREM LegsAreNeverSkipped == Spec => LegsNeverSkipped
<1>1. Init => LegTerms
  BY InitLegTerms
<1>2. LegTerms /\ [Next]_vars => LegTerms'
  BY StepLegTerms
<1>3. IInv /\ LegTerms /\ [Next]_vars => [LegsPaid]_vars
  <2> SUFFICES ASSUME IInv, LegTerms, Next PROVE LegsPaid
    OBVIOUS
  <2>1. CASE Tick
    BY <2>1 DEF Tick, counterVars, LegsPaid
  <2> QED
    BY <2>1, CreatorStepLegs, ReviewStepLegs, WorkerStepLegs, CrankLegs DEF Next
<1>4. LegsNeverSkipped <=> [][LegsPaid]_vars
  BY DEF LegsNeverSkipped, LegsPaid
<1> QED
  BY <1>1, <1>2, <1>3, <1>4, Invariant, PTL DEF Spec

=============================================================================
