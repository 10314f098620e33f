----------------------------- MODULE RewardSplit -----------------------------
(***************************************************************************)
(* The settlement arithmetic of agenc-coordination: what share of a task's *)
(* reward one completion releases, how a released amount is split between  *)
(* the worker, the protocol treasury, the operator and the referrer, and   *)
(* what slice a contest entrant receives when the creator went silent.     *)
(*                                                                         *)
(* Amounts are lamports (naturals).  The program computes every product in *)
(* u128 and the quotients fit u64, so unbounded integers are exact.        *)
(* Transcribed from instructions/completion_helpers.rs and                 *)
(* instructions/distribute_ghost_share.rs.                                 *)
(***************************************************************************)
EXTENDS Integers

BasisPoints == 10000

MaxOperatorFeeBps == 2000
MaxReferrerFeeBps == 2000
MaxCombinedFeeBps == 4000

\* The task types whose reward is split among required completions, or not.
TaskTypes == {"Exclusive", "Collaborative", "Competitive"}

Legs == {"operator", "referrer"}

\* A floored fraction of an amount, in basis points.
Portion(base, bps) == (base * bps) \div BasisPoints

\* The protocol fee a worker pays: the fee locked into the task less the
\* worker's reputation discount, never discounted to nothing.
EffectiveFeeBps(task_protocol_fee_bps, discount) ==
  IF task_protocol_fee_bps = 0 THEN 0
  ELSE IF task_protocol_fee_bps > discount THEN task_protocol_fee_bps - discount
  ELSE 1

\* The amount one completion releases.  Collaborative tasks divide the reward
\* among the required completions, the first completions taking the remainder.
RewardPerWorker(type, reward, required, completions) ==
  IF type = "Collaborative"
  THEN reward \div required + (IF completions < reward % required THEN 1 ELSE 0)
  ELSE reward

\* What a contest entrant's slice is when `live` submissions are unresolved.
GhostSlice(remaining, live) == remaining \div live

(***************************************************************************)
(* The terms of one settlement: protocol, operator and referrer are fees   *)
(* in basis points, and creditable is the set of legs whose payee the      *)
(* credit leaves above the rent floor.                                     *)
(***************************************************************************)
FeeTerms == [protocol : 0..BasisPoints, operator : 0..BasisPoints,
             referrer : 0..BasisPoints, creditable : SUBSET Legs]

\* calculate_combined_fees: only a settlement with an active leg checks caps.
WithinCaps(terms) ==
  terms.operator > 0 \/ terms.referrer > 0 =>
    /\ terms.operator <= MaxOperatorFeeBps
    /\ terms.referrer <= MaxReferrerFeeBps
    /\ terms.protocol + terms.operator + terms.referrer <= MaxCombinedFeeBps

\* A settlement is refused unless the worker keeps at least one lamport even
\* when every leg is paid.
SplitAllowed(base, terms) ==
  /\ WithinCaps(terms)
  /\ Portion(base, terms.protocol) + Portion(base, terms.operator)
       + Portion(base, terms.referrer) < base

\* A leg that cannot be credited stays with the worker.
LegPaid(base, terms, leg) ==
  IF leg \in terms.creditable
  THEN Portion(base, IF leg = "operator" THEN terms.operator ELSE terms.referrer)
  ELSE 0

SplitOf(base, terms) ==
  [protocol |-> Portion(base, terms.protocol),
   operator |-> LegPaid(base, terms, "operator"),
   referrer |-> LegPaid(base, terms, "referrer"),
   worker   |-> base - Portion(base, terms.protocol)
                     - LegPaid(base, terms, "operator")
                     - LegPaid(base, terms, "referrer")]

\* What the escrow pays out in one settlement.
SplitTotal(s) == s.worker + s.protocol + s.operator + s.referrer

=============================================================================
