------------------------ MODULE TransactionSendProofs ------------------------
(***************************************************************************)
(* For any number of retries and rechecks and either kind of transport: at *)
(* most one transaction of a call is broadcast, and what the call reports  *)
(* about it is true.                                                       *)
(***************************************************************************)
EXTENDS TransactionSend, TLAPS

\* Only the current attempt can be in flight, and none before it is sent.
InFlight ==
  /\ broadcast \subseteq {attempt}
  /\ pc \in {"prepare", "send"} => broadcast = {}
  /\ \A i \in Attempts : i \notin broadcast => status[i] = None

\* The call has an outcome exactly when it is over.
Reported ==
  /\ pc = "done" <=> outcome.kind # "pending"
  /\ outcome.kind = "pending" => outcome.code = "null"
  /\ pc = "recheck" => rechecks < Rechecks

\* A coded error is about nothing sent, or about an executed failure, unless
\* the block it was seen in has been abandoned.
CodedErrorIsKnown ==
  outcome.code = "program" =>
    \/ broadcast = {}
    \/ attempt \in abandoned
    \/ status[attempt] # None /\ status[attempt].result = "err"

Inv == TypeOK /\ InFlight /\ Reported /\ UnsignedErrorMeansUnsent

USE RetriesAssumption, RechecksAssumption, TargetAssumption,
    SwitchesAssumption, NoneAssumption

LEMMA InitInv == Init => Inv
<1> SUFFICES ASSUME Init PROVE Inv
  OBVIOUS
<1>1. status \in [Attempts -> Statuses \cup {None}]
  BY DEF Init
<1>2. outcome \in Outcomes
  BY DEF Init, Pending, Outcomes, Codes
<1>3. /\ pc \in Steps /\ attempt \in Attempts /\ rechecks \in 0..Rechecks
      /\ late \in BOOLEAN /\ broadcast \subseteq Attempts
      /\ abandoned \subseteq Attempts /\ expired \subseteq Attempts
  <2>1. 0 \in 0..MaxRetries /\ 0 \in 0..Rechecks
    BY RetriesAssumption, RechecksAssumption
  <2> QED
    BY <2>1 DEF Init, Steps, Attempts
<1>4. InFlight /\ Reported /\ UnsignedErrorMeansUnsent
  BY DEF Init, InFlight, Reported, UnsignedErrorMeansUnsent, Pending
<1> QED
  BY <1>1, <1>2, <1>3, <1>4 DEF Inv, TypeOK

LEMMA InvStep == Inv /\ [Next]_vars => Inv'
<1> SUFFICES ASSUME Inv, [Next]_vars PROVE Inv'
  OBVIOUS
<1> USE DEF Inv, TypeOK, InFlight, Reported, UnsignedErrorMeansUnsent,
            Attempts, Steps, Outcomes, Codes, Success, Error, Finish, Goto, cluster
<1>1. CASE UNCHANGED vars
  BY <1>1 DEF vars, client
<1>2. CASE Include
  BY <1>2, SMTT(30) DEF Include, client, Statuses, Ranks
<1>3. CASE Confirm
  BY <1>3, SMTT(30) DEF Confirm, client, Statuses, Ranks
<1>4. CASE SwitchFork
  BY <1>4, SMTT(30) DEF SwitchFork, client, Statuses, Ranks
<1>5. CASE Expire
  BY <1>5 DEF Expire, client
<1>6. CASE Deadline
  BY <1>6 DEF Deadline
<1>7. CASE Prepare
  BY <1>7 DEF Prepare
<1>8. CASE SendAccepted
  BY <1>8 DEF SendAccepted, Accepted
<1>9. CASE SendLost
  BY <1>9 DEF SendLost, Accepted
<1>10. CASE PreflightBlockhashNotFound
  BY <1>10 DEF PreflightBlockhashNotFound, Rejected, MayRetry
<1>11. CASE PreflightFailure
  BY <1>11 DEF PreflightFailure, Rejected
<1>12. CASE UnbrandedBlockhashNotFound
  BY <1>12 DEF UnbrandedBlockhashNotFound, Accepted
<1>13. CASE PollStatus
  BY <1>13 DEF PollStatus, Seen
<1>14. CASE CheckHeight
  BY <1>14 DEF CheckHeight
<1>15. CASE Recheck
  <2>1. PICK s \in View :
          IF s = None
          THEN /\ rechecks' = rechecks + 1
               /\ pc' = IF rechecks + 1 < Rechecks THEN "recheck" ELSE "resolve"
               /\ UNCHANGED <<attempt, late, outcome>>
          ELSE Seen(s, Goto("poll"))
    BY <1>15 DEF Recheck
  <2>2. CASE s = None
    BY <1>15, <2>1, <2>2 DEF Recheck
  <2>3. CASE s # None
    BY <1>15, <2>1, <2>3 DEF Recheck, Seen
  <2> QED
    BY <2>2, <2>3
<1>16. CASE Notification
  BY <1>16 DEF Notification
<1>17. CASE ConfirmationFails
  BY <1>17 DEF ConfirmationFails
<1>18. CASE ResolveLandedAttempt
  BY <1>18 DEF ResolveLandedAttempt
<1> QED
  BY <1>1, <1>2, <1>3, <1>4, <1>5, <1>6, <1>7, <1>8, <1>9, <1>10, <1>11,
     <1>12, <1>13, <1>14, <1>15, <1>16, <1>17, <1>18 DEF Next, Client

THEOREM Invariant == Spec => []Inv
  BY InitInv, InvStep, PTL DEF Spec

\* The instructions of one call are executed at most once: no two of its
\* signed attempts are ever in flight (the re-sign loop of send).
THEOREM NeverTwoBroadcasts == Spec => []AtMostOneBroadcast
<1>1. Inv => AtMostOneBroadcast
  BY DEF Inv, InFlight, AtMostOneBroadcast
<1> QED
  BY <1>1, Invariant, PTL

\* An AgencError without a signature proves that nothing was sent (send).
THEOREM UnsignedErrorsAreUnsent == Spec => []UnsignedErrorMeansUnsent
<1>1. Inv => UnsignedErrorMeansUnsent
  BY DEF Inv
<1> QED
  BY <1>1, Invariant, PTL

-----------------------------------------------------------------------------
\* A reported success is an execution without error at the promised
\* commitment, and stays one if that commitment is at least "confirmed"
\* (validateTransportSendResult, resolveLandedAttempt).
THEOREM SuccessIsAlwaysConfirmed ==
  ASSUME Target > 0 PROVE Spec => []SuccessIsConfirmed
<1>1. Init => SuccessIsConfirmed
  BY DEF Init, SuccessIsConfirmed, Pending
<1>2. Inv /\ SuccessIsConfirmed /\ [Next]_vars => SuccessIsConfirmed'
  <2> SUFFICES ASSUME Inv, SuccessIsConfirmed, [Next]_vars
               PROVE  SuccessIsConfirmed'
    OBVIOUS
  <2> USE DEF Inv, TypeOK, Reported, SuccessIsConfirmed, Attempts, Statuses,
              Ranks
  <2>1. CASE UNCHANGED vars
    BY <2>1 DEF vars, client, cluster
  <2>2. CASE Include
    BY <2>2 DEF Include, client
  <2>3. CASE Confirm
    BY <2>3 DEF Confirm, client
  <2>4. CASE SwitchFork
    BY <2>4, SMTT(30) DEF SwitchFork, client
  <2>5. CASE Expire \/ Deadline
    BY <2>5 DEF Expire, Deadline, client, cluster
  <2>6. CASE Client \/ SendLost \/ ConfirmationFails
    <3>1. pc # "done"
      BY <2>6 DEF Client, Prepare, SendAccepted, SendLost, PreflightFailure,
         PreflightBlockhashNotFound, UnbrandedBlockhashNotFound, PollStatus,
         CheckHeight, Recheck, Notification, ConfirmationFails,
         ResolveLandedAttempt
    <3>2. outcome' = outcome \/ outcome'.kind = "error"
            \/ /\ outcome' = Success
               /\ UNCHANGED <<attempt, status>>
               /\ status[attempt] # None
               /\ status[attempt].result = "ok"
               /\ status[attempt].rank >= Target
      <4> USE DEF Finish, Goto, Error, Success, cluster
      <4>1. CASE Prepare \/ SendAccepted \/ SendLost \/ ConfirmationFails
        BY <4>1 DEF Prepare, SendAccepted, SendLost, ConfirmationFails
      <4>2. CASE PreflightBlockhashNotFound \/ PreflightFailure
        BY <4>2 DEF PreflightBlockhashNotFound, PreflightFailure
      <4>3. CASE UnbrandedBlockhashNotFound \/ CheckHeight
        BY <4>3 DEF UnbrandedBlockhashNotFound, CheckHeight
      <4>4. CASE PollStatus
        BY <4>4 DEF PollStatus, Seen, View
      <4>5. CASE Recheck
        BY <4>5 DEF Recheck, Seen, View
      <4>6. CASE Notification
        BY <4>6 DEF Notification
      <4>7. CASE ResolveLandedAttempt
        BY <4>7 DEF ResolveLandedAttempt
      <4> QED
        BY <2>6, <4>1, <4>2, <4>3, <4>4, <4>5, <4>6, <4>7 DEF Client
    <3> QED
      BY <3>1, <3>2
  <2> QED
    BY <2>1, <2>2, <2>3, <2>4, <2>5, <2>6 DEF Next
<1> QED
  BY <1>1, <1>2, Invariant, PTL DEF Spec

\* Unless a block is abandoned, an error with the program's code is final: the
\* worker may give up the claim it was about (send, transport.ts).
THEOREM CodedErrorsAreFinal == Spec => []CodedErrorIsFinal
<1>1. Init => CodedErrorIsKnown
  BY DEF Init, CodedErrorIsKnown, Pending
<1>2. Inv /\ CodedErrorIsKnown /\ [Next]_vars => CodedErrorIsKnown'
  <2> SUFFICES ASSUME Inv, CodedErrorIsKnown, [Next]_vars
               PROVE  CodedErrorIsKnown'
    OBVIOUS
  <2> USE DEF Inv, TypeOK, InFlight, Reported, CodedErrorIsKnown, Attempts,
              Statuses, Ranks, Finish, Goto, Error, Success, Codes, cluster,
              client
  <2>1. CASE UNCHANGED vars
    BY <2>1 DEF vars
  <2>2. CASE Include \/ Confirm \/ SwitchFork
    BY <2>2 DEF Include, Confirm, SwitchFork
  <2>3. CASE Expire
    <3>1. UNCHANGED <<outcome, broadcast, attempt, abandoned, status>>
      BY <2>3 DEF Expire
    <3> QED
      BY <3>1
  <2>11. CASE Deadline
    <3>1. UNCHANGED <<outcome, broadcast, attempt, abandoned, status>>
      BY <2>11 DEF Deadline
    <3> QED
      BY <3>1
  <2>4. CASE Prepare \/ SendAccepted \/ SendLost \/ ConfirmationFails
    BY <2>4 DEF Prepare, SendAccepted, SendLost, ConfirmationFails
  <2>5. CASE PreflightBlockhashNotFound \/ PreflightFailure
    BY <2>5 DEF PreflightBlockhashNotFound, PreflightFailure, Rejected
  <2>6. CASE UnbrandedBlockhashNotFound \/ CheckHeight
    BY <2>6 DEF UnbrandedBlockhashNotFound, CheckHeight
  <2>7. CASE PollStatus
    BY <2>7 DEF PollStatus, Seen, View
  <2>8. CASE Recheck
    BY <2>8 DEF Recheck, Seen, View
  <2>9. CASE Notification
    BY <2>9 DEF Notification
  <2>10. CASE ResolveLandedAttempt
    BY <2>10 DEF ResolveLandedAttempt
  <2> QED
    BY <2>1, <2>2, <2>3, <2>4, <2>5, <2>6, <2>7, <2>8, <2>9, <2>10,
       <2>11 DEF Next, Client
<1>3. Inv /\ CodedErrorIsKnown => CodedErrorIsFinal
  BY DEF Inv, InFlight, CodedErrorIsKnown, CodedErrorIsFinal
<1> QED
  BY <1>1, <1>2, <1>3, Invariant, PTL DEF Spec

=============================================================================
