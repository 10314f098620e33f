--------------------------- MODULE TransactionSend ---------------------------
(***************************************************************************)
(* One call of MarketplaceClient.send: fetch a blockhash, sign, submit     *)
(* through the RPC transport, confirm, retry with a fresh signature where  *)
(* that is safe, and otherwise report the outcome of the one transaction   *)
(* that may have been broadcast.                                           *)
(*                                                                         *)
(* Attempt i has its own blockhash and signature, so two attempts that are *)
(* both broadcast may both be executed.  What the cluster does with a      *)
(* broadcast transaction, what its nodes let the client see of it, and     *)
(* which answers get lost are the environment's choice.                    *)
(*                                                                         *)
(* An operator named X_Mistake, just before an operator X, is a deliberate *)
(* mistake in X that nothing uses.                                         *)
(***************************************************************************)
EXTENDS Integers

CONSTANTS
  MaxRetries,     \* options.maxRetries: re-signed attempts
  Rechecks,       \* EXPIRY_STATUS_RECHECKS, status polls after the expiry
  Target,         \* rank of the commitment to confirm to
  Transports,     \* kinds of transport: "poll" or "notified"
  StatusLookup,   \* whether the transport has getSignatureStatus
  None            \* no status

Attempts == 0..MaxRetries
Ranks == 0..2                      \* processed, confirmed, finalized
Statuses == [result: {"ok", "err"}, rank: Ranks]

ASSUME RetriesAssumption == MaxRetries \in Nat
ASSUME RechecksAssumption == Rechecks \in Nat
ASSUME TargetAssumption == Target \in Ranks
ASSUME SwitchesAssumption ==
  Transports \subseteq {"poll", "notified"} /\ StatusLookup \in BOOLEAN
ASSUME NoneAssumption == None \notin Statuses

VARIABLES
  pc,         \* the step the client is at, or "done"
  attempt,    \* attempts re-signed so far
  rechecks,   \* status polls since the expiry was seen
  late,       \* whether the confirmation deadline has passed
  outcome,    \* what send has returned or thrown
  broadcast,  \* attempts whose wire bytes some node has accepted
  status,     \* the cluster's status of each attempt
  abandoned,  \* history: attempts whose block was abandoned at some time
  expired     \* attempts whose last valid block height has passed

client == <<pc, attempt, rechecks, late, outcome>>
cluster == <<broadcast, status, abandoned, expired>>
vars == <<client, cluster>>

Steps == {"prepare", "send", "poll", "height", "recheck", "notified",
          "resolve", "done"}

\* What the caller sees: success, or an AgencError that carries the signature
\* or null, and the program's error code or null.
Pending == [kind |-> "pending", signature |-> "null", code |-> "null"]
Success == [kind |-> "success", signature |-> "local", code |-> "null"]
Error(signature, code) ==
  [kind |-> "error", signature |-> signature, code |-> code]
Codes == {"null", "program"}
Outcomes == [kind: {"pending", "success", "error"},
             signature: {"null", "local"}, code: Codes]

Init ==
  /\ pc = "prepare"
  /\ attempt = 0
  /\ rechecks = 0
  /\ late = FALSE
  /\ outcome = Pending
  /\ broadcast = {}
  /\ status = [i \in Attempts |-> None]
  /\ abandoned = {}
  /\ expired = {}

-----------------------------------------------------------------------------
(* The cluster.                                                            *)

\* A leader executes the transaction, at most once within its lifetime.
Include ==
  \E i \in broadcast \ expired, r \in {"ok", "err"} :
    /\ status[i] = None
    /\ status' = [status EXCEPT ![i] = [result |-> r, rank |-> 0]]
    /\ UNCHANGED <<client, broadcast, abandoned, expired>>

Confirm ==
  \E i \in broadcast :
    /\ status[i] # None
    /\ status[i].rank < 2
    /\ status' = [status EXCEPT ![i].rank = @ + 1]
    /\ UNCHANGED <<client, broadcast, abandoned, expired>>

\* The block is abandoned: the surviving fork has not executed the
\* transaction, or has executed it on another state.
SwitchFork ==
  \E i \in broadcast, r \in {"ok", "err"} :
    /\ status[i] # None
    /\ status[i].rank = 0
    /\ status' = [status EXCEPT ![i] = None]
         \/ status' = [status EXCEPT ![i].result = r]
    /\ abandoned' = abandoned \cup {i}
    /\ UNCHANGED <<client, broadcast, expired>>

Expire ==
  \E i \in 0..attempt :
    /\ i \notin expired
    /\ expired' = expired \cup {i}
    /\ UNCHANGED <<client, broadcast, status, abandoned>>

Deadline ==
  /\ ~late
  /\ pc \in {"poll", "height", "recheck"}
  /\ late' = TRUE
  /\ UNCHANGED <<pc, attempt, rechecks, outcome, cluster>>

-----------------------------------------------------------------------------
(* The client.                                                             *)

Finish(o) ==
  /\ pc' = "done"
  /\ outcome' = o
  /\ UNCHANGED <<attempt, rechecks, late>>

Goto(step) ==
  /\ pc' = step
  /\ UNCHANGED <<attempt, rechecks, late, outcome>>

\* Blockhash, assembly, size checks and signing; nothing is in flight yet.
Prepare ==
  /\ pc = "prepare"
  /\ Goto("send") \/ Finish(Error("null", "null"))
  /\ UNCHANGED cluster

Accepted == broadcast' = broadcast \cup {attempt}

SendAccepted ==
  /\ pc = "send"
  /\ Accepted
  /\ \E step \in Transports : Goto(step)
  /\ UNCHANGED <<status, abandoned, expired>>

\* The request or its answer is lost, or could not be built: the error is
\* bound to the local signature.
SendLost ==
  /\ pc = "send"
  /\ Accepted \/ UNCHANGED broadcast
  /\ Finish(Error("local", "null"))
  /\ UNCHANGED <<status, abandoned, expired>>

\* A rejected simulation: the node has not passed the transaction on.
Rejected_OrPassedOn ==
  /\ Accepted \/ UNCHANGED broadcast
  /\ UNCHANGED <<status, abandoned, expired>>
Rejected == UNCHANGED cluster

MayRetry == attempt < MaxRetries

\* An unknown blockhash is the only failure that may be retried, and after
\* signing the only one without a signature.
PreflightBlockhashNotFound ==
  /\ pc = "send"
  /\ IF MayRetry
     THEN /\ attempt' = attempt + 1
          /\ pc' = "prepare"
          /\ UNCHANGED <<rechecks, late, outcome>>
     ELSE Finish(Error("null", "null"))
  /\ Rejected

\* Another simulation failure, usually the program's own error, which the
\* caller knows by its code.
PreflightFailure ==
  /\ pc = "send"
  /\ \E code \in Codes : Finish(Error("local", code))
  /\ Rejected

\* A blockhash rejection without the provenance of a simulation: it does not
\* prove that nothing was passed on.
UnbrandedBlockhashNotFound ==
  /\ pc = "send"
  /\ "poll" \in Transports
  /\ Accepted \/ UNCHANGED broadcast
  /\ Goto("resolve")
  /\ UNCHANGED <<status, abandoned, expired>>

\* A node's status view may lag behind the cluster.
View == {status[attempt], None}

\* What the polling loop does with a status it has received.
Seen_NoDeadline(s, retry) ==
  \/ s.result = "err" /\ Finish(Error("local", "program"))
  \/ s.result = "ok" /\ s.rank >= Target /\ Finish(Success)
  \/ s.result = "ok" /\ s.rank < Target /\ retry
Seen(s, retry) ==
  \/ s.result = "err" /\ Finish(Error("local", "program"))
  \/ s.result = "ok" /\ s.rank >= Target /\ Finish(Success)
  \/ /\ s.result = "ok" /\ s.rank < Target
     /\ IF late THEN Finish(Error("local", "null")) ELSE retry

PollStatus ==
  /\ pc = "poll"
  /\ \E s \in View : IF s = None THEN Goto("height") ELSE Seen(s, Goto("poll"))
  /\ UNCHANGED cluster

CheckHeight ==
  /\ pc = "height"
  /\ IF attempt \in expired
     THEN /\ rechecks' = 0
          /\ pc' = IF Rechecks = 0 THEN "resolve" ELSE "recheck"
          /\ UNCHANGED <<attempt, late, outcome>>
     ELSE IF late THEN Finish(Error("local", "null")) ELSE Goto("poll")
  /\ UNCHANGED cluster

\* The status may lag the height: look again before concluding.
Recheck ==
  /\ pc = "recheck"
  /\ \E s \in View :
       IF s = None
       THEN /\ rechecks' = rechecks + 1
            /\ pc' = IF rechecks + 1 < Rechecks THEN "recheck" ELSE "resolve"
            /\ UNCHANGED <<attempt, late, outcome>>
       ELSE Seen(s, Goto("poll"))
  /\ UNCHANGED cluster

\* sendAndConfirmTransactionFactory of @solana/kit, which answers from
\* notifications of the target commitment and watches the block height.
Notification ==
  /\ pc = "notified"
  /\ \/ /\ status[attempt] # None
        /\ status[attempt].rank >= Target
        /\ Finish(IF status[attempt].result = "ok"
                  THEN Success ELSE Error("local", "program"))
     \/ attempt \in expired /\ Goto("resolve")
  /\ UNCHANGED cluster

\* Any call to the node may fail while the transaction is in flight.
ConfirmationFails ==
  /\ pc \in {"poll", "height", "recheck", "notified"}
  /\ Finish(Error("local", "null"))
  /\ UNCHANGED cluster

\* resolveLandedAttempt after an expiry: only a status at the promised
\* commitment is a success; whatever is unknown fails closed.
ResolveLandedAttempt_TrustsProcessed ==
  /\ pc = "resolve"
  /\ \E s \in View :
       Finish(IF s = None THEN Error("local", "null")
              ELSE IF s.result = "err" THEN Error("local", "program") ELSE Success)
  /\ UNCHANGED cluster
ResolveLandedAttempt ==
  /\ pc = "resolve"
  /\ \/ Finish(Error("local", "null"))
     \/ /\ StatusLookup
        /\ status[attempt] # None
        /\ \/ /\ status[attempt].result = "err"
              /\ Finish(Error("local", "program"))
           \/ /\ status[attempt].result = "ok"
              /\ status[attempt].rank >= Target
              /\ Finish(Success)
  /\ UNCHANGED cluster

Client ==
  \/ Prepare \/ SendAccepted \/ PreflightBlockhashNotFound
  \/ PreflightFailure \/ UnbrandedBlockhashNotFound \/ PollStatus
  \/ CheckHeight \/ Recheck \/ Notification \/ ResolveLandedAttempt

Next == \/ Client \/ SendLost \/ ConfirmationFails
        \/ Include \/ Confirm \/ SwitchFork \/ Expire \/ Deadline

Spec == Init /\ [][Next]_vars

\* The client runs, time passes and blocks are produced; no call need fail.
FairSpec == Spec /\ WF_vars(Client) /\ WF_vars(Deadline) /\ WF_vars(Expire)

-----------------------------------------------------------------------------
TypeOK ==
  /\ pc \in Steps
  /\ attempt \in Attempts
  /\ rechecks \in 0..Rechecks
  /\ late \in BOOLEAN
  /\ outcome \in Outcomes
  /\ broadcast \subseteq Attempts
  /\ status \in [Attempts -> Statuses \cup {None}]
  /\ abandoned \subseteq Attempts
  /\ expired \subseteq Attempts

\* One call never has two transactions in flight: whatever is lost, lagging or
\* expired, the instructions are executed at most once (the re-sign loop of
\* send and resolveLandedAttempt).
AtMostOneBroadcast == \A i, j \in broadcast : i = j

\* Success is reported only for a transaction that was executed without error
\* at the promised commitment (client.ts resolveLandedAttempt, transport.ts
\* sendAndConfirm).
SuccessIsConfirmed ==
  outcome.kind = "success" =>
    /\ status[attempt] # None
    /\ status[attempt].result = "ok"
    /\ status[attempt].rank >= Target

\* An error without a signature proves that nothing was broadcast: a caller
\* may start over (AgencError.signature).
UnsignedErrorMeansUnsent ==
  outcome.kind = "error" /\ outcome.signature = "null" => broadcast = {}

\* An error that carries the program's code is final: no attempt has taken, or
\* will ever take, effect.  The worker gives its claim up on this evidence.
\* Only an abandoned block can prove it wrong: the error may be one of a merely
\* processed block (transport.ts sendAndConfirm, client.ts resolveLandedAttempt).
CodedErrorIsFinal ==
  outcome.kind = "error" /\ outcome.code = "program" =>
    \A i \in Attempts \ abandoned : status[i] = None \/ status[i].result = "err"

\* Every call returns or throws: the height and the deadline end the wait.
SendReturns == <>(pc = "done")

=============================================================================
