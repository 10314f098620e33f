---------------------------- MODULE WorkerProofs ----------------------------
(***************************************************************************)
(* What the worker daemon promises, for every set of tasks: its journal    *)
(* can always be loaded again and its earnings are booked once, whatever   *)
(* the switches; and, as long as reads are quicker than the grace period,  *)
(* no node lags and no claim expires under review, nothing it holds or     *)
(* handed in is forgotten, no round is worked on twice, and what is under  *)
(* review is current.                                                      *)
(***************************************************************************)
EXTENDS Worker, RewardSplitProofs

-----------------------------------------------------------------------------
(***************************************************************************)
(* The first inductive invariant: the control state of the worker agrees   *)
(* with its journal, and the chain counts submissions no faster than       *)
(* rounds.                                                                 *)
(***************************************************************************)
\* Where the worker is.
Steps == {"idle", "settle", "examine", "resume", "candidate", "claim", "refuted",
          "unsure", "execute", "deliver", "submit", "sent", "unsent"}
Busy == {"claim", "refuted", "unsure", "execute", "deliver", "submit", "sent", "unsent"}
Readings == [task: SUBSET TaskStatuses, claim: SUBSET ClaimStates,
             sub: SUBSET (Submissions \cup {None})]

PhaseOf(step) ==
  CASE step \in {"claim", "refuted", "unsure"} -> "claiming"
    [] step = "execute" -> "claimed"
    [] step = "deliver" -> "executed"
    [] OTHER -> "submitting"

Control ==
  /\ pc \in Steps
  /\ got \in Readings
  /\ pc \in Busy => open # None /\ at = open.task /\ open.phase = PhaseOf(pc)
  /\ pc = "resume" =>
       IF open = None THEN at = None /\ got = Nothing ELSE at = open.task
  /\ pc = "candidate" => open = None
  /\ pc \in {"settle", "idle"} => at = None /\ got = Nothing
  /\ call # None => pc \in {"claim", "sent"} /\ call.tx.task = at
  /\ call # None => call.tx.kind = (IF pc = "claim" THEN "claim" ELSE "submit")
  /\ pc \in {"claim", "sent"} => call # None

Hashed ==
  /\ open # None /\ open.phase \in {"executed", "submitting"} => open.hash \in Hashes
  /\ \A x \in strays : x.kind = "submit" => x.hash \in Hashes
  /\ call # None /\ call.tx.kind = "submit" => call.tx.hash \in Hashes

Checking ==
  /\ found \in [Tasks -> Outcomes \cup {"straggling"}]
  /\ todo \subseteq Unsettled
  /\ \A t \in Tasks : found[t] # "pending" => t \in Unsettled /\ t \notin todo
  /\ pc \notin {"settle", "examine"} => todo = {} /\ found = NoOutcomes /\ revived = None
  /\ pc = "examine" => at \in Unsettled \ todo /\ found[at] = "pending"
  /\ revived # None =>
       /\ open = None /\ revived.phase = "claimed" /\ found[revived.task] = "pending"
       /\ revived.task \in Unsettled \ todo
       /\ pc = "examine" => revived.task # at

\* A submission is counted no later than the round it was made in.
Counted ==
  \A t \in Tasks :
    /\ sub[t] # None => sub[t].count <= round[t]
    /\ claim[t] = "live" /\ ~Landed(sub[t]) =>
         round[t] >= 1 /\ (sub[t] # None => sub[t].count < round[t])

LoadInv == JournalLoads /\ Control /\ Hashed /\ Checking /\ Counted

USE TasksAssumption, SwitchesAssumption, RoundsAssumption, AbsentAssumption,
    SlowReadsAssumption, UnsettledAssumption, FaultsAssumption, NoEntryAssumption

-----------------------------------------------------------------------------
(***************************************************************************)
(* The chain.                                                              *)
(***************************************************************************)
AccountsTypeOK ==
  /\ task \in [Tasks -> TaskStatuses]
  /\ claim \in [Tasks -> ClaimStates]
  /\ sub \in [Tasks -> Submissions \cup {None}]
  /\ round \in [Tasks -> 0..MaxRounds]
  /\ paid \subseteq Tasks
  /\ behind \in [Tasks -> Snapshots \cup {None}]

LEMMA SubmissionFields ==
  \A s \in Submissions :
    /\ s.status \in {"Submitted", "Rejected"} /\ s.count \in 1..MaxRounds
    /\ s.hash \in Hashes /\ s.thread \in BOOLEAN
    /\ s # None
BY DEF Submissions

\* An instruction changes the accounts of one task.
LEMMA BecomeTypes ==
  ASSUME AccountsTypeOK, NEW t \in Tasks, NEW u \in TaskStatuses,
         NEW c \in ClaimStates, NEW s \in Submissions \cup {None}, Become(t, u, c, s)
  PROVE  /\ task' \in [Tasks -> TaskStatuses]
         /\ claim' \in [Tasks -> ClaimStates]
         /\ sub' \in [Tasks -> Submissions \cup {None}]
         /\ behind' \in [Tasks -> Snapshots \cup {None}]
<1>1. Snapshot(t) \in Snapshots
  BY DEF AccountsTypeOK, Snapshot, Snapshots
<1> QED
  BY <1>1 DEF AccountsTypeOK, Become

LEMMA BecomeFields ==
  ASSUME AccountsTypeOK, NEW t \in Tasks, NEW u, NEW c, NEW s, Become(t, u, c, s)
  PROVE  /\ task'[t] = u /\ claim'[t] = c /\ sub'[t] = s
         /\ \A v \in Tasks \ {t} :
              task'[v] = task[v] /\ claim'[v] = claim[v] /\ sub'[v] = sub[v]
BY DEF AccountsTypeOK, Become

LEMMA GrantTypes ==
  ASSUME AccountsTypeOK, NEW t \in Tasks, round[t] < MaxRounds, Grant(t)
  PROVE  /\ round' \in [Tasks -> 0..MaxRounds]
         /\ round'[t] = round[t] + 1
         /\ \A v \in Tasks \ {t} : round'[v] = round[v]
BY DEF AccountsTypeOK, Grant

CountedFor(t) ==
  /\ sub[t] # None => sub[t].count <= round[t]
  /\ claim[t] = "live" /\ ~Landed(sub[t]) =>
       round[t] >= 1 /\ (sub[t] # None => sub[t].count < round[t])

\* Only the task an instruction is about has to be looked at.
LEMMA CountedOthers ==
  ASSUME AccountsTypeOK, Counted, NEW t \in Tasks, NEW u, NEW c, NEW s,
         Become(t, u, c, s), UNCHANGED round \/ (Grant(t) /\ round[t] < MaxRounds),
         CountedFor(t)'
  PROVE  Counted'
<1>1. \A v \in Tasks \ {t} : round'[v] = round[v]
  BY GrantTypes
<1> QED
  BY <1>1, BecomeFields DEF Counted, CountedFor, Landed

LEMMA PerformTypes ==
  ASSUME AccountsTypeOK, Counted, UNCHANGED paid, NEW x \in Transactions,
         x.kind = "submit" => x.hash \in Hashes, Executable(x), Perform(x)
  PROVE  AccountsTypeOK' /\ Counted'
<1> DEFINE t == x.task
<1>1. t \in Tasks /\ x.kind \in {"claim", "submit"}
  BY DEF Transactions
<1>2. CASE x.kind = "claim"
  <2>1. Claimable(t) /\ Become(t, "InProgress", "live", sub[t]) /\ Grant(t)
    BY <1>2 DEF Executable, Perform
  <2>2. round[t] < MaxRounds /\ claim[t] = "none"
    BY <2>1 DEF Claimable
  <2>3. sub[t] \in Submissions \cup {None}
    BY <1>1 DEF AccountsTypeOK
  <2>4. AccountsTypeOK'
    BY <1>1, <2>1, <2>2, <2>3, BecomeTypes, GrantTypes
       DEF AccountsTypeOK, TaskStatuses, Engaged, ClaimStates
  <2>5. CountedFor(t)'
    BY <1>1, <2>1, <2>2, <2>3, BecomeFields, GrantTypes, SubmissionFields
       DEF Counted, CountedFor, AccountsTypeOK, Landed
  <2> QED
    BY <1>1, <2>1, <2>2, <2>4, <2>5, CountedOthers
<1>3. CASE x.kind = "submit"
  <2> DEFINE s == [status |-> "Submitted", hash |-> x.hash, thread |-> FALSE,
                   count |-> IF sub[t] = None THEN 1 ELSE sub[t].count + 1]
  <2>1. Submittable(t) /\ Become(t, "PendingValidation", claim[t], s) /\ UNCHANGED round
    BY <1>3 DEF Executable, Perform
  <2>2. sub[t] \in Submissions \cup {None} /\ round[t] \in 0..MaxRounds
        /\ claim[t] \in ClaimStates
    BY <1>1 DEF AccountsTypeOK
  <2>3. s.count \in 1..MaxRounds /\ s.count <= round[t]
    BY <1>1, <2>1, <2>2, SubmissionFields DEF Submittable, Counted
  <2>4. s \in Submissions /\ s # None
    <3>1. s \in Submissions
      BY <1>3, <2>3 DEF Submissions
    <3> QED
      BY <3>1, SubmissionFields
  <2>5. AccountsTypeOK'
    BY <1>1, <2>1, <2>2, <2>4, BecomeTypes DEF AccountsTypeOK, TaskStatuses, Engaged
  <2>6. CountedFor(t)'
    <3>1. sub'[t] = s /\ round'[t] = round[t]
      BY <1>1, <2>1, BecomeFields
    <3>2. Landed(s)
      BY <2>4 DEF Landed
    <3> QED
      BY <2>3, <3>1, <3>2 DEF CountedFor
  <2> QED
    BY <1>1, <2>1, <2>5, <2>6, CountedOthers
<1> QED
  BY <1>1, <1>2, <1>3

OthersStep(t) ==
  \/ Accept(t) \/ Reject(t) \/ RequestChanges(t) \/ ExpireClaim(t) \/ Cancel(t)
  \/ OthersWork(t) \/ Sweep(t)

LEMMA OthersStepTypes ==
  ASSUME AccountsTypeOK, Counted, NEW t \in Tasks, OthersStep(t)
  PROVE  AccountsTypeOK' /\ Counted'
<1>0. /\ task[t] \in TaskStatuses /\ claim[t] \in ClaimStates
      /\ sub[t] \in Submissions \cup {None} /\ round[t] \in 0..MaxRounds
  BY DEF AccountsTypeOK
<1>1. ASSUME NEW u \in TaskStatuses, NEW c \in ClaimStates,
             NEW s \in Submissions \cup {None}, Become(t, u, c, s),
             UNCHANGED round, paid' \subseteq Tasks,
             s # None => sub[t] # None /\ s.count <= sub[t].count,
             c = "live" /\ ~Landed(s) => claim[t] = "live" /\ ~Landed(sub[t])
      PROVE  AccountsTypeOK' /\ Counted'
  <2>1. AccountsTypeOK'
    BY <1>1, BecomeTypes DEF AccountsTypeOK
  <2>2. CountedFor(t)'
    BY <1>0, <1>1, BecomeFields, SubmissionFields DEF Counted, CountedFor, Landed
  <2> QED
    BY <1>1, <2>1, <2>2, CountedOthers
<1>2. CASE Accept(t)
  <2>1. PICK u \in TaskStatuses : Become(t, u, "none", None)
    BY <1>2 DEF Accept, Released, TaskStatuses, Engaged, Ended
  <2>2. ~Landed(None) /\ UNCHANGED round /\ paid' = paid \cup {t} /\ paid \subseteq Tasks
    BY <1>2 DEF Accept, Landed, AccountsTypeOK
  <2> QED
    BY <1>1, <2>1, <2>2 DEF ClaimStates
<1>3. CASE Reject(t)
  <2>1. PICK u \in TaskStatuses, left \in {None, [sub[t] EXCEPT !.status = "Rejected"]} :
          Become(t, u, "none", left)
    BY <1>3 DEF Reject, Released, TaskStatuses, Engaged, Ended
  <2>2. sub[t] \in Submissions
    BY <1>0, <1>3 DEF Reject, Landed
  <2>3. left \in Submissions \cup {None} /\ (left # None => left.count <= sub[t].count)
    BY <2>2, SubmissionFields DEF Submissions
  <2>4. UNCHANGED <<round, paid>> /\ paid \subseteq Tasks
    BY <1>3 DEF Reject, AccountsTypeOK
  <2> QED
    BY <1>1, <2>1, <2>2, <2>3, <2>4, SubmissionFields DEF ClaimStates
<1>4. CASE RequestChanges(t)
  <2> DEFINE s == [sub[t] EXCEPT !.status = "Rejected", !.thread = TRUE]
  <2>1. Become(t, "InProgress", "live", s) /\ Grant(t) /\ round[t] < MaxRounds
        /\ UNCHANGED paid /\ sub[t] # None
    BY <1>4 DEF RequestChanges, Landed
  <2>2. sub[t] \in Submissions /\ s \in Submissions /\ s.count = sub[t].count
    BY <1>0, <2>1 DEF Submissions
  <2>3. AccountsTypeOK'
    BY <2>1, <2>2, BecomeTypes, GrantTypes
       DEF AccountsTypeOK, TaskStatuses, Engaged, ClaimStates
  <2>4. sub'[t] = s /\ round'[t] = round[t] + 1 /\ sub[t].count <= round[t]
    BY <2>1, BecomeFields, GrantTypes DEF Counted
  <2>5. CountedFor(t)'
    BY <1>0, <2>2, <2>4, SubmissionFields DEF CountedFor
  <2> QED
    BY <2>1, <2>3, <2>5, CountedOthers
<1>5. CASE ExpireClaim(t)
  <2>1. PICK u \in TaskStatuses, c \in {"expired", "none"} : Become(t, u, c, sub[t])
    BY <1>0, <1>5 DEF ExpireClaim, Released, TaskStatuses, Engaged, Ended
  <2>2. UNCHANGED <<round, paid>> /\ paid \subseteq Tasks
    BY <1>5 DEF ExpireClaim, AccountsTypeOK
  <2> QED
    BY <1>0, <1>1, <2>1, <2>2, SubmissionFields DEF ClaimStates
<1>6. CASE Cancel(t)
  <2>1. Become(t, "Cancelled", "none", sub[t]) /\ UNCHANGED <<round, paid>>
    BY <1>6 DEF Cancel
  <2>2. "Cancelled" \in TaskStatuses /\ "none" \in ClaimStates /\ paid \subseteq Tasks
    BY DEF TaskStatuses, Ended, ClaimStates, AccountsTypeOK
  <2> QED
    BY <1>0, <1>1, <2>1, <2>2, SubmissionFields
<1>7. CASE OthersWork(t)
  <2>1. PICK u \in TaskStatuses, c \in {claim[t], "none"} : Become(t, u, c, sub[t])
    BY <1>7 DEF OthersWork, TaskStatuses, Engaged, Ended
  <2>2. UNCHANGED <<round, paid>> /\ paid \subseteq Tasks
    BY <1>7 DEF OthersWork, AccountsTypeOK
  <2> QED
    BY <1>0, <1>1, <2>1, <2>2, SubmissionFields DEF ClaimStates
<1>8. CASE Sweep(t)
  BY <1>0, <1>1, <1>8 DEF Sweep, ClaimStates, Landed, AccountsTypeOK
<1> QED
  BY <1>2, <1>3, <1>4, <1>5, <1>6, <1>7, <1>8 DEF OthersStep

CatchUpStep == \E t \in Tasks : CatchUp(t)

LEMMA CatchUpTypes ==
  ASSUME AccountsTypeOK, Counted, NEW t \in Tasks, CatchUp(t)
  PROVE  AccountsTypeOK' /\ Counted'
BY DEF CatchUp, AccountsTypeOK, Counted, Landed

\* What the other side of the network does to the worker's transactions.
LEMMA ChainStepNetwork ==
  ASSUME ChainTypeOK, ChainNext
  PROVE  /\ strays' \subseteq strays
         /\ call' \in Calls \cup {None}
         /\ call' # call => call # None /\ call' # None /\ call'.tx = call.tx
<1>1. CASE Land \/ Fail
  <2>1. call \in Calls
    BY <1>1 DEF Land, Fail, ChainTypeOK
  <2>2. \E st \in {"landed", "failed"} : call' = [call EXCEPT !.state = st]
    BY <1>1 DEF Land, Fail
  <2>3. call' \in Calls /\ call'.tx = call.tx
    BY <2>1, <2>2 DEF Calls
  <2> QED
    BY <1>1, <2>3 DEF Land, Fail
<1>2. CASE LandStray \/ DropStray
  BY <1>2 DEF LandStray, DropStray, ChainTypeOK
<1>3. ASSUME NEW t \in Tasks, OthersStep(t) \/ CatchUp(t) PROVE UNCHANGED network
  BY <1>3 DEF OthersStep, CatchUp, Accept, Reject, RequestChanges, ExpireClaim, Cancel,
              OthersWork, Sweep
<1> QED
  BY <1>1, <1>2, <1>3 DEF ChainNext, OthersStep, network, ChainTypeOK

LEMMA ChainStepTypes ==
  ASSUME ChainTypeOK, Counted, Hashed, ChainNext
  PROVE  ChainTypeOK' /\ Counted'
<1>1. AccountsTypeOK /\ (ChainTypeOK' <=> AccountsTypeOK' /\ call' \in Calls \cup {None}
                                          /\ strays' \subseteq Transactions)
  BY DEF ChainTypeOK, AccountsTypeOK
<1>2. call' \in Calls \cup {None} /\ strays' \subseteq Transactions
  BY ChainStepNetwork DEF ChainTypeOK
<1>3. ASSUME UNCHANGED accounts PROVE AccountsTypeOK' /\ Counted'
  BY <1>1, <1>3 DEF accounts, AccountsTypeOK, Counted, Landed
<1>4. CASE Land
  <2>1. call.tx \in Transactions /\ (call.tx.kind = "submit" => call.tx.hash \in Hashes)
    BY <1>4 DEF Land, ChainTypeOK, Calls, Hashed
  <2> QED
    BY <1>1, <1>2, <1>4, <2>1, PerformTypes DEF Land
<1>5. CASE LandStray
  <2>1. PICK x \in strays : Executable(x) /\ Perform(x)
    BY <1>5 DEF LandStray
  <2>2. x \in Transactions /\ (x.kind = "submit" => x.hash \in Hashes)
    BY DEF ChainTypeOK, Hashed
  <2> QED
    BY <1>1, <1>2, <1>5, <2>1, <2>2, PerformTypes DEF LandStray
<1>6. CASE Fail \/ DropStray
  BY <1>1, <1>2, <1>3, <1>6 DEF Fail, DropStray
<1>7. ASSUME NEW t \in Tasks, OthersStep(t) \/ CatchUp(t) PROVE ChainTypeOK' /\ Counted'
  BY <1>1, <1>2, <1>7, OthersStepTypes, CatchUpTypes
<1> QED
  BY <1>4, <1>5, <1>6, <1>7 DEF ChainNext, OthersStep

-----------------------------------------------------------------------------
(***************************************************************************)
(* The worker's readings.                                                  *)
(***************************************************************************)
LEMMA NothingIsReading == Nothing \in Readings
BY DEF Nothing, Readings

LEMMA ReadableTypes ==
  ASSUME AccountsTypeOK, NEW t \in Tasks
  PROVE  /\ Readable(t, "task") \subseteq TaskStatuses
         /\ Readable(t, "claim") \subseteq ClaimStates
         /\ Readable(t, "sub") \subseteq Submissions \cup {None}
         /\ task[t] \in Readable(t, "task")
<1>1. Snapshot(t) \in Snapshots
  BY DEF AccountsTypeOK, Snapshot, Snapshots
<1>2. behind[t] # None => behind[t] \in Snapshots
  BY DEF AccountsTypeOK
<1> QED
  BY <1>1, <1>2 DEF Readable, Snapshots, Snapshot

LEMMA ReadTypes ==
  ASSUME AccountsTypeOK, got \in Readings, at \in Tasks,
         NEW f \in {"task", "claim", "sub"}, Read(f)
  PROVE  got' \in Readings
<1>1. PICK v \in Readable(at, f) : got' = [got EXCEPT ![f] = {v}]
  BY DEF Read
<1> QED
  BY <1>1, ReadableTypes DEF Readings

LEMMA SeenTypes ==
  ASSUME got \in Readings
  PROVE  /\ got.task # {} => Seen("task") \in got.task /\ Seen("task") \in TaskStatuses
         /\ got.claim # {} => Seen("claim") \in got.claim /\ Seen("claim") \in ClaimStates
         /\ got.sub # {} => Seen("sub") \in got.sub /\ Seen("sub") \in Submissions \cup {None}
BY DEF Readings, Seen

-----------------------------------------------------------------------------
(***************************************************************************)
(* Steps that leave the ledger alone.                                      *)
(***************************************************************************)
LEMMA MarkerFields ==
  \A m \in Markers :
    /\ m.task \in Tasks /\ m.phase \in Phases /\ m.fresh \in BOOLEAN
    /\ m.rev \in 0..MaxRounds /\ m.hash \in Hashes \cup {None} /\ m # None
BY DEF Markers

LEMMA CallFields ==
  \A c \in Calls :
    /\ c.tx \in Transactions /\ c.state \in {"flight", "landed", "failed"} /\ c # None
    /\ c.tx.kind \in {"claim", "submit"} /\ c.tx.task \in Tasks
    /\ c.tx.hash \in Hashes \cup {None}
BY DEF Calls, Transactions

LEMMA SendTypes ==
  ASSUME NEW k \in {"claim", "submit"}, NEW t \in Tasks, NEW h \in Hashes \cup {None},
         Send(k, t, h)
  PROVE  /\ call' \in Calls /\ call' # None /\ call'.state = "flight"
         /\ call'.tx.kind = k /\ call'.tx.task = t /\ call'.tx.hash = h
<1>1. call' \in Calls
  BY DEF Send, Calls, Transactions
<1> QED
  BY <1>1, CallFields DEF Send

LEMMA AbandonedTypes ==
  ASSUME ChainTypeOK, Hashed
  PROVE  /\ Abandoned \subseteq Transactions
         /\ \A x \in Abandoned : x.kind = "submit" => x.hash \in Hashes
BY CallFields DEF ChainTypeOK, Hashed, Abandoned

LEMMA AccountsKept ==
  ASSUME ChainTypeOK, Counted, UNCHANGED accounts,
         call' \in Calls \cup {None}, strays' \subseteq Transactions
  PROVE  ChainTypeOK' /\ Counted'
BY DEF ChainTypeOK, accounts, Counted, Landed

LEMMA OpenStep ==
  ASSUME LoadInv, UNCHANGED <<accounts, ledger, baseline, checking>>,
         pc \notin {"settle", "examine"}, pc' \notin {"settle", "examine"},
         open' \in Markers \cup {None}, open' # None => ledger[open'.task] = None,
         call' \in Calls \cup {None}, strays' \subseteq Transactions,
         at' \in Tasks \cup {None}, faults' \in 0..MaxFaults, outputs' \subseteq Outputs,
         Control', Hashed'
  PROVE  LoadInv'
<1>1. ChainTypeOK' /\ Counted'
  BY AccountsKept DEF LoadInv, JournalLoads, TypeOK
<1>2. Unsettled' = Unsettled
  BY DEF Unsettled
<1>3. JournalLoads'
  BY <1>1, <1>2 DEF LoadInv, JournalLoads, TypeOK, checking
<1>4. Checking'
  BY <1>2 DEF LoadInv, Checking, checking
<1> QED
  BY <1>1, <1>3, <1>4 DEF LoadInv

\* Where the worker is and what it is about, when it works on its open claim.
LEMMA AtOpen ==
  ASSUME LoadInv, pc \in Busy \/ (pc = "resume" /\ open # None)
  PROVE  /\ open \in Markers /\ at = open.task /\ at \in Tasks /\ ledger[at] = None
         /\ pc \notin {"settle", "examine"} /\ revived = None
         /\ todo = {} /\ found = NoOutcomes
BY MarkerFields DEF LoadInv, JournalLoads, TypeOK, Control, Checking, Busy

LEMMA ClaimCandidateLoads ==
  ASSUME LoadInv, NEW t \in Tasks, ClaimCandidate(t)
  PROVE  LoadInv'
<1>0. open' \in Markers
  BY RoundsAssumption DEF ClaimCandidate, Phases, Marker, Markers
<1>1. open' \in Markers /\ open' # None /\ open'.task = t /\ open'.phase = "claiming"
  BY <1>0, MarkerFields DEF ClaimCandidate, Marker
<1>2. call' \in Calls /\ call' # None /\ call'.tx.kind = "claim" /\ call'.tx.task = t
  BY SendTypes DEF ClaimCandidate
<1>3. Control'
  BY <1>1, <1>2, NothingIsReading DEF ClaimCandidate, Control, Busy, Steps, PhaseOf, LoadInv
<1>4. Hashed'
  BY <1>1, <1>2 DEF Hashed, LoadInv, ClaimCandidate
<1> QED
  BY <1>1, <1>2, <1>3, <1>4, OpenStep
     DEF ClaimCandidate, Free, LoadInv, JournalLoads, TypeOK, ChainTypeOK

LEMMA NoCandidateLoads ==
  ASSUME LoadInv, NoCandidate \/ ResumeNothing
  PROVE  LoadInv'
<1>1. open = None /\ call = None /\ pc \in {"candidate", "resume"} /\ UNCHANGED <<chain, journal>>
  BY DEF NoCandidate, ResumeNothing, LoadInv, Control
<1>2. pc' \in {"candidate", "idle"} /\ at' = None /\ got' = Nothing
  BY DEF NoCandidate, ResumeNothing, Rest
<1>3. Control'
  BY <1>1, <1>2, NothingIsReading DEF Control, Busy, Steps, chain, journal, network
<1>4. Hashed'
  BY <1>1 DEF Hashed, LoadInv, chain, journal, network
<1> QED
  BY <1>1, <1>2, <1>3, <1>4, OpenStep
     DEF NoCandidate, ResumeNothing, LoadInv, JournalLoads, TypeOK, ChainTypeOK, chain,
         journal, network

\* The marker of the claim at hand moves on, and nothing is under way.
LEMMA WorkGoesOn ==
  ASSUME LoadInv, pc \in Busy, UNCHANGED <<accounts, ledger, baseline, checking>>,
         open' \in Markers, open'.task = open.task, pc' \in Busy \ {"claim", "sent"},
         open'.phase = PhaseOf(pc)',
         open'.phase \in {"executed", "submitting"} => open'.hash \in Hashes,
         UNCHANGED <<at, got>>, call' = None, strays' \subseteq strays \cup Abandoned,
         faults' \in 0..MaxFaults, outputs' \subseteq Outputs
  PROVE  LoadInv'
<1>1. Control'
  BY AtOpen, MarkerFields DEF LoadInv, Control, Busy, Steps
<1>2. Hashed' /\ strays' \subseteq Transactions
  BY AbandonedTypes DEF Hashed, LoadInv, JournalLoads, TypeOK, ChainTypeOK
<1> QED
  BY <1>1, <1>2, AtOpen, OpenStep DEF Busy

\* The worker rests, with its claim open as it was or gone.
LEMMA WorkRests ==
  ASSUME LoadInv, pc \in Busy \/ pc = "resume",
         UNCHANGED <<accounts, ledger, baseline, checking>>,
         open' \in {open, None}, pc' = "idle" \/ (pc' = "candidate" /\ open' = None),
         at' = None, got' = Nothing, call' = None, strays' \subseteq strays \cup Abandoned,
         UNCHANGED <<faults, outputs>>
  PROVE  LoadInv'
<1>1. Control'
  BY NothingIsReading DEF LoadInv, Control, Busy, Steps
<1>2. Hashed' /\ strays' \subseteq Transactions
  BY AbandonedTypes DEF Hashed, LoadInv, JournalLoads, TypeOK, ChainTypeOK
<1>3. pc \notin {"settle", "examine"} /\ pc' \notin {"settle", "examine"}
  BY DEF Busy
<1> QED
  BY <1>1, <1>2, <1>3, OpenStep DEF LoadInv, JournalLoads, TypeOK

LEMMA FaultTypes ==
  ASSUME LoadInv, Fault
  PROVE  faults' \in 0..MaxFaults
BY FaultsAssumption DEF Fault, LoadInv, JournalLoads, TypeOK

LEMMA ClaimAnsweredLoads ==
  ASSUME LoadInv, ClaimLanded \/ ClaimFailed
  PROVE  LoadInv'
<1>0. /\ pc = "claim" /\ pc \in Busy /\ UNCHANGED <<accounts, ledger, baseline, checking, at, got>>
      /\ call' = None /\ outputs' = outputs /\ outputs \subseteq Outputs /\ faults \in 0..MaxFaults
      /\ strays' \subseteq strays \cup Abandoned
  BY DEF ClaimLanded, ClaimFailed, Answered, Unanswered, Goto, journal, Busy, LoadInv,
         JournalLoads, TypeOK
<1>1. CASE ClaimLanded
  <2>1. open' \in Markers /\ open'.task = open.task /\ open'.phase = "claimed"
    BY <1>0, <1>1, AtOpen, RoundsAssumption DEF ClaimLanded, Phases, Marker, Markers
  <2> QED
    BY <1>0, <1>1, <2>1, WorkGoesOn DEF ClaimLanded, Goto, Busy, PhaseOf, Answered
<1>2. CASE ClaimFailed
  <2>1. open' = open /\ pc' \in {"refuted", "unsure"} /\ faults' \in 0..MaxFaults
    BY <1>0, <1>2, FaultTypes DEF ClaimFailed, Goto, Answered, Unanswered, journal
  <2>2. open \in Markers /\ open.phase = "claiming"
    BY <1>0, AtOpen DEF LoadInv, Control, PhaseOf
  <2> QED
    BY <1>0, <2>1, <2>2, WorkGoesOn DEF Busy, PhaseOf
<1> QED
  BY <1>1, <1>2

LEMMA RecoverClaimLoads ==
  ASSUME LoadInv, RecoverClaim
  PROVE  LoadInv'
<1>0. /\ pc \in {"refuted", "unsure"} /\ pc \in Busy /\ call = None
      /\ UNCHANGED <<accounts, network, ledger, baseline, checking, faults, outputs>>
      /\ outputs \subseteq Outputs /\ faults \in 0..MaxFaults
  BY DEF RecoverClaim, chain, Busy, LoadInv, Control, JournalLoads, TypeOK
<1>1. \/ open' = Marker(at, "claimed", FALSE, 0, None) /\ Goto("execute")
      \/ open' = None /\ Rest("candidate")
      \/ UNCHANGED open /\ Rest("idle")
  BY DEF RecoverClaim
<1>2. CASE open' = Marker(at, "claimed", FALSE, 0, None) /\ Goto("execute")
  <2>1. open' \in Markers /\ open'.task = open.task /\ open'.phase = "claimed"
    BY <1>0, <1>2, AtOpen, RoundsAssumption DEF Phases, Marker, Markers
  <2> QED
    BY <1>0, <1>2, <2>1, WorkGoesOn DEF Goto, Busy, PhaseOf, network
<1>3. CASE (open' = None /\ Rest("candidate")) \/ (UNCHANGED open /\ Rest("idle"))
  <2>1. open' \in {open, None} /\ (pc' = "idle" \/ (pc' = "candidate" /\ open' = None))
        /\ at' = None /\ got' = Nothing
    BY <1>3 DEF Rest
  <2>2. call' = None /\ strays' \subseteq strays \cup Abandoned /\ UNCHANGED <<faults, outputs>>
    BY <1>0 DEF network
  <2> QED
    BY <1>0, <2>1, <2>2, WorkRests
<1> QED
  BY <1>1, <1>2, <1>3

LEMMA RunExecutorLoads ==
  ASSUME LoadInv, RunExecutor
  PROVE  LoadInv'
<1>0. /\ pc = "execute" /\ pc \in Busy /\ call = None /\ faults' \in 0..MaxFaults
      /\ UNCHANGED <<accounts, network, ledger, baseline, checking, at, got>>
  BY DEF RunExecutor, Goto, chain, Busy, LoadInv, Control, JournalLoads, TypeOK
<1>1. PICK h \in Hashes :
        /\ open' = Marker(at, "executed", FALSE, open.rev, h)
        /\ outputs' = outputs \cup {[task |-> at, round |-> round[at], hash |-> h]}
  BY DEF RunExecutor
<1>2. open \in Markers /\ at = open.task /\ at \in Tasks /\ open.rev \in 0..MaxRounds
  BY <1>0, AtOpen, MarkerFields
<1>3. outputs' \subseteq Outputs
  BY <1>1, <1>2 DEF Outputs, LoadInv, JournalLoads, TypeOK, ChainTypeOK
<1>4. open' \in Markers /\ open'.task = open.task /\ open'.phase = "executed"
      /\ open'.hash \in Hashes
  BY <1>1, <1>2 DEF Phases, Marker, Markers
<1> QED
  BY <1>0, <1>3, <1>4, WorkGoesOn DEF RunExecutor, Goto, Busy, PhaseOf, network

LEMMA DeliverLoads ==
  ASSUME LoadInv, Deliver
  PROVE  LoadInv'
<1>0. /\ pc = "deliver" /\ pc \in Busy /\ call = None /\ faults' \in 0..MaxFaults
      /\ UNCHANGED <<accounts, network, ledger, baseline, checking, at, got>>
      /\ outputs' \subseteq Outputs
  BY DEF Deliver, Goto, chain, Busy, LoadInv, Control, JournalLoads, TypeOK
<1>2. /\ open \in Markers /\ at = open.task /\ at \in Tasks /\ open.rev \in 0..MaxRounds
      /\ open.hash \in Hashes
  BY <1>0, AtOpen, MarkerFields DEF LoadInv, Control, Hashed, PhaseOf
<1>4. open' \in Markers /\ open'.task = open.task /\ open'.phase = "submitting"
      /\ open'.hash \in Hashes
  BY <1>2 DEF Phases, Deliver, Marker, Markers
<1> QED
  BY <1>0, <1>4, WorkGoesOn DEF Deliver, Goto, Busy, PhaseOf, network

LEMMA SubmitPreparedLoads ==
  ASSUME LoadInv, SubmitPrepared
  PROVE  LoadInv'
<1>0. /\ pc = "submit" /\ pc \in Busy /\ call = None /\ pc' = "sent"
      /\ UNCHANGED <<accounts, strays, ledger, baseline, checking, at, got, faults, outputs>>
  BY DEF SubmitPrepared, Goto, Busy, LoadInv, Control
<1>1. /\ open \in Markers /\ at = open.task /\ at \in Tasks /\ open.phase = "submitting"
      /\ open.hash \in Hashes /\ ledger[at] = None
  BY <1>0, AtOpen DEF LoadInv, Control, Hashed, PhaseOf
<1>2. open' \in Markers /\ open'.task = open.task /\ open'.phase = open.phase
      /\ open'.hash = open.hash
  BY <1>1 DEF SubmitPrepared, Markers
<1>3. call' \in Calls /\ call' # None /\ call'.tx.kind = "submit" /\ call'.tx.task = at
      /\ call'.tx.hash = open.hash
  BY <1>1, SendTypes DEF SubmitPrepared
<1>4. Control'
  BY <1>0, <1>1, <1>2, <1>3, MarkerFields DEF Control, Busy, Steps, PhaseOf, LoadInv
<1>5. Hashed'
  BY <1>0, <1>1, <1>2, <1>3 DEF Hashed, LoadInv
<1>6. /\ strays \subseteq Transactions /\ at \in Tasks \cup {None}
      /\ faults \in 0..MaxFaults /\ outputs \subseteq Outputs
  BY DEF LoadInv, JournalLoads, TypeOK, ChainTypeOK
<1> QED
  BY <1>0, <1>1, <1>2, <1>3, <1>4, <1>5, <1>6, OpenStep

LEMMA SubmitFailedLoads ==
  ASSUME LoadInv, SubmitFailed
  PROVE  LoadInv'
<1>0. /\ pc = "sent" /\ pc \in Busy /\ pc' = "unsent" /\ call' = None
      /\ UNCHANGED <<accounts, open, ledger, baseline, checking, at, got, outputs>>
      /\ strays' \subseteq strays \cup Abandoned /\ outputs \subseteq Outputs
  BY DEF SubmitFailed, Goto, Busy, Answered, Unanswered, journal, LoadInv, JournalLoads, TypeOK
<1>1. faults' \in 0..MaxFaults
  BY FaultTypes DEF SubmitFailed, Answered, Unanswered, LoadInv, JournalLoads, TypeOK
<1>2. open \in Markers /\ open.phase = "submitting" /\ open.hash \in Hashes
  BY <1>0, AtOpen DEF LoadInv, Control, Hashed, PhaseOf
<1> QED
  BY <1>0, <1>1, <1>2, WorkGoesOn DEF Busy, PhaseOf

-----------------------------------------------------------------------------
(***************************************************************************)
(* Steps that change the ledger.                                           *)
(***************************************************************************)
LEMMA RecordFields ==
  \A r \in Records :
    /\ r.fresh \in BOOLEAN /\ r.straggler \in BOOLEAN /\ r.outcome \in Outcomes
    /\ r.earned \in {Unknown} \cup 0..Cardinality(Tasks) /\ r # None
BY DEF Records

LEMMA UnsettledFinite ==
  /\ IsFiniteSet(Unsettled) /\ Cardinality(Unsettled) \in Nat
  /\ \A S \in SUBSET Unsettled : Cardinality(S) <= Cardinality(Unsettled)
<1>1. Unsettled \subseteq Tasks
  BY DEF Unsettled
<1>2. IsFiniteSet(Unsettled)
  BY <1>1, FS_Subset, TasksAssumption
<1> QED
  BY <1>2, FS_Subset, FS_CardinalityType

LEMMA LedgerStep ==
  ASSUME LoadInv, UNCHANGED <<accounts, baseline, checking>>,
         pc \notin {"settle", "examine"}, pc' \notin {"settle", "examine"},
         open' \in Markers \cup {None}, ledger' \in [Tasks -> Records \cup {None}],
         open' # None => ledger'[open'.task] = None,
         Cardinality(Unsettled') <= MaxUnsettled,
         call' \in Calls \cup {None}, strays' \subseteq Transactions,
         at' \in Tasks \cup {None}, faults' \in 0..MaxFaults, outputs' \subseteq Outputs,
         Control', Hashed'
  PROVE  LoadInv'
<1>1. ChainTypeOK' /\ Counted'
  BY AccountsKept DEF LoadInv, JournalLoads, TypeOK
<1>2. JournalLoads'
  BY <1>1 DEF LoadInv, JournalLoads, TypeOK, checking
<1>3. Checking'
  BY DEF LoadInv, Checking, checking, NoOutcomes
<1> QED
  BY <1>1, <1>2, <1>3 DEF LoadInv

LEMMA CommitTypes ==
  ASSUME LoadInv, open # None, at = open.task, CommitSubmission(at)
  PROVE  /\ UNCHANGED <<open, ledger>> \/ open' = None
         /\ ledger' \in [Tasks -> Records \cup {None}]
         /\ UNCHANGED baseline
         /\ Cardinality(Unsettled') <= MaxUnsettled
<1>1. at \in Tasks /\ ledger[at] = None /\ ledger \in [Tasks -> Records \cup {None}]
  BY MarkerFields DEF LoadInv, JournalLoads, TypeOK
<1>2. CASE Cardinality(Unsettled) >= MaxUnsettled
  BY <1>1, <1>2 DEF CommitSubmission, journal, LoadInv, JournalLoads, Unsettled
<1>3. CASE ~(Cardinality(Unsettled) >= MaxUnsettled)
  <2>1. open' = None /\ ledger' = [ledger EXCEPT ![at] = NewRecord] /\ UNCHANGED baseline
    BY <1>1, <1>3 DEF CommitSubmission
  <2>2. NewRecord \in Records /\ NewRecord # None
    <3>1. NewRecord \in Records
      BY DEF NewRecord, Records, Outcomes
    <3> QED
      BY <3>1, RecordFields
  <2>3. Unsettled' \subseteq Unsettled \cup {at}
    BY <1>1, <2>1 DEF Unsettled
  <2>4. /\ IsFiniteSet(Unsettled \cup {at})
        /\ Cardinality(Unsettled \cup {at}) <= Cardinality(Unsettled) + 1
    <3>1. IsFiniteSet(Unsettled) /\ Cardinality(Unsettled) \in Nat
      BY UnsettledFinite
    <3>2. Cardinality(Unsettled \cup {at}) =
            IF at \in Unsettled THEN Cardinality(Unsettled) ELSE Cardinality(Unsettled) + 1
      BY <3>1, FS_AddElement
    <3> QED
      BY <3>1, <3>2, FS_AddElement
  <2>5. Cardinality(Unsettled') <= Cardinality(Unsettled \cup {at}) /\ Cardinality(Unsettled') \in Nat
    BY <2>3, <2>4, FS_Subset, FS_CardinalityType
  <2>6. Cardinality(Unsettled \cup {at}) \in Nat
    BY <2>4, FS_CardinalityType
  <2>7. Cardinality(Unsettled') <= MaxUnsettled
    BY <1>3, <2>4, <2>5, <2>6, UnsettledFinite, UnsettledAssumption
  <2> QED
    BY <1>1, <2>1, <2>2, <2>7
<1> QED
  BY <1>2, <1>3

LEMMA RestTypes ==
  ASSUME LoadInv, open' \in Markers \cup {None}, pc' \in {"idle", "candidate"},
         pc' = "candidate" => open' = None, at' = None, got' = Nothing, call' = None
  PROVE  Control'
BY NothingIsReading DEF Control, Busy, Steps

LEMMA CommitLoads ==
  ASSUME LoadInv, open # None, at = open.task, pc \notin {"settle", "examine"},
         CommitSubmission(at), Rest("idle"), call' = None,
         UNCHANGED <<accounts, strays, checking, faults, outputs>>
  PROVE  LoadInv'
<1>1. open' \in Markers \cup {None} /\ (open' # None => ledger'[open'.task] = None)
  BY CommitTypes DEF LoadInv, JournalLoads, TypeOK
<1>2. Control'
  BY <1>1, RestTypes DEF Rest
<1>3. Hashed'
  BY CommitTypes DEF Hashed, LoadInv
<1>4. strays \subseteq Transactions /\ faults \in 0..MaxFaults /\ outputs \subseteq Outputs
  BY DEF LoadInv, JournalLoads, TypeOK, ChainTypeOK
<1> QED
  BY <1>1, <1>2, <1>3, <1>4, CommitTypes, LedgerStep DEF Rest

LEMMA SubmitLandedLoads ==
  ASSUME LoadInv, SubmitLanded
  PROVE  LoadInv'
<1>1. pc = "sent" /\ pc \in Busy /\ call' = None
      /\ UNCHANGED <<accounts, strays, checking, faults, outputs>>
  BY DEF SubmitLanded, Busy, Answered
<1>2. open # None /\ at = open.task
  BY <1>1 DEF LoadInv, Control
<1> QED
  BY <1>1, <1>2, CommitLoads DEF SubmitLanded

LEMMA RecoverSubmissionLoads ==
  ASSUME LoadInv, RecoverSubmission
  PROVE  LoadInv'
<1>1. pc = "unsent" /\ pc \in Busy /\ call = None
      /\ UNCHANGED <<accounts, network, checking, faults, outputs>>
  BY DEF RecoverSubmission, Busy, chain, LoadInv, Control
<1>2. open # None /\ at = open.task
  BY <1>1 DEF LoadInv, Control
<1>3. CASE CommitSubmission(at)
  BY <1>1, <1>2, <1>3, CommitLoads DEF RecoverSubmission, network
<1>4. CASE UNCHANGED journal
  BY <1>1, <1>4, WorkRests DEF RecoverSubmission, Rest, network, journal
<1> QED
  BY <1>3, <1>4 DEF RecoverSubmission

-----------------------------------------------------------------------------
(***************************************************************************)
(* resumeOpenClaim, crashes and the passing of time.                       *)
(***************************************************************************)
LEMMA ReadingLoads ==
  ASSUME LoadInv, ResumeReads \/ ExamineReads
  PROVE  LoadInv'
<1>1. at \in Tasks /\ pc \in {"resume", "examine"}
  BY AtOpen DEF ResumeReads, ExamineReads, LoadInv, Checking, Unsettled
<1>2. UNCHANGED <<chain, journal, pc, at, checking, faults, outputs>>
  BY DEF ResumeReads, ExamineReads, Read
<1>3. got' \in Readings
  BY <1>1, ReadTypes DEF ResumeReads, ExamineReads, LoadInv, Control, JournalLoads, TypeOK,
                         ChainTypeOK, AccountsTypeOK
<1>4. Control' /\ Hashed' /\ Checking' /\ Counted'
  BY <1>1, <1>2, <1>3 DEF LoadInv, Control, Hashed, Checking, Counted, chain, accounts, network,
                         journal, checking, Busy, Unsettled, PhaseOf, Landed
<1>5. JournalLoads'
  BY <1>2 DEF LoadInv, JournalLoads, TypeOK, ChainTypeOK, chain, accounts, network, journal,
              checking, Unsettled
<1> QED
  BY <1>4, <1>5 DEF LoadInv

LEMMA ResumeOpenClaimLoads ==
  ASSUME LoadInv, ResumeOpenClaim, open # None
  PROVE  LoadInv'
<1>0. /\ pc = "resume" /\ call = None /\ UNCHANGED <<accounts, network, checking, faults, outputs>>
      /\ strays \subseteq Transactions /\ faults \in 0..MaxFaults /\ outputs \subseteq Outputs
  BY DEF ResumeOpenClaim, chain, LoadInv, Control, JournalLoads, TypeOK, ChainTypeOK
<1>1. /\ open \in Markers /\ at = open.task /\ at \in Tasks /\ ledger[at] = None
      /\ got \in Readings /\ got.sub # {}
  BY <1>0, AtOpen DEF LoadInv, Control, ResumeOpenClaim, HasRead
\* The claim stays open, in whatever phase, and the worker rests or goes on.
<1>2. ASSUME open' \in Markers, open'.task = at,
             open'.phase \in {"executed", "submitting"} => open'.hash \in Hashes,
             ledger' = ledger \/ ledger' = [ledger EXCEPT ![at] = None], UNCHANGED baseline,
             Rest("idle") \/ (Goto(pc') /\ pc' \in {"execute", "deliver", "submit"}
                              /\ open'.phase = PhaseOf(pc)')
      PROVE  LoadInv'
  <2>1. Control'
    BY <1>0, <1>1, <1>2, NothingIsReading, MarkerFields
       DEF Control, Busy, Steps, Rest, Goto, network
  <2>2. Hashed'
    BY <1>0, <1>2 DEF Hashed, LoadInv, network
  <2>3. ledger' = ledger /\ Unsettled' = Unsettled
    BY <1>1, <1>2 DEF LoadInv, JournalLoads, TypeOK, Unsettled
  <2> QED
    BY <1>0, <1>1, <1>2, <2>1, <2>2, <2>3, LedgerStep
       DEF LoadInv, JournalLoads, TypeOK, ChainTypeOK, Rest, Goto, network
<1>3. CASE NewRevision
  <2>1. RestoreRevisionRound /\ StartWork
    BY <1>3 DEF ResumeOpenClaim
  <2>2. Seen("sub") \in Submissions
    BY <1>1, <1>3, SeenTypes DEF NewRevision, RevisionRequested, Refused
  <2>3. open' \in Markers /\ open'.task = at /\ open'.phase = "claimed"
    BY <1>1, <2>1, <2>2, SubmissionFields DEF RestoreRevisionRound, Phases, Marker, Markers
  <2>4. Rest("idle") \/ Goto("execute")
    BY <2>1 DEF StartWork
  <2> QED
    BY <1>2, <2>1, <2>3, <2>4 DEF RestoreRevisionRound, Goto, PhaseOf
<1>4. CASE Verdict = "commit" /\ CommitSubmission(at) /\ Rest("idle")
  BY <1>0, <1>1, <1>4, CommitLoads, MarkerFields DEF network
<1>5. CASE Verdict = "wait" /\ UNCHANGED journal /\ Rest("idle")
  BY <1>0, <1>1, <1>2, <1>5 DEF journal, LoadInv, Hashed
<1>6. CASE open' = None /\ UNCHANGED <<ledger, baseline>> /\ (Rest("candidate") \/ Rest("idle"))
  BY <1>0, <1>6, WorkRests DEF Rest, network
<1>7. CASE Verdict \in {"submit", "deliver"} /\ UNCHANGED journal /\ Goto(Verdict)
  <2>1. open.phase = IF Verdict = "submit" THEN "submitting" ELSE "executed"
    BY <1>7 DEF Verdict, IfGone
  <2> QED
    BY <1>1, <1>2, <1>7, <2>1 DEF journal, LoadInv, Hashed, Goto, PhaseOf
<1>8. CASE /\ open' = [open EXCEPT !.phase = "claimed", !.fresh = FALSE]
           /\ UNCHANGED <<ledger, baseline>> /\ StartWork
  <2>1. open' \in Markers /\ open'.task = at /\ open'.phase = "claimed"
    BY <1>1, <1>8 DEF Markers, Phases
  <2>2. Rest("idle") \/ Goto("execute")
    BY <1>8 DEF StartWork
  <2> QED
    BY <1>2, <1>8, <2>1, <2>2 DEF Goto, PhaseOf
<1> QED
  BY <1>3, <1>4, <1>5, <1>6, <1>7, <1>8 DEF ResumeOpenClaim

LEMMA ResumeHasClaim ==
  ASSUME LoadInv, ResumeOpenClaim
  PROVE  open # None
BY DEF LoadInv, Control, ResumeOpenClaim, HasRead, Nothing

LEMMA GiveUpLoads ==
  ASSUME LoadInv, Crash \/ StepFails
  PROVE  LoadInv'
<1>1. /\ UNCHANGED <<accounts, journal, outputs>> /\ pc' = "idle" /\ at' = None /\ got' = Nothing
      /\ todo' = {} /\ found' = NoOutcomes /\ revived' = None /\ Fault
  BY DEF Crash, StepFails, GiveUp, Rest
<1>2. call' = None /\ strays' \subseteq strays \cup Abandoned
  BY DEF Crash, StepFails, network, LoadInv, Control
<1>3. Control'
  BY <1>1, <1>2, NothingIsReading DEF Control, Busy, Steps
<1>4. Hashed' /\ strays' \subseteq Transactions
  BY <1>1, <1>2, AbandonedTypes
     DEF Hashed, LoadInv, JournalLoads, TypeOK, ChainTypeOK, journal
<1>5. Checking'
  BY <1>1 DEF Checking, NoOutcomes, Outcomes
<1>6. ChainTypeOK' /\ Counted'
  BY <1>1, <1>2, <1>4, AccountsKept DEF LoadInv, JournalLoads, TypeOK
<1>7. JournalLoads'
  BY <1>1, <1>6, FaultTypes DEF LoadInv, JournalLoads, TypeOK, journal, Unsettled
<1> QED
  BY <1>3, <1>4, <1>5, <1>6, <1>7 DEF LoadInv

LEMMA MarkerAgesLoads ==
  ASSUME LoadInv, MarkerAges
  PROVE  LoadInv'
<1>1. /\ open \in Markers /\ open' = [open EXCEPT !.fresh = FALSE]
      /\ UNCHANGED <<chain, ledger, baseline, worker, faults, outputs>>
  BY DEF MarkerAges, LoadInv, JournalLoads, TypeOK
<1>2. /\ open' \in Markers /\ open' # None /\ open'.task = open.task
      /\ open'.phase = open.phase /\ open'.hash = open.hash
  <2>1. open' \in Markers
    BY <1>1 DEF Markers
  <2>2. open'.task = open.task /\ open'.phase = open.phase /\ open'.hash = open.hash
    BY <1>1 DEF Markers
  <2> QED
    BY <2>1, <2>2, MarkerFields
<1>3. open # None
  BY DEF MarkerAges
<1>4. Control' /\ Hashed' /\ Checking' /\ Counted'
  BY <1>1, <1>2, <1>3 DEF LoadInv, Control, Hashed, Checking, Counted, chain, accounts, network,
                         worker, checking, Busy, Unsettled, PhaseOf, Landed
<1>5. JournalLoads'
  BY <1>1, <1>2, <1>3 DEF LoadInv, JournalLoads, TypeOK, ChainTypeOK, chain, accounts, network,
                         worker, checking, Unsettled
<1> QED
  BY <1>4, <1>5 DEF LoadInv

LEMMA RecordAgesLoads ==
  ASSUME LoadInv, RecordAges
  PROVE  LoadInv'
<1>1. PICK t \in Tasks :
        /\ ledger[t] # None /\ ledger' = [ledger EXCEPT ![t].fresh = FALSE]
        /\ UNCHANGED <<chain, open, baseline, worker, faults, outputs>>
  BY DEF RecordAges
<1>2. ledger[t] \in Records /\ ledger \in [Tasks -> Records \cup {None}]
  BY <1>1 DEF LoadInv, JournalLoads, TypeOK
<1>3. [ledger[t] EXCEPT !.fresh = FALSE] \in Records
  BY <1>2 DEF Records
<1>4. ledger' \in [Tasks -> Records \cup {None}] /\ Unsettled' = Unsettled
      /\ \A v \in Tasks : ledger'[v] = None <=> ledger[v] = None
  <2>1. ledger'[t].outcome = ledger[t].outcome /\ ledger'[t] \in Records
    BY <1>1, <1>2, <1>3 DEF Records
  <2>2. \A v \in Tasks \ {t} : ledger'[v] = ledger[v]
    BY <1>1, <1>2
  <2>3. ledger' \in [Tasks -> Records \cup {None}]
    BY <1>1, <1>2, <1>3
  <2>4. \A v \in Tasks :
          /\ ledger'[v] = None <=> ledger[v] = None
          /\ ledger[v] # None => ledger'[v].outcome = ledger[v].outcome
    BY <1>1, <2>1, <2>2, RecordFields
  <2> QED
    BY <2>3, <2>4 DEF Unsettled
<1>5. Control' /\ Hashed' /\ Checking' /\ Counted'
  BY <1>1, <1>4 DEF LoadInv, Control, Hashed, Checking, Counted, chain, accounts, network,
                    worker, checking, Busy, PhaseOf, Landed
<1>6. JournalLoads'
  BY <1>1, <1>4, MarkerFields DEF LoadInv, JournalLoads, TypeOK, ChainTypeOK, chain, accounts,
                                  network, worker, checking
<1> QED
  BY <1>5, <1>6 DEF LoadInv

-----------------------------------------------------------------------------
(***************************************************************************)
(* checkSettlements.                                                       *)
(***************************************************************************)
LEMMA SettleLoads ==
  ASSUME LoadInv, Settle
  PROVE  LoadInv'
<1>1. /\ pc = "idle" /\ pc' = "settle" /\ todo' = Unsettled /\ found = NoOutcomes
      /\ UNCHANGED <<chain, journal, at, got, found, revived, faults, outputs>>
      /\ call = None /\ revived = None
  BY DEF Settle, LoadInv, Control, Checking
<1>2. Unsettled' = Unsettled /\ Unsettled \subseteq Tasks
  BY <1>1 DEF Unsettled, journal
<1>3. Control' /\ Hashed' /\ Counted'
  BY <1>1 DEF LoadInv, Control, Hashed, Counted, Busy, Steps, chain, accounts, network, journal, Landed
<1>4. Checking'
  BY <1>1, <1>2 DEF LoadInv, Checking, NoOutcomes
<1>5. JournalLoads'
  BY <1>1, <1>2 DEF LoadInv, JournalLoads, TypeOK, ChainTypeOK, chain, accounts, network, journal
<1> QED
  BY <1>3, <1>4, <1>5 DEF LoadInv

LEMMA SettleNextLoads ==
  ASSUME LoadInv, SettleNext
  PROVE  LoadInv'
<1>1. PICK t \in todo, status \in TaskStatuses :
        /\ at' = t /\ todo' = todo \ {t}
        /\ got' = [Nothing EXCEPT !.task = {status}]
  BY DEF SettleNext
<1>2. /\ pc = "settle" /\ pc' = "examine" /\ call = None
      /\ UNCHANGED <<chain, journal, found, revived, faults, outputs>>
  BY DEF SettleNext, LoadInv, Control
<1>3. got' \in Readings
  BY <1>1 DEF Nothing, Readings
<1>4. Unsettled' = Unsettled /\ Unsettled \subseteq Tasks
  BY <1>2 DEF Unsettled, journal
<1>5. Control' /\ Hashed' /\ Counted'
  BY <1>2, <1>3 DEF LoadInv, Control, Hashed, Counted, Busy, Steps, chain, accounts, network,
                    journal, Landed
<1>6. Checking'
  BY <1>1, <1>2, <1>4 DEF LoadInv, Checking, journal
<1>7. JournalLoads'
  BY <1>1, <1>2, <1>4 DEF LoadInv, JournalLoads, TypeOK, ChainTypeOK, Checking, chain, accounts,
                          network, journal
<1> QED
  BY <1>5, <1>6, <1>7 DEF LoadInv

LEMMA ExamineLoads ==
  ASSUME LoadInv, Examine
  PROVE  LoadInv'
<1>1. /\ pc = "examine" /\ pc' = "settle" /\ at' = None /\ got' = Nothing /\ call = None
      /\ UNCHANGED <<chain, journal, todo, faults, outputs>>
      /\ found' = [found EXCEPT ![at] = Outcome]
  BY DEF Examine, Rest, LoadInv, Control
<1>2. Unsettled' = Unsettled /\ Unsettled \subseteq Tasks
  BY <1>1 DEF Unsettled, journal
<1>3. /\ at \in Unsettled \ todo /\ found[at] = "pending" /\ got \in Readings
      /\ found \in [Tasks -> Outcomes \cup {"straggling"}]
  BY <1>1 DEF LoadInv, Checking, Control
<1>4. Outcome \in Outcomes \cup {"straggling"}
  BY DEF Outcome, CompletedOutcome, OpenOutcome, Outcomes
<1>5. \/ revived' = revived
      \/ /\ revived' \in Markers /\ revived'.task = at /\ revived'.phase = "claimed" /\ open = None /\ revived = None
         /\ Outcome = "pending"
  <2>1. CASE NeedsAccounts(Seen("task")) /\ RevisionRequested
    <3>1. revived' = Marker(at, "claimed", FALSE, Seen("sub").count, None)
      BY <2>1 DEF Examine
    <3>2. got.sub # {}
      BY <2>1 DEF Examine, HasRead
    <3>3. Seen("sub") \in Submissions
      BY <1>3, <2>1, <3>2, SeenTypes DEF RevisionRequested, Refused
    <3>4. revived' \in Markers /\ revived'.task = at /\ revived'.phase = "claimed"
      BY <1>2, <1>3, <3>1, <3>3, SubmissionFields DEF Phases, Marker, Markers
    <3>5. Seen("task") \in Engaged
      BY <2>1 DEF RevisionRequested
    <3>6. open = None /\ revived = None
      BY <2>1, <3>5 DEF NeedsAccounts, Engaged
    <3>7. Outcome = "pending"
      BY <3>5 DEF Outcome, Engaged
    <3> QED
      BY <3>4, <3>6, <3>7
  <2> QED
    BY <2>1 DEF Examine
<1>6. Control' /\ Hashed' /\ Counted'
  BY <1>1, NothingIsReading DEF LoadInv, Control, Hashed, Counted, Busy, Steps, chain, accounts,
                                network, journal, Landed
<1>7. Checking'
  <2>1. found' \in [Tasks -> Outcomes \cup {"straggling"}]
    BY <1>1, <1>3, <1>4
  <2>2. /\ found'[at] = Outcome
        /\ \A t \in Tasks \ {at} : found'[t] = found[t]
    BY <1>1, <1>2, <1>3
  <2>3. \A t \in Tasks : found'[t] # "pending" => t \in Unsettled /\ t \notin todo
    BY <1>3, <2>2 DEF LoadInv, Checking
  <2>4. revived' # None =>
          /\ open = None /\ revived'.phase = "claimed" /\ found'[revived'.task] = "pending"
          /\ revived'.task \in Unsettled \ todo
    <3>1. CASE revived' = revived
      BY <1>1, <1>2, <2>2, <3>1 DEF LoadInv, Checking
    <3>2. CASE revived' # revived
      BY <1>3, <1>5, <2>2, <3>2
    <3> QED
      BY <3>1, <3>2
  <2> QED
    BY <1>1, <1>2, <2>1, <2>3, <2>4 DEF LoadInv, Checking, journal
<1>8. JournalLoads'
  BY <1>1, <1>2, <1>5 DEF LoadInv, JournalLoads, TypeOK, ChainTypeOK, chain, accounts, network, journal
<1> QED
  BY <1>6, <1>7, <1>8 DEF LoadInv

LEMMA EarnedTypes ==
  ASSUME ChainTypeOK, NEW e \in EarnedReadable
  PROVE  e \in 0..Cardinality(Tasks) /\ Cardinality(paid) \in Nat /\ e <= Cardinality(paid)
<1>1. paid \subseteq Tasks
  BY DEF ChainTypeOK
<1>2. IsFiniteSet(paid) /\ Cardinality(paid) <= Cardinality(Tasks)
  BY <1>1, FS_Subset, TasksAssumption
<1>3. Cardinality(paid) \in Nat /\ Cardinality(Tasks) \in Nat
  BY <1>2, FS_CardinalityType, TasksAssumption
<1> QED
  BY <1>2, <1>3 DEF EarnedReadable, TotalEarned

\* A record keeps its place; only the revived one leaves the ledger.
LEMMA ReconciledTypes ==
  ASSUME LoadInv, NEW t \in Tasks, NEW e \in EarnedReadable
  PROVE  /\ Reconciled(t, e) \in Records \cup {None}
         /\ ledger[t] = None => Reconciled(t, e) = None
         /\ revived # None /\ revived.task = t => Reconciled(t, e) = None
         /\ Reconciled(t, e) # None /\ Reconciled(t, e).outcome = "pending" => t \in Unsettled
<1>1. /\ ledger[t] \in Records \cup {None} /\ found[t] \in Outcomes \cup {"straggling"}
      /\ baseline \in 0..Cardinality(Tasks)
      /\ found[t] # "pending" => ledger[t] \in Records
      /\ revived # None /\ revived.task = t => found[t] = "pending"
  BY DEF LoadInv, JournalLoads, TypeOK, Checking, Unsettled
<1>2. Cardinality(Tasks) \in Nat /\ e \in 0..Cardinality(Tasks)
  BY EarnedTypes, FS_CardinalityType, TasksAssumption DEF LoadInv, JournalLoads, TypeOK
<1>3. CASE Decided(t, e)
  <2>1. Earned(t, e) \in {Unknown} \cup 0..Cardinality(Tasks)
    BY <1>1, <1>2, <1>3 DEF Earned, Decided
  <2>2. found[t] \in Outcomes \ {"pending"} /\ ledger[t] \in Records
    BY <1>1, <1>3 DEF Decided
  <2>3. Reconciled(t, e) = [ledger[t] EXCEPT !.outcome = found[t], !.earned = Earned(t, e)]
    BY <1>3 DEF Reconciled
  <2>4. Reconciled(t, e) \in Records /\ Reconciled(t, e).outcome = found[t]
    BY <2>1, <2>2, <2>3 DEF Records
  <2> QED
    BY <1>1, <2>2, <2>4, RecordFields
<1>4. CASE ~Decided(t, e) /\ found[t] = "straggling"
  <2>1. Reconciled(t, e) = [ledger[t] EXCEPT !.straggler = TRUE] /\ ledger[t] \in Records
    BY <1>1, <1>4 DEF Reconciled
  <2>2. Reconciled(t, e) \in Records /\ Reconciled(t, e).outcome = ledger[t].outcome
    BY <2>1 DEF Records
  <2> QED
    BY <1>1, <1>4, <2>1, <2>2, RecordFields DEF Unsettled
<1>5. CASE ~Decided(t, e) /\ found[t] # "straggling"
  BY <1>1, <1>5 DEF Reconciled, Unsettled
<1> QED
  BY <1>3, <1>4, <1>5

LEMMA SettleDoneLoads ==
  ASSUME LoadInv, SettleDone
  PROVE  LoadInv'
<1>1. PICK e \in EarnedReadable :
        /\ ledger' = [t \in Tasks |-> Reconciled(t, e)]
        /\ baseline' = NewBaseline(e)
  BY DEF SettleDone
<1>2. /\ pc = "settle" /\ todo = {} /\ call = None
      /\ open' = IF revived = None THEN open ELSE revived
      /\ found' = NoOutcomes /\ revived' = None /\ got' = Nothing
      /\ UNCHANGED <<chain, todo, faults, outputs>>
      /\ \/ pc' = "idle" /\ at' = None
         \/ pc' = "resume" /\ at' = IF open' = None THEN None ELSE open'.task
  BY DEF SettleDone, Rest, LoadInv, Control
<1>3. ledger' \in [Tasks -> Records \cup {None}]
  BY <1>1, ReconciledTypes
<1>4. baseline' \in 0..Cardinality(Tasks)
  BY <1>1, EarnedTypes DEF NewBaseline, LoadInv, JournalLoads, TypeOK
<1>5. Unsettled' \subseteq Unsettled
  BY <1>1, ReconciledTypes DEF Unsettled
<1>6. open' # None => ledger'[open'.task] = None
  BY <1>1, <1>2, ReconciledTypes, MarkerFields DEF LoadInv, JournalLoads, TypeOK
<1>7. open' \in Markers \cup {None} /\ at' \in Tasks \cup {None}
  BY <1>2, MarkerFields DEF LoadInv, JournalLoads, TypeOK
<1>8. Control' /\ Hashed' /\ Counted'
  <2>1. revived # None => revived.phase = "claimed"
    BY DEF LoadInv, Checking
  <2> QED
    BY <1>2, <2>1, NothingIsReading DEF LoadInv, Control, Hashed, Counted, Busy, Steps, chain,
       accounts, network, Landed
<1>9. Checking'
  BY <1>2 DEF LoadInv, Checking, NoOutcomes, Outcomes
<1>10. Cardinality(Unsettled') <= MaxUnsettled
  <2>1. Cardinality(Unsettled') <= Cardinality(Unsettled) /\ Cardinality(Unsettled) \in Nat
    BY <1>5, UnsettledFinite
  <2>2. Cardinality(Unsettled) <= MaxUnsettled
    BY DEF LoadInv, JournalLoads
  <2>3. Cardinality(Unsettled') \in Nat
    BY <1>5, UnsettledFinite, FS_Subset, FS_CardinalityType
  <2> QED
    BY <2>1, <2>2, <2>3, UnsettledAssumption
<1>11. JournalLoads'
  BY <1>2, <1>3, <1>4, <1>6, <1>7, <1>10
     DEF LoadInv, JournalLoads, TypeOK, ChainTypeOK, chain, accounts, network
<1> QED
  BY <1>8, <1>9, <1>11 DEF LoadInv

-----------------------------------------------------------------------------
(***************************************************************************)
(* The journal can be loaded again.                                        *)
(***************************************************************************)
ChainStep == ChainNext /\ UNCHANGED <<journal, worker, faults, outputs>>

LEMMA ChainStepLoads ==
  ASSUME LoadInv, ChainStep
  PROVE  LoadInv'
<1>1. ChainTypeOK' /\ Counted'
  BY ChainStepTypes DEF ChainStep, LoadInv, JournalLoads, TypeOK
<1>2. /\ strays' \subseteq strays
      /\ call' # call => call # None /\ call' # None /\ call'.tx = call.tx
  BY ChainStepNetwork DEF ChainStep, LoadInv, JournalLoads, TypeOK
<1>3. UNCHANGED <<journal, worker, faults, outputs>>
  BY DEF ChainStep
<1>4. Control'
  BY <1>2, <1>3 DEF LoadInv, Control, Busy, PhaseOf, journal, worker
<1>5. Hashed'
  BY <1>2, <1>3 DEF LoadInv, Hashed, journal
<1>6. Checking'
  BY <1>3 DEF LoadInv, Checking, Unsettled, journal, worker, checking
<1>7. JournalLoads'
  BY <1>1, <1>3 DEF LoadInv, JournalLoads, TypeOK, Unsettled, journal, worker, checking
<1> QED
  BY <1>1, <1>4, <1>5, <1>6, <1>7 DEF LoadInv

LEMMA StutterLoads ==
  ASSUME LoadInv, UNCHANGED vars
  PROVE  LoadInv'
BY DEF LoadInv, JournalLoads, TypeOK, ChainTypeOK, Control, Hashed, Checking, Counted, Unsettled,
       Busy, PhaseOf, Landed, vars, chain, accounts, network, journal, worker, checking

LEMMA StepLoads ==
  ASSUME LoadInv, [Next]_vars
  PROVE  LoadInv'
<1>1. CASE Tick
  BY <1>1, SettleLoads, SettleNextLoads, ReadingLoads, ExamineLoads, SettleDoneLoads,
     NoCandidateLoads, ResumeOpenClaimLoads, ResumeHasClaim, ClaimCandidateLoads,
     ClaimAnsweredLoads, RecoverClaimLoads, RunExecutorLoads, DeliverLoads,
     SubmitPreparedLoads, SubmitLandedLoads, SubmitFailedLoads, RecoverSubmissionLoads
     DEF Tick
<1>2. CASE Environment
  BY <1>2, ChainStepLoads, MarkerAgesLoads, RecordAgesLoads DEF Environment, ChainStep
<1> QED
  BY <1>1, <1>2, GiveUpLoads, StutterLoads DEF Next

LEMMA InitLoads ==
  ASSUME Init
  PROVE  LoadInv
<1>1. IsFiniteSet(Tasks) /\ Cardinality(Tasks) \in Nat /\ Cardinality({}) = 0
  BY TasksAssumption, FS_CardinalityType, FS_EmptySet
<1>2. Unsettled = {}
  BY DEF Init, JournalInit, Unsettled
<1>3. TypeOK
  BY <1>1, RoundsAssumption, FaultsAssumption
     DEF Init, ChainInit, JournalInit, TypeOK, ChainTypeOK, TaskStatuses, ClaimStates
<1>4. JournalLoads
  BY <1>1, <1>2, <1>3, UnsettledAssumption DEF JournalLoads, Init, JournalInit
<1>5. Control /\ Hashed /\ Counted
  BY NothingIsReading DEF Init, ChainInit, JournalInit, Control, Hashed, Counted, Busy, Steps
<1>6. Checking
  BY DEF Init, JournalInit, Checking, NoOutcomes, Outcomes
<1> QED
  BY <1>4, <1>5, <1>6 DEF LoadInv

LEMMA LoadInvariant == Spec => []LoadInv
<1>1. LoadInv /\ [Next]_vars => LoadInv'
  BY StepLoads
<1> QED
  BY <1>1, InitLoads, PTL DEF Spec

\* For every number of tasks and whatever crashes, lost answers, slow reads and
\* lagging nodes do, currentState accepts the file: its entries are well formed,
\* the ledger keeps its limit, and no task is both open and in the ledger.
THEOREM JournalAlwaysLoads == Spec => []JournalLoads
<1>1. LoadInv => JournalLoads
  BY DEF LoadInv
<1> QED
  BY <1>1, LoadInvariant, PTL

-----------------------------------------------------------------------------
(***************************************************************************)
(* Earnings are booked once.                                               *)
(***************************************************************************)
\* What one task adds to the sum is a natural number.
LEMMA BookedTypes ==
  ASSUME JournalLoads
  PROVE  /\ \A t \in Tasks : Booked(t) \in Nat
         /\ [t \in Tasks |-> Booked(t)] \in [Tasks -> Int]
         /\ SumFunctionOnSet([t \in Tasks |-> Booked(t)], Tasks) \in Int
         /\ baseline \in Nat
<1>1. Cardinality(Tasks) \in Nat
  BY FS_CardinalityType, TasksAssumption
<1>2. ASSUME NEW t \in Tasks PROVE Booked(t) \in Nat
  <2>1. CASE ledger[t] # None
    <3>1. ledger[t].earned \in {Unknown} \cup 0..Cardinality(Tasks)
      BY <2>1 DEF JournalLoads, TypeOK, Records
    <3> QED
      BY <1>1, <3>1 DEF Booked
  <2>2. CASE ledger[t] = None
    BY <2>2 DEF Booked, Settled
  <2> QED
    BY <2>1, <2>2
<1>3. [t \in Tasks |-> Booked(t)] \in [Tasks -> Int]
  BY <1>2
<1> QED
  BY <1>1, <1>2, <1>3, SumType, TasksAssumption DEF JournalLoads, TypeOK

\* A check books what is decided now, and nothing else: a task that is not
\* decided counts as before, and one that is counted for nothing.
LEMMA UndecidedKeeps ==
  ASSUME LoadInv, NEW t \in Tasks, NEW e \in EarnedReadable,
         ledger'[t] = Reconciled(t, e), ~Decided(t, e)
  PROVE  Booked(t)' = Booked(t) /\ (t \in Shared' <=> t \in Shared)
<1>1. /\ found[t] # "pending" => ledger[t] \in Records /\ ledger[t].outcome = "pending"
      /\ revived # None /\ revived.task = t =>
           ledger[t] \in Records /\ ledger[t].outcome = "pending"
  BY DEF LoadInv, JournalLoads, TypeOK, Checking, Unsettled
<1>2. CASE found[t] = "straggling"
  <2>1. ledger'[t] = [ledger[t] EXCEPT !.straggler = TRUE]
    BY <1>2 DEF Reconciled
  <2>2. ledger'[t].outcome = "pending"
    BY <1>1, <1>2, <2>1 DEF Records
  <2>3. ~Settled(t) /\ ~Settled(t)'
    BY <1>1, <1>2, <2>2 DEF Settled
  <2> QED
    BY <2>3 DEF Booked, Shared
<1>3. CASE found[t] # "straggling" /\ revived # None /\ revived.task = t
  <2>1. ledger'[t] = None
    BY <1>3 DEF Reconciled
  <2>2. ~Settled(t) /\ ~Settled(t)'
    BY <1>1, <1>3, <2>1 DEF Settled
  <2> QED
    BY <2>2 DEF Booked, Shared
<1>4. CASE found[t] # "straggling" /\ ~(revived # None /\ revived.task = t)
  <2>1. ledger'[t] = ledger[t]
    BY <1>4 DEF Reconciled
  <2> QED
    BY <2>1 DEF Booked, Shared, Settled
<1> QED
  BY <1>2, <1>3, <1>4

LEMMA DecidedBooks ==
  ASSUME LoadInv, NEW t \in Tasks, NEW e \in EarnedReadable,
         ledger'[t] = Reconciled(t, e), Decided(t, e)
  PROVE  /\ Booked(t) = 0 /\ t \notin Shared
         /\ t \notin Acceptances => Booked(t)' = 0 /\ t \notin Shared'
         /\ t \in Acceptances => e > baseline
         /\ t \in Acceptances /\ Cardinality(Acceptances) = 1 =>
              Booked(t)' = e - baseline /\ t \notin Shared'
         /\ t \in Acceptances /\ Cardinality(Acceptances) # 1 =>
              Booked(t)' = 0 /\ t \in Shared'
<1>1. ledger[t] \in Records /\ ledger[t].outcome = "pending"
  BY DEF LoadInv, JournalLoads, TypeOK, Checking, Unsettled, Decided
<1>2. ledger'[t] = [ledger[t] EXCEPT !.outcome = found[t], !.earned = Earned(t, e)]
  BY DEF Reconciled
<1>3. ledger'[t].outcome = found[t] /\ ledger'[t].earned = Earned(t, e)
  BY <1>1, <1>2 DEF Records
<1>4. found[t] # "pending" /\ (found[t] = "accepted" => e > baseline)
  BY DEF Decided
<1>5. [ledger[t] EXCEPT !.outcome = found[t], !.earned = Earned(t, e)] # None
  <2>1. found[t] \in Outcomes \ {"pending"} /\ Earned(t, e) \in {Unknown} \cup 0..Cardinality(Tasks)
    <3>1. Cardinality(Tasks) \in Nat /\ e \in 0..Cardinality(Tasks) /\ baseline \in Nat
      BY EarnedTypes, FS_CardinalityType, TasksAssumption DEF LoadInv, JournalLoads, TypeOK
    <3> QED
      BY <1>4, <3>1 DEF Earned, Decided, LoadInv, Checking
  <2>2. ledger'[t] \in Records
    BY <1>1, <1>2, <2>1 DEF Records
  <2> QED
    BY <1>2, <2>2, RecordFields
<1>6. ~Settled(t) /\ Settled(t)'
  BY <1>1, <1>2, <1>3, <1>4, <1>5 DEF Settled
<1>7. Booked(t) = 0 /\ t \notin Shared
  BY <1>6 DEF Booked, Shared
<1>8. /\ Booked(t)' = IF Earned(t, e) # Unknown THEN Earned(t, e) ELSE 0
      /\ t \in Shared' <=> Earned(t, e) = Unknown
  BY <1>3, <1>6 DEF Booked, Shared
<1>9. e \in Int /\ baseline \in Int
  BY EarnedTypes, FS_CardinalityType, TasksAssumption DEF LoadInv, JournalLoads, TypeOK
<1>10. t \in Acceptances <=> found[t] = "accepted"
  BY DEF Acceptances
<1>11. found[t] # "accepted" => Earned(t, e) = 0
  BY DEF Earned
<1>12. found[t] = "accepted" =>
         Earned(t, e) = IF Cardinality(Acceptances) = 1 THEN e - baseline ELSE Unknown
  BY DEF Earned
<1>13. found[t] = "accepted" => e - baseline # Unknown
  BY <1>4, <1>9 DEF Unknown
<1> QED
  BY <1>4, <1>7, <1>8, <1>10, <1>11, <1>12, <1>13 DEF Unknown

\* Every payment lasts.
LEMMA PaymentsLast ==
  ASSUME [Next]_vars
  PROVE  paid \subseteq paid'
BY DEF Next, Tick, Environment, ChainNext, Land, Fail, LandStray, DropStray, Perform, CatchUp,
       Accept, Reject, RequestChanges, ExpireClaim, Cancel, OthersWork, Sweep, Settle,
       SettleNext, ExamineReads, Examine, SettleDone, ResumeReads, ResumeNothing, Read,
       ResumeOpenClaim, ClaimCandidate, NoCandidate, ClaimLanded, ClaimFailed, Answered,
       Unanswered, RecoverClaim, RunExecutor, Deliver, SubmitPrepared, SubmitLanded,
       SubmitFailed, RecoverSubmission, Crash, StepFails, GiveUp, MarkerAges, RecordAges,
       chain, accounts, vars

LEMMA SettleDoneBooks ==
  ASSUME LoadInv, EarningsBookedOnce, SettleDone
  PROVE  EarningsBookedOnce'
<1> DEFINE before == [t \in Tasks |-> Booked(t)]
           after == [t \in Tasks |-> Booked(t)']
           sum == SumFunctionOnSet(before, Tasks)
<1>1. PICK e \in EarnedReadable :
        ledger' = [t \in Tasks |-> Reconciled(t, e)] /\ baseline' = NewBaseline(e)
  BY DEF SettleDone
<1>2. \A t \in Tasks : ledger'[t] = Reconciled(t, e)
  BY <1>1
<1>3. sum \in Int /\ before \in [Tasks -> Int] /\ baseline \in Nat
  BY BookedTypes DEF LoadInv
<1>4. e \in Int /\ e <= TotalEarned /\ TotalEarned \in Nat
  BY EarnedTypes, FS_CardinalityType, TasksAssumption
     DEF LoadInv, JournalLoads, TypeOK, TotalEarned
<1>5. TotalEarned' = TotalEarned
  BY DEF SettleDone, chain, accounts, TotalEarned
<1>6. /\ sum + (IF Shared = {} THEN 0 ELSE 1) <= baseline
      /\ baseline <= TotalEarned
  BY DEF EarningsBookedOnce
<1>7. SUFFICES /\ SumFunctionOnSet(after, Tasks) + (IF Shared' = {} THEN 0 ELSE 1) <= baseline'
               /\ baseline' <= TotalEarned
  BY <1>5 DEF EarningsBookedOnce
<1>8. Acceptances \subseteq Tasks
  BY DEF Acceptances
<1>9. Shared \subseteq Tasks /\ Shared' \subseteq Tasks
  BY DEF Shared
<1>10. ASSUME NEW t \in Tasks, t \in Acceptances, e > baseline PROVE Decided(t, e)
  BY <1>10 DEF Acceptances, Decided
<1>11. CASE Acceptances = {} \/ ~(e > baseline)
  <2>1. \A t \in Tasks : Booked(t)' = Booked(t) /\ (t \in Shared' <=> t \in Shared)
    BY <1>2, <1>11, UndecidedKeeps, DecidedBooks
  <2>2. after = before /\ Shared' = Shared
    BY <1>9, <2>1
  <2>3. baseline' = baseline
    BY <1>1, <1>11 DEF NewBaseline
  <2> HIDE DEF before, after
  <2> QED
    BY <1>6, <2>2, <2>3
<1>12. CASE e > baseline /\ Acceptances # {} /\ Cardinality(Acceptances) = 1
  <2>1. PICK x \in Tasks : Acceptances = {x}
    BY <1>8, <1>12, FS_Singleton, FS_Subset, TasksAssumption
  <2> DEFINE share == [t \in Tasks |-> IF t \in Acceptances THEN e - baseline ELSE 0]
  <2>2. ASSUME NEW t \in Tasks
        PROVE  /\ Booked(t)' = Booked(t) + (IF t \in Acceptances THEN e - baseline ELSE 0)
               /\ t \in Shared' <=> t \in Shared
    <3>1. Booked(t) \in Int /\ e - baseline \in Int
      BY <1>3, <1>4
    <3>2. CASE t \in Acceptances
      <4>1. Decided(t, e)
        BY <1>10, <1>12, <3>2
      <4>2. /\ Booked(t) = 0 /\ t \notin Shared
            /\ Booked(t)' = e - baseline /\ t \notin Shared'
        BY <1>2, <1>12, <3>2, <4>1, DecidedBooks
      <4> QED
        BY <3>1, <3>2, <4>2
    <3>3. CASE t \notin Acceptances
      <4>1. Booked(t)' = Booked(t) /\ (t \in Shared' <=> t \in Shared)
        BY <1>2, <3>3, UndecidedKeeps, DecidedBooks
      <4> QED
        BY <3>1, <3>3, <4>1
    <3> QED
      BY <3>2, <3>3
  <2>3. Shared' = Shared
    BY <1>9, <2>2
  <2>4. share \in [Tasks -> Int]
    BY <1>3, <1>4
  <2>5. after = [t \in Tasks |-> before[t] + share[t]]
    BY <2>2
  <2>6. SumFunctionOnSet(share, Tasks) = (e - baseline) * Cardinality(Acceptances)
    BY <1>3, <1>4, <1>8, SumOfShares, TasksAssumption
  <2>7. SumFunctionOnSet(after, Tasks) = sum + SumFunctionOnSet(share, Tasks)
    <3> HIDE DEF before, share, after
    <3> QED
      BY <1>3, <2>4, <2>5, SumOfSums, TasksAssumption DEF sum
  <2>8. baseline' = e
    BY <1>1, <1>12 DEF NewBaseline
  <2> HIDE DEF sum, share, after
  <2>9. SumFunctionOnSet(after, Tasks) = sum + (e - baseline)
    BY <1>3, <1>4, <1>12, <2>6, <2>7
  <2> QED
    BY <1>3, <1>4, <1>6, <2>3, <2>8, <2>9
<1>13. CASE e > baseline /\ Acceptances # {} /\ Cardinality(Acceptances) # 1
  <2>1. ASSUME NEW t \in Tasks PROVE Booked(t)' = Booked(t)
    BY <1>2, <1>10, <1>13, UndecidedKeeps, DecidedBooks
  <2>2. after = before
    BY <2>1
  <2>3. baseline' = e
    BY <1>1, <1>13 DEF NewBaseline
  <2> HIDE DEF before, after
  <2>4. SumFunctionOnSet(after, Tasks) = sum
    BY <2>2
  <2> HIDE DEF sum
  <2> QED
    BY <1>3, <1>4, <1>6, <1>13, <2>3, <2>4
<1> QED
  BY <1>11, <1>12, <1>13

\* No other step changes an outcome or what was earned with it.
LEMMA OthersBookNothing ==
  ASSUME LoadInv, [Next]_vars, ~SettleDone
  PROVE  /\ baseline' = baseline
         /\ \A t \in Tasks : Booked(t)' = Booked(t) /\ (t \in Shared' <=> t \in Shared)
<1>1. baseline' = baseline
  BY DEF Next, Tick, Environment, Settle,
       SettleNext, ExamineReads, Examine, ResumeReads, ResumeNothing, Read, RestoreRevisionRound,
       ResumeOpenClaim, ClaimCandidate, NoCandidate, ClaimLanded, ClaimFailed, CommitSubmission,
       RecoverClaim, RunExecutor, Deliver, SubmitPrepared, SubmitLanded,
       SubmitFailed, RecoverSubmission, Crash, StepFails, GiveUp, MarkerAges, RecordAges,
       journal, vars
<1>2. \/ RecordAges \/ ledger' = ledger
      \/ /\ pc = "resume" /\ open # None
         /\ ledger' = [ledger EXCEPT ![at] = None]
      \/ ledger' = [ledger EXCEPT ![at] = IF @ = None THEN NewRecord ELSE @]
  <2>1. ResumeOpenClaim => pc = "resume" /\ open # None
    BY ResumeHasClaim DEF ResumeOpenClaim
  <2> QED
    BY <2>1 DEF Next, Tick, Environment, Settle,
       SettleNext, ExamineReads, Examine, ResumeReads, ResumeNothing, Read, RestoreRevisionRound,
       ResumeOpenClaim, ClaimCandidate, NoCandidate, ClaimLanded, ClaimFailed, CommitSubmission,
       RecoverClaim, RunExecutor, Deliver, SubmitPrepared, SubmitLanded,
       SubmitFailed, RecoverSubmission, Crash, StepFails, GiveUp, MarkerAges,
       journal, vars
<1>3. ASSUME NEW t \in Tasks
      PROVE  Booked(t)' = Booked(t) /\ (t \in Shared' <=> t \in Shared)
  <2>1. CASE RecordAges
    <3>1. PICK v \in Tasks : ledger[v] # None /\ ledger' = [ledger EXCEPT ![v].fresh = FALSE]
      BY <2>1 DEF RecordAges
    <3>2. ledger[v] \in Records /\ ledger \in [Tasks -> Records \cup {None}]
      BY <3>1 DEF LoadInv, JournalLoads, TypeOK
    <3>3. ledger'[v] \in Records /\ ledger'[v].outcome = ledger[v].outcome
          /\ ledger'[v].earned = ledger[v].earned /\ \A u \in Tasks \ {v} : ledger'[u] = ledger[u]
      BY <3>1, <3>2 DEF Records
    <3>4. Settled(t)' = Settled(t) /\ (Settled(t) => ledger'[t].earned = ledger[t].earned)
      BY <3>1, <3>3, RecordFields DEF Settled
    <3> QED
      BY <3>4 DEF Booked, Shared
  <2>2. CASE ledger' = ledger
    BY <2>2 DEF Booked, Shared, Settled
  <2>3. CASE pc = "resume" /\ open # None /\ ledger' = [ledger EXCEPT ![at] = None]
    <3>1. at = open.task /\ ledger[open.task] = None
      BY <2>3 DEF LoadInv, JournalLoads, Control
    <3>2. ledger' = ledger
      BY <2>3, <3>1 DEF LoadInv, JournalLoads, TypeOK
    <3> QED
      BY <3>2 DEF Booked, Shared, Settled
  <2>4. CASE ledger' = [ledger EXCEPT ![at] = IF @ = None THEN NewRecord ELSE @]
    <3>1. ledger \in [Tasks -> Records \cup {None}] /\ NewRecord.outcome = "pending"
      BY DEF LoadInv, JournalLoads, TypeOK, NewRecord
    <3>2. \/ ledger'[t] = ledger[t]
          \/ ledger[t] = None /\ ledger'[t] = NewRecord
      BY <2>4, <3>1
    <3>3. CASE ledger'[t] = ledger[t]
      BY <3>3 DEF Booked, Shared, Settled
    <3>4. CASE ledger[t] = None /\ ledger'[t] = NewRecord
      <4>1. ~Settled(t) /\ ~Settled(t)'
        BY <3>1, <3>4 DEF Settled
      <4> QED
        BY <4>1 DEF Booked, Shared
    <3> QED
      BY <3>2, <3>3, <3>4
  <2> QED
    BY <1>2, <2>1, <2>2, <2>3, <2>4
<1> QED
  BY <1>1, <1>3

LEMMA StepBooks ==
  ASSUME LoadInv, EarningsBookedOnce, [Next]_vars
  PROVE  EarningsBookedOnce'
<1>1. CASE SettleDone
  BY <1>1, SettleDoneBooks
<1>2. CASE ~SettleDone
  <2> DEFINE before == [t \in Tasks |-> Booked(t)]
             after == [t \in Tasks |-> Booked(t)']
  <2>1. /\ baseline' = baseline
        /\ \A t \in Tasks : Booked(t)' = Booked(t) /\ (t \in Shared' <=> t \in Shared)
    BY <1>2, OthersBookNothing
  <2>2. after = before
    BY <2>1
  <2>3. Shared' = Shared
    BY <2>1 DEF Shared
  <2>4. TotalEarned <= TotalEarned' /\ TotalEarned \in Nat /\ TotalEarned' \in Nat
    <3>1. paid' \subseteq Tasks
      BY StepLoads DEF LoadInv, JournalLoads, TypeOK, ChainTypeOK
    <3>2. paid \subseteq paid' /\ IsFiniteSet(paid')
      BY <3>1, PaymentsLast, FS_Subset, TasksAssumption
    <3> QED
      BY <3>2, FS_Subset, FS_CardinalityType DEF TotalEarned
  <2>5. baseline \in Nat
    BY BookedTypes DEF LoadInv
  <2> QED
    BY <2>1, <2>2, <2>3, <2>4, <2>5 DEF EarningsBookedOnce
<1> QED
  BY <1>1, <1>2

\* For every number of tasks, whatever the switches and however its nodes lag:
\* what the worker reports as earned never adds up to more than it was paid.
THEOREM EarningsAlwaysBookedOnce == Spec => []EarningsBookedOnce
<1>1. Init => EarningsBookedOnce
  <2> SUFFICES ASSUME Init PROVE EarningsBookedOnce
    OBVIOUS
  <2> DEFINE before == [t \in Tasks |-> Booked(t)]
             none == [t \in Tasks |-> IF t \in {} THEN 0 ELSE 0]
  <2>1. \A t \in Tasks : ~Settled(t)
    BY DEF Init, JournalInit, Settled
  <2>2. before = none /\ Shared = {}
    BY <2>1 DEF Booked, Shared
  <2>3. SumFunctionOnSet(none, Tasks) = 0 * Cardinality({})
    BY SumOfShares, TasksAssumption
  <2>4. SumFunctionOnSet(before, Tasks) = 0
    BY <2>2, <2>3, FS_EmptySet
  <2>5. baseline = 0 /\ TotalEarned = 0
    BY FS_EmptySet DEF Init, JournalInit, ChainInit, TotalEarned
  <2> QED
    BY <2>2, <2>4, <2>5 DEF EarningsBookedOnce
<1>2. LoadInv /\ EarningsBookedOnce /\ [Next]_vars => EarningsBookedOnce'
  BY StepBooks
<1> QED
  BY <1>1, <1>2, LoadInvariant, PTL DEF Spec

-----------------------------------------------------------------------------
(***************************************************************************)
(* The second inductive invariant, for a worker whose reads are quicker    *)
(* than the grace period, nodes that do not lag and claims that do not     *)
(* expire under review.  For every task that is neither open nor in the    *)
(* ledger the chain knows nothing of the worker; for the others the chain  *)
(* is as far as the journal says, or the claim is lost for good.           *)
(***************************************************************************)
Prompt == ~Lag /\ ~SlowReads /\ ~LongReviews

\* Transactions that may still land.
InFlight == strays \cup Abandoned

\* The executor has been run for the round t is in, and what it produced.
Worked(t) == \E o \in outputs : o.task = t /\ o.round = round[t]
Produced(t, h) == [task |-> t, round |-> round[t], hash |-> h] \in outputs

AccountsFit ==
  \A t \in Tasks :
    /\ behind[t] = None
    /\ Landed(sub[t]) => /\ claim[t] = "live" /\ ~sub[t].thread
                         /\ task[t] \in {"PendingValidation", "Completed"}
    /\ Refused(sub[t]) /\ ~sub[t].thread => claim[t] = "none"
    /\ task[t] = "Open" => claim[t] = "none"
    /\ t \in paid => claim[t] = "none" /\ sub[t] = None

OutputsFit == \A o \in outputs : o.round <= round[o.task]

\* The chain knows nothing of this worker.
Untouched(t) == claim[t] = "none" /\ sub[t] = None /\ t \notin paid

\* What the chain may know of a task in the ledger.
Handed(t) ==
  /\ Landed(sub[t]) => Produced(t, sub[t].hash)
  /\ Refused(sub[t]) /\ claim[t] # "none" => ~Worked(t) \/ task[t] \in Ended

\* Nothing has been handed in since the marker m was made.
Unsent(m) ==
  IF sub[m.task] = None THEN m.rev = 0
  ELSE Refused(sub[m.task]) /\ sub[m.task].count = m.rev

\* A marker before its submission.
Prepared(m) ==
  /\ m.task \notin paid
  /\ sub[m.task] # None \/ claim[m.task] # "none" => Unsent(m)
  /\ m.phase # "claiming" => ~m.fresh
  /\ m.phase = "claiming" => m.rev = 0
  /\ m.phase = "executed" => Produced(m.task, m.hash)
  /\ m.phase # "executed" /\ Worked(m.task) => claim[m.task] = "none"

\* A marker whose submission may have been sent: not yet landed, under review,
\* or sent back for changes.
Submitting(m) ==
  /\ claim[m.task] # "none" =>
       \/ Unsent(m) /\ Produced(m.task, m.hash)
       \/ /\ Landed(sub[m.task]) /\ sub[m.task].count > m.rev
          /\ sub[m.task].hash = m.hash /\ Produced(m.task, m.hash)
       \/ Refused(sub[m.task]) /\ sub[m.task].count > m.rev
  /\ Refused(sub[m.task]) /\ sub[m.task].thread /\ sub[m.task].count # m.rev
       => ~Worked(m.task)

MarkerFits(m) == IF m.phase = "submitting" THEN Submitting(m) ELSE Prepared(m)

JournalFits ==
  /\ \A t \in Tasks : Tracked(t) \/ Untouched(t)
  /\ \A t \in Tasks : ledger[t] # None => Handed(t)
  /\ \A m \in {open, revived} \ {None} : MarkerFits(m)

\* The transaction x is the one the open claim m stands for.
FlightFits(x, m) ==
  /\ m.fresh /\ x.task = m.task
  /\ x.kind = "claim" => m.phase = "claiming" /\ claim[m.task] = "none"
  /\ x.kind = "submit" =>
       /\ m.phase = "submitting" /\ x.hash = m.hash /\ ~Landed(sub[m.task])
       /\ claim[m.task] = "live" => Unsent(m)

Flights ==
  /\ call # None => strays = {}
  /\ \A x, y \in strays : x = y
  /\ InFlight # {} => open # None
  /\ \A m \in {open} \ {None}, x \in InFlight : FlightFits(x, m)
  /\ pc \in {"refuted", "submit"} => strays = {}
  /\ \A m \in {open} \ {None} :
       /\ pc = "submit" /\ claim[m.task] = "live" => Unsent(m)
       /\ pc = "execute" => ~Worked(m.task)
       /\ pc = "claim" /\ call.state = "landed" => ~Worked(m.task)
       /\ pc = "sent" /\ call.state = "landed" /\ claim[m.task] # "none" => ~Unsent(m)

\* What a resume has read of m's task against what is there now.
ClaimReadings(m) ==
  /\ m.phase # "claiming" \/ ~m.fresh =>
       \A c \in got.claim :
         /\ c # "live" => claim[m.task] # "live"
         /\ c = "none" => claim[m.task] = "none"
  /\ m.phase \in {"claiming", "claimed"} /\ Worked(m.task) => got.claim \subseteq {"none"}
  /\ m.phase = "claiming" /\ strays # {} => got.claim \subseteq {"none"}

SubReadings(m) ==
  \A s \in got.sub :
    /\ Landed(s) => /\ m.phase = "submitting" /\ strays = {}
                    /\ claim[m.task] = "none" \/ ~Unsent(m)
    /\ m.phase # "submitting" \/ ~m.fresh =>
         \/ s = sub[m.task] \/ Landed(s)
         \/ Refused(s) /\ sub[m.task] = None /\ claim[m.task] = "none"
    /\ Refused(s) /\ s.count # m.rev =>
         /\ m.phase = "submitting" /\ m.task \notin paid
         /\ s = sub[m.task] \/ (sub[m.task] = None /\ claim[m.task] = "none")
         /\ s.thread => ~Worked(m.task)
         /\ strays # {} => claim[m.task] # "live" /\ "live" \notin got.claim

TaskReadings(m) ==
  \A u \in got.task :
    /\ u \in Ended => task[m.task] \in Ended
    /\ u = "Open" /\ m.phase # "claiming" => claim[m.task] = "none"

ReadingsFit(m) ==
  /\ ClaimReadings(m) /\ SubReadings(m) /\ TaskReadings(m)
  /\ m.phase = "submitting" /\ strays # {} /\ "live" \in got.claim
       => sub[m.task] = None \/ sub[m.task].count = m.rev

\* What the settlement check has read of task t.
EvidenceFits(t) ==
  /\ got.task # {}
  /\ \A s \in got.sub :
       /\ \/ s = sub[t] \/ Landed(s)
          \/ Refused(s) /\ sub[t] = None /\ claim[t] = "none"
       /\ Refused(s) => t \notin paid
  /\ \A u \in got.task :
       u \in Engaged /\ Refused(sub[t]) /\ claim[t] # "none" => ~Worked(t)

WhatIsRead ==
  /\ pc = "resume" => \A m \in {open} \ {None} : ReadingsFit(m)
  /\ pc = "examine" => EvidenceFits(at)

TrackInv == AccountsFit /\ OutputsFit /\ JournalFits /\ Flights /\ WhatIsRead

-----------------------------------------------------------------------------
(***************************************************************************)
(* The other parties.  What they do to one task, in one relation.          *)
(***************************************************************************)
SentBack(s, s2) ==
  s2.status = "Rejected" /\ s2.count = s.count /\ s2.hash = s.hash /\ s2 # None

Moves(t) ==
  /\ \A v \in Tasks \ {t} :
       /\ task'[v] = task[v] /\ claim'[v] = claim[v] /\ sub'[v] = sub[v]
       /\ round'[v] = round[v] /\ (v \in paid' <=> v \in paid)
  /\ UNCHANGED <<behind, network>>
  /\ task[t] \in Ended => task'[t] \in Ended
  /\ task'[t] = "Open" => claim'[t] = "none"
  /\ \/ /\ sub'[t] = None /\ claim'[t] = "none" /\ round'[t] = round[t]
        /\ t \in paid' => t \in paid \/ Landed(sub[t])
     \/ /\ Landed(sub[t]) /\ SentBack(sub[t], sub'[t]) /\ ~sub'[t].thread
        /\ claim'[t] = "none" /\ round'[t] = round[t] /\ paid' = paid
     \/ /\ Landed(sub[t]) /\ SentBack(sub[t], sub'[t]) /\ sub'[t].thread
        /\ claim'[t] = "live" /\ round'[t] = round[t] + 1 /\ paid' = paid
     \/ /\ Landed(sub[t]) /\ sub'[t] = sub[t] /\ claim'[t] = claim[t]
        /\ task'[t] = "Completed" /\ round'[t] = round[t] /\ paid' = paid
     \/ /\ ~Landed(sub[t]) /\ sub'[t] = sub[t] /\ round'[t] = round[t] /\ paid' = paid
        /\ claim'[t] \in {claim[t], "expired", "none"}
        /\ claim[t] = "none" => claim'[t] = "none"

LEMMA OthersMove ==
  ASSUME Prompt, AccountsTypeOK, AccountsFit, NEW t \in Tasks, OthersStep(t)
  PROVE  Moves(t)
<1>0. /\ task[t] \in TaskStatuses /\ claim[t] \in ClaimStates
      /\ sub[t] \in Submissions \cup {None} /\ round[t] \in 0..MaxRounds
  BY DEF AccountsTypeOK
<1>1. /\ UNCHANGED network
      /\ UNCHANGED behind
      /\ paid' \in {paid, paid \cup {t}}
  BY DEF Prompt, OthersStep, Accept, Reject, RequestChanges, ExpireClaim, Cancel, OthersWork,
         Sweep, Become
<1>2. \A v \in Tasks \ {t} :
         /\ task'[v] = task[v] /\ claim'[v] = claim[v] /\ sub'[v] = sub[v]
         /\ round'[v] = round[v] /\ (v \in paid' <=> v \in paid)
  <2>1. UNCHANGED round \/ (Grant(t) /\ round[t] < MaxRounds)
    BY DEF OthersStep, Accept, Reject, RequestChanges, ExpireClaim, Cancel, OthersWork, Sweep
  <2>2. \E u, c, s : Become(t, u, c, s)
    BY DEF OthersStep, Accept, Reject, RequestChanges, ExpireClaim, Cancel, OthersWork, Sweep
  <2> QED
    BY <1>1, <2>1, <2>2, BecomeFields, GrantTypes
<1>3. CASE Accept(t)
  <2>1. PICK u \in {"Completed", "Open", "InProgress"} : Become(t, u, "none", None)
    BY <1>3 DEF Accept, Released
  <2>2. task[t] \notin Ended /\ Landed(sub[t]) /\ UNCHANGED round
    BY <1>3 DEF Accept, Ended
  <2> QED
    BY <1>1, <1>2, <2>1, <2>2, BecomeFields DEF Moves
<1>4. CASE Reject(t)
  <2>1. PICK u \in {"Open", "InProgress"}, left \in {None, [sub[t] EXCEPT !.status = "Rejected"]} :
          Become(t, u, "none", left)
    BY <1>4 DEF Reject, Released
  <2>2. task[t] \notin Ended /\ Landed(sub[t]) /\ UNCHANGED <<round, paid>>
    BY <1>4 DEF Reject, Ended
  <2>3. task'[t] = u /\ claim'[t] = "none" /\ sub'[t] = left
    BY <2>1, BecomeFields
  <2>4. CASE left = None
    BY <1>1, <1>2, <2>2, <2>3, <2>4 DEF Moves
  <2>5. CASE left = [sub[t] EXCEPT !.status = "Rejected"]
    <3>1. sub[t] \in Submissions /\ ~sub[t].thread
      BY <1>0, <2>2, SubmissionFields DEF Landed, AccountsFit, Moves
    <3>2. left \in Submissions /\ left.status = "Rejected" /\ left.count = sub[t].count
          /\ left.hash = sub[t].hash /\ left.thread = sub[t].thread
      BY <2>5, <3>1 DEF Submissions
    <3> QED
      BY <1>1, <1>2, <2>2, <2>3, <3>1, <3>2, SubmissionFields DEF Moves, SentBack
  <2> QED
    BY <2>4, <2>5
<1>5. CASE RequestChanges(t)
  <2> DEFINE s == [sub[t] EXCEPT !.status = "Rejected", !.thread = TRUE]
  <2>1. /\ Become(t, "InProgress", "live", s) /\ Grant(t) /\ round[t] < MaxRounds
        /\ UNCHANGED paid /\ Landed(sub[t]) /\ task[t] \notin Ended
    BY <1>5 DEF RequestChanges, Ended
  <2>2. sub[t] \in Submissions
    BY <1>0, <2>1 DEF Landed
  <2>3. s \in Submissions /\ s.status = "Rejected" /\ s.count = sub[t].count
        /\ s.hash = sub[t].hash /\ s.thread = TRUE
    BY <2>2 DEF Submissions
  <2>4. task'[t] = "InProgress" /\ claim'[t] = "live" /\ sub'[t] = s /\ round'[t] = round[t] + 1
    BY <2>1, BecomeFields, GrantTypes
  <2> QED
    BY <1>1, <1>2, <2>1, <2>3, <2>4, SubmissionFields DEF Moves, SentBack
<1>6. CASE ExpireClaim(t)
  <2>1. /\ ~Landed(sub[t]) /\ UNCHANGED <<round, paid>> /\ claim[t] # "none"
        /\ \/ Become(t, task[t], "expired", sub[t])
           \/ /\ task[t] \notin Ended
              /\ \E u \in {"Open", "InProgress"} : Become(t, u, "none", sub[t])
    BY <1>6 DEF Prompt, ExpireClaim, Released, Engaged, Ended
  <2>2. CASE Become(t, task[t], "expired", sub[t])
    BY <1>1, <1>2, <2>1, <2>2, BecomeFields DEF Moves, AccountsFit
  <2>3. ASSUME NEW u \in {"Open", "InProgress"}, Become(t, u, "none", sub[t]), task[t] \notin Ended
        PROVE  Moves(t)
    BY <1>1, <1>2, <2>1, <2>3, BecomeFields DEF Moves
  <2> QED
    BY <2>1, <2>2, <2>3
<1>7. CASE Cancel(t)
  <2>1. ~Landed(sub[t]) /\ UNCHANGED <<round, paid>> /\ Become(t, "Cancelled", "none", sub[t])
    BY <1>7 DEF Cancel, AccountsFit
  <2> QED
    BY <1>1, <1>2, <2>1, BecomeFields DEF Moves, Ended
<1>8. CASE OthersWork(t)
  <2>1. UNCHANGED <<round, paid>>
    BY <1>8 DEF OthersWork
  <2>2. CASE task[t] = "Open" /\ Become(t, "InProgress", "none", sub[t])
    BY <1>1, <1>2, <2>1, <2>2, BecomeFields DEF Moves, AccountsFit, Ended
  <2>3. CASE task[t] = "InProgress" /\ claim[t] = "none" /\ Become(t, "Open", "none", sub[t])
    BY <1>1, <1>2, <2>1, <2>3, BecomeFields DEF Moves, AccountsFit, Ended
  <2>4. CASE Become(t, "Completed", claim[t], sub[t])
    BY <1>0, <1>1, <1>2, <2>1, <2>4, BecomeFields DEF Moves, Ended
  <2> QED
    BY <1>8, <2>2, <2>3, <2>4 DEF OthersWork
<1>9. CASE Sweep(t)
  <2>1. UNCHANGED <<round, paid>> /\ task[t] \in Ended /\ Become(t, task[t], "none", None)
    BY <1>9 DEF Sweep
  <2> QED
    BY <1>1, <1>2, <2>1, BecomeFields DEF Moves, Ended
<1> QED
  BY <1>3, <1>4, <1>5, <1>6, <1>7, <1>8, <1>9 DEF OthersStep

IInv == LoadInv /\ TrackInv

\* Types that the lemmas below need of a state.
LEMMA StateTypes ==
  ASSUME LoadInv
  PROVE  /\ AccountsTypeOK
         /\ \A t \in Tasks :
              /\ task[t] \in TaskStatuses /\ claim[t] \in ClaimStates
              /\ sub[t] \in Submissions \cup {None} /\ round[t] \in 0..MaxRounds
         /\ open \in Markers \cup {None} /\ revived \in Markers \cup {None}
         /\ got \in Readings
         /\ outputs \subseteq Outputs
BY DEF LoadInv, JournalLoads, TypeOK, ChainTypeOK, AccountsTypeOK, Control



LEMMA MovesRounds ==
  ASSUME LoadInv, OutputsFit, NEW t \in Tasks, Moves(t), outputs' = outputs
  PROVE  /\ OutputsFit'
         /\ \A v \in Tasks : round'[v] = round[v] =>
              /\ Worked(v)' <=> Worked(v)
              /\ \A h : Produced(v, h)' <=> Produced(v, h)
         /\ round'[t] # round[t] => ~Worked(t)'
<1>1. \A v \in Tasks : round'[v] \in {round[v], round[v] + 1} /\ round[v] \in Int
  BY StateTypes DEF Moves
<1>2. \A o \in outputs : o.task \in Tasks /\ o.round \in Int
  BY StateTypes DEF Outputs
<1> QED
  BY <1>1, <1>2 DEF OutputsFit, Worked, Produced, Moves

LEMMA MovesAccounts ==
  ASSUME LoadInv, AccountsFit, NEW t \in Tasks, Moves(t)
  PROVE  AccountsFit'
<1> SUFFICES ASSUME NEW v \in Tasks
             PROVE  /\ behind'[v] = None
                    /\ Landed(sub'[v]) => /\ claim'[v] = "live" /\ ~sub'[v].thread
                                          /\ task'[v] \in {"PendingValidation", "Completed"}
                    /\ Refused(sub'[v]) /\ ~sub'[v].thread => claim'[v] = "none"
                    /\ task'[v] = "Open" => claim'[v] = "none"
                    /\ v \in paid' => claim'[v] = "none" /\ sub'[v] = None
  BY DEF AccountsFit, Landed, Refused
<1>1. CASE v # t
  BY <1>1 DEF Moves, AccountsFit
<1>2. CASE v = t
  BY <1>2, StateTypes, SubmissionFields DEF Moves, SentBack, AccountsFit, Landed, Refused
<1> QED
  BY <1>1, <1>2

LEMMA MovesHanded ==
  ASSUME IInv, NEW t \in Tasks, Moves(t), outputs' = outputs, NEW v \in Tasks
  PROVE  /\ Handed(v) => Handed(v)'
         /\ Untouched(v) => Untouched(v)'
<1>1. CASE v # t
  BY <1>1, MovesRounds DEF Moves, Handed, Untouched, Landed, Refused, IInv, TrackInv
<1>2. CASE v = t
  BY <1>2, MovesRounds, StateTypes, SubmissionFields
     DEF Moves, SentBack, Handed, Untouched, Landed, Refused, IInv, TrackInv
<1> QED
  BY <1>1, <1>2

LEMMA MovesMarker ==
  ASSUME IInv, NEW t \in Tasks, Moves(t), outputs' = outputs, NEW m \in Markers
  PROVE  MarkerFits(m) => MarkerFits(m)'
<1> m.task \in Tasks /\ m.rev \in 0..MaxRounds
  BY MarkerFields
<1>1. CASE m.task # t
  BY <1>1, MovesRounds
     DEF Moves, MarkerFits, Prepared, Submitting, Unsent, Landed, Refused, IInv, TrackInv
<1>2. CASE m.task = t /\ m.phase # "submitting"
  BY <1>2, MovesRounds, StateTypes, SubmissionFields
     DEF Moves, MarkerFits, Prepared, Unsent, Landed, Refused, IInv, TrackInv
<1>3. CASE m.task = t /\ m.phase = "submitting"
  <2> SUFFICES ASSUME Submitting(m) PROVE Submitting(m)'
    BY <1>3 DEF MarkerFits
  <2>1. CASE round'[t] # round[t]
    BY <1>3, <2>1, MovesRounds, StateTypes, SubmissionFields
       DEF Moves, SentBack, Submitting, Unsent, Landed, Refused, IInv, TrackInv, AccountsFit
  <2>2. CASE round'[t] = round[t]
    <3>1. \A h : Produced(t, h)' <=> Produced(t, h)
      BY <2>2, MovesRounds DEF IInv, TrackInv
    <3>2. Worked(t)' <=> Worked(t)
      BY <2>2, MovesRounds DEF IInv, TrackInv
    <3>3. CASE sub'[t] = sub[t]
      <4>1. claim'[t] # "none" => claim[t] # "none"
        BY <2>2, <3>3 DEF Moves, SentBack, Landed
      <4>2. Submitting(m)' <=>
              /\ claim'[t] # "none" =>
                   \/ Unsent(m) /\ Produced(t, m.hash)
                   \/ /\ Landed(sub[t]) /\ sub[t].count > m.rev
                      /\ sub[t].hash = m.hash /\ Produced(t, m.hash)
                   \/ Refused(sub[t]) /\ sub[t].count > m.rev
              /\ Refused(sub[t]) /\ sub[t].thread /\ sub[t].count # m.rev => ~Worked(t)
        BY <1>3, <3>1, <3>2, <3>3 DEF Submitting, Unsent, Landed, Refused
      <4> QED
        BY <1>3, <4>1, <4>2 DEF Submitting
    <3>4. CASE sub'[t] # sub[t]
      <4>1. round[t] \in Nat
        BY StateTypes, RoundsAssumption DEF IInv
      <4>2. claim'[t] = "none" /\ (sub'[t] = None \/ ~sub'[t].thread)
        BY <2>2, <3>4, <4>1 DEF Moves
      <4> QED
        BY <1>3, <4>2 DEF Submitting, Refused
    <3> QED
      BY <3>3, <3>4
  <2> QED
    BY <2>1, <2>2
<1> QED
  BY <1>1, <1>2, <1>3

LEMMA MovesFlights ==
  ASSUME IInv, NEW t \in Tasks, Moves(t), UNCHANGED <<journal, worker, faults, outputs>>
  PROVE  Flights'
<1>1. /\ InFlight' = InFlight /\ UNCHANGED <<open, pc, call, strays, outputs>>
  BY DEF Moves, InFlight, Abandoned, network, journal, worker
<1>2. ASSUME NEW m \in {open} \ {None} PROVE m \in Markers /\ m.task \in Tasks /\ MarkerFits(m)
  BY <1>2, StateTypes, MarkerFields DEF IInv, TrackInv, JournalFits
\* The task of the open claim loses its claim or keeps what counts.
<1>3. ASSUME NEW m \in {open} \ {None} PROVE
        /\ claim[m.task] = "none" => claim'[m.task] = "none"
        /\ ~Landed(sub[m.task]) =>
             /\ ~Landed(sub'[m.task])
             /\ claim'[m.task] = "live" =>
                  claim[m.task] = "live" /\ (Unsent(m) => Unsent(m)')
             /\ Worked(m.task)' => Worked(m.task)
        /\ m.phase # "submitting" => ~Landed(sub[m.task])
  <2>1. m.phase # "submitting" => ~Landed(sub[m.task])
    BY <1>2 DEF MarkerFits, Prepared, Unsent, Landed, Refused
  <2>2. CASE m.task # t
    BY <1>1, <1>2, <2>1, <2>2, MovesRounds DEF Moves, Unsent, Refused, Landed, IInv, TrackInv
  <2>3. CASE m.task = t
    <3>1. claim[t] = "none" => ~Landed(sub[t])
      BY DEF IInv, TrackInv, AccountsFit
    <3>2. ~Landed(sub[t]) => round'[t] = round[t] /\ (sub'[t] = sub[t] \/ (sub'[t] = None /\ claim'[t] = "none"))
      BY DEF Moves
    <3>3. ~Landed(sub[t]) => (Worked(t)' <=> Worked(t)) /\ ~Landed(sub'[t])
      BY <1>1, <3>2, MovesRounds DEF IInv, TrackInv, Landed
    <3>4. ~Landed(sub[t]) /\ claim'[t] = "live" => claim[t] = "live" /\ sub'[t] = sub[t]
      BY <3>2 DEF Moves
    <3>5. claim[t] = "none" => claim'[t] = "none"
      BY <3>1 DEF Moves
    <3> QED
      BY <2>1, <2>3, <3>3, <3>4, <3>5 DEF Unsent, Refused
  <2> QED
    BY <2>2, <2>3
<1>4. ASSUME NEW m \in {open} \ {None}, NEW x \in InFlight PROVE FlightFits(x, m)'
  BY <1>3, <1>4 DEF FlightFits, IInv, TrackInv, Flights
<1>5. ASSUME NEW m \in {open} \ {None}
      PROVE  /\ pc = "submit" /\ claim'[m.task] = "live" => Unsent(m)'
             /\ pc = "execute" => ~Worked(m.task)'
             /\ pc = "claim" /\ call.state = "landed" => ~Worked(m.task)'
             /\ pc = "sent" /\ call.state = "landed" /\ claim'[m.task] # "none" => ~Unsent(m)'
  <2>1. /\ pc \in {"execute", "claim"} => m.phase # "submitting"
        /\ pc = "sent" => m.phase = "submitting"
    BY <1>5 DEF IInv, LoadInv, Control, Busy, PhaseOf
  <2>2. pc = "submit" /\ claim[m.task] = "live" => Unsent(m)
    BY <1>5 DEF IInv, TrackInv, Flights
  <2>3. CASE pc = "submit"
    <3>1. CASE Landed(sub[m.task])
      <4>1. claim[m.task] = "live"
        BY <1>2, <3>1 DEF IInv, TrackInv, AccountsFit
      <4> QED
        BY <2>2, <2>3, <3>1, <4>1 DEF Unsent, Landed, Refused
    <3> QED
      BY <1>3, <2>2, <2>3, <3>1
  <2>4. ASSUME pc = "sent", call.state = "landed", claim'[m.task] # "none" PROVE ~Unsent(m)'
    <3>1. ~Unsent(m) /\ claim[m.task] # "none"
      BY <1>2, <1>3, <2>4 DEF IInv, TrackInv, Flights
    <3>2. Submitting(m)
      BY <1>2, <2>1, <2>4 DEF MarkerFits
    <3>3. CASE m.task # t
      BY <1>2, <3>1, <3>3 DEF Moves, Unsent, Refused
    <3>4. CASE m.task = t /\ sub'[t] = sub[t]
      BY <1>2, <3>1, <3>4 DEF Unsent, Refused
    <3>5. CASE m.task = t /\ Landed(sub[t]) /\ sub'[t].count = sub[t].count /\ sub'[t] # None
      <4>1. sub[t].count > m.rev /\ sub[t].count \in Int /\ m.rev \in Int
        BY <1>2, <3>1, <3>2, <3>5, StateTypes, SubmissionFields, MarkerFields
           DEF Submitting, Landed, Refused, IInv
      <4> QED
        BY <3>5, <4>1 DEF Unsent
    <3> QED
      BY <2>4, <3>3, <3>4, <3>5 DEF Moves, SentBack
  <2> QED
    BY <1>3, <1>5, <2>1, <2>3, <2>4 DEF IInv, TrackInv, Flights
<1> QED
  BY <1>1, <1>4, <1>5 DEF IInv, TrackInv, Flights

\* What a move means for what was read before it.
LEMMA MovesTask ==
  ASSUME IInv, NEW t \in Tasks, Moves(t), outputs' = outputs, NEW v \in Tasks
  PROVE  /\ claim'[v] = "live" => claim[v] = "live"
         /\ claim[v] = "none" => claim'[v] = "none"
         /\ task[v] \in Ended => task'[v] \in Ended
         /\ sub'[v] = sub[v] \/ Landed(sub[v]) \/ (sub'[v] = None /\ claim'[v] = "none")
         /\ ~Landed(sub[v]) => /\ ~Landed(sub'[v])
                               /\ Worked(v)' <=> Worked(v)
                               /\ v \in paid' => v \in paid
<1>1. CASE v # t
  BY <1>1, MovesRounds DEF Moves, IInv, TrackInv
<1>2. CASE v = t
  <2>1. claim'[t] = "live" => claim[t] = "live"
    BY DEF Moves, IInv, TrackInv, AccountsFit
  <2>2. claim[t] = "none" => claim'[t] = "none"
    BY DEF Moves, IInv, TrackInv, AccountsFit
  <2>3. sub'[t] = sub[t] \/ Landed(sub[t]) \/ (sub'[t] = None /\ claim'[t] = "none")
    BY DEF Moves
  <2>4. ~Landed(sub[t]) => round'[t] = round[t] /\ ~Landed(sub'[t]) /\ (t \in paid' => t \in paid)
    BY DEF Moves, Landed
  <2>5. ~Landed(sub[t]) => (Worked(t)' <=> Worked(t))
    BY <2>4, MovesRounds DEF IInv, TrackInv
  <2>6. task[t] \in Ended => task'[t] \in Ended
    BY DEF Moves
  <2> QED
    BY <1>2, <2>1, <2>2, <2>3, <2>4, <2>5, <2>6
<1> QED
  BY <1>1, <1>2

LEMMA MovesReadings ==
  ASSUME IInv, NEW t \in Tasks, Moves(t), UNCHANGED <<outputs, got, strays>>,
         NEW m \in Markers, MarkerFits(m), ReadingsFit(m),
         strays # {} /\ m.phase = "submitting" => ~Landed(sub[m.task])
  PROVE  ReadingsFit(m)'
<1> DEFINE v == m.task
<1>0. v \in Tasks /\ m.rev \in 0..MaxRounds /\ sub[v] \in Submissions \cup {None}
  BY MarkerFields, StateTypes DEF IInv
<1>1. m.phase # "submitting" => ~Landed(sub[v])
  BY DEF MarkerFits, Prepared, Unsent, Landed, Refused
<1>2. ClaimReadings(m)'
  BY <1>0, <1>1, MovesTask DEF ClaimReadings, ReadingsFit
<1>3. TaskReadings(m)'
  BY <1>0, MovesTask DEF TaskReadings, ReadingsFit
<1>4. SubReadings(m)'
  <2> SUFFICES ASSUME NEW s \in got.sub
               PROVE  /\ Landed(s) => /\ m.phase = "submitting" /\ strays = {}
                                      /\ claim'[v] = "none" \/ ~Unsent(m)'
                      /\ m.phase # "submitting" \/ ~m.fresh =>
                           \/ s = sub'[v] \/ Landed(s)
                           \/ Refused(s) /\ sub'[v] = None /\ claim'[v] = "none"
                      /\ Refused(s) /\ s.count # m.rev =>
                           /\ m.phase = "submitting" /\ v \notin paid'
                           /\ s = sub'[v] \/ (sub'[v] = None /\ claim'[v] = "none")
                           /\ s.thread => ~Worked(v)'
                           /\ strays # {} => claim'[v] # "live" /\ "live" \notin got.claim
    BY DEF SubReadings, Landed, Refused
  <2>1. s \in Submissions \cup {None}
    BY StateTypes DEF Readings, IInv
  <2>2. Landed(s) => /\ m.phase = "submitting" /\ strays = {}
                     /\ claim'[v] = "none" \/ ~Unsent(m)'
    <3> SUFFICES ASSUME Landed(s), claim'[v] # "none", m.phase = "submitting" PROVE ~Unsent(m)'
      BY DEF ReadingsFit, SubReadings
    <3>1. ~Unsent(m) /\ claim[v] # "none"
      BY <1>0, MovesTask DEF ReadingsFit, SubReadings
    <3>2. (Landed(sub[v]) \/ Refused(sub[v])) /\ sub[v].count > m.rev
      BY <3>1 DEF MarkerFits, Submitting
    <3>3. sub'[v] # None /\ sub'[v].count = sub[v].count
      BY <1>0, <3>2 DEF Moves, SentBack, Refused, Landed
    <3> QED
      BY <1>0, <3>2, <3>3, SubmissionFields DEF Unsent, Refused, Landed
  <2>3. ASSUME m.phase # "submitting" \/ ~m.fresh
        PROVE  \/ s = sub'[v] \/ Landed(s)
               \/ Refused(s) /\ sub'[v] = None /\ claim'[v] = "none"
    <3>1. s = sub[v] \/ Landed(s) \/ (Refused(s) /\ sub[v] = None /\ claim[v] = "none")
      BY <2>3 DEF ReadingsFit, SubReadings
    <3>2. s = None \/ Landed(s) \/ Refused(s)
      BY <2>1, SubmissionFields DEF Landed, Refused
    <3> QED
      BY <1>0, <3>1, <3>2, MovesTask DEF Landed
  <2>4. ASSUME Refused(s), s.count # m.rev
        PROVE  /\ m.phase = "submitting" /\ v \notin paid'
               /\ s = sub'[v] \/ (sub'[v] = None /\ claim'[v] = "none")
               /\ s.thread => ~Worked(v)'
               /\ strays # {} => claim'[v] # "live" /\ "live" \notin got.claim
    <3>1. /\ m.phase = "submitting" /\ v \notin paid
          /\ s = sub[v] \/ (sub[v] = None /\ claim[v] = "none")
          /\ s.thread => ~Worked(v)
          /\ strays # {} => claim[v] # "live" /\ "live" \notin got.claim
      BY <2>4 DEF ReadingsFit, SubReadings
    <3>2. ~Landed(sub[v])
      BY <2>4, <3>1 DEF Landed, Refused
    <3> QED
      BY <1>0, <3>1, <3>2, MovesTask
  <2> QED
    BY <2>2, <2>3, <2>4
<1>5. m.phase = "submitting" /\ strays # {} /\ "live" \in got.claim
        => sub'[v] = None \/ sub'[v].count = m.rev
  BY <1>0, MovesTask DEF ReadingsFit
<1> QED
  BY <1>2, <1>3, <1>4, <1>5 DEF ReadingsFit

LEMMA MovesEvidence ==
  ASSUME IInv, NEW t \in Tasks, Moves(t), UNCHANGED <<outputs, got>>,
         NEW v \in Tasks, EvidenceFits(v)
  PROVE  EvidenceFits(v)'
<1>1. ASSUME NEW s \in got.sub
      PROVE  /\ \/ s = sub'[v] \/ Landed(s)
                \/ Refused(s) /\ sub'[v] = None /\ claim'[v] = "none"
             /\ Refused(s) => v \notin paid'
  <2>1. /\ s = sub[v] \/ Landed(s) \/ (Refused(s) /\ sub[v] = None /\ claim[v] = "none")
        /\ Refused(s) => v \notin paid
    BY <1>1 DEF EvidenceFits
  <2>2. s = None \/ Landed(s) \/ Refused(s)
    BY <1>1, StateTypes, SubmissionFields DEF Readings, IInv, Landed, Refused
  <2>3. Refused(s) => ~Landed(s) /\ ~Landed(None)
    BY DEF Landed, Refused
  <2> QED
    BY <2>1, <2>2, <2>3, MovesTask
<1>2. ASSUME NEW u \in got.task, u \in Engaged, Refused(sub'[v]), claim'[v] # "none"
      PROVE  ~Worked(v)'
  <2>1. CASE Landed(sub[v])
    <3>1. v = t /\ round'[t] # round[t]
      BY <1>2, <2>1, StateTypes, RoundsAssumption DEF Moves, Landed, Refused, IInv
    <3> QED
      BY <3>1, MovesRounds DEF IInv, TrackInv
  <2>2. CASE ~Landed(sub[v])
    <3>1. sub'[v] = sub[v] /\ claim[v] # "none"
      BY <1>2, <2>2, MovesTask DEF Refused
    <3>2. ~Worked(v)
      BY <1>2, <3>1 DEF EvidenceFits
    <3> QED
      BY <2>2, <3>2, MovesTask
  <2> QED
    BY <2>1, <2>2
<1> QED
  BY <1>1, <1>2 DEF EvidenceFits, Landed, Refused

LEMMA OthersTrack ==
  ASSUME IInv, NEW t \in Tasks, Moves(t), UNCHANGED <<journal, worker, faults, outputs>>
  PROVE  TrackInv'
<1>1. UNCHANGED <<open, ledger, revived, pc, at, got, strays, outputs>>
  BY DEF Moves, journal, worker, checking, network
<1>2. AccountsFit' /\ OutputsFit' /\ Flights'
  BY <1>1, MovesAccounts, MovesRounds, MovesFlights DEF IInv, TrackInv
<1>3. JournalFits'
  <2>1. \A v \in Tasks : Tracked(v)' <=> Tracked(v)
    BY <1>1 DEF Tracked
  <2>2. \A m \in {open, revived} \ {None} : m \in Markers
    BY StateTypes DEF IInv
  <2> QED
    BY <1>1, <2>1, <2>2, MovesHanded, MovesMarker DEF JournalFits, IInv, TrackInv
<1>4. pc = "resume" => \A m \in {open} \ {None} : ReadingsFit(m)'
  <2> SUFFICES ASSUME pc = "resume", NEW m \in {open} \ {None} PROVE ReadingsFit(m)'
    OBVIOUS
  <2>1. m \in Markers /\ MarkerFits(m) /\ ReadingsFit(m)
    BY StateTypes DEF IInv, TrackInv, JournalFits, WhatIsRead
  <2>2. ASSUME strays # {}, m.phase = "submitting" PROVE ~Landed(sub[m.task])
    <3>1. PICK x \in strays : TRUE
      BY <2>2
    <3>2. FlightFits(x, m) /\ x.kind \in {"claim", "submit"}
      BY <3>1 DEF IInv, TrackInv, Flights, InFlight, LoadInv, JournalLoads, TypeOK, ChainTypeOK,
                  Transactions
    <3> QED
      BY <2>2, <3>2 DEF FlightFits
  <2> QED
    BY <1>1, <2>1, <2>2, MovesReadings
<1>5. pc = "examine" => EvidenceFits(at)'
  <2> SUFFICES ASSUME pc = "examine" PROVE EvidenceFits(at)'
    OBVIOUS
  <2>1. PICK v \in Tasks : v = at
    BY DEF IInv, LoadInv, Checking, Unsettled
  <2>2. EvidenceFits(v)
    BY <2>1 DEF IInv, TrackInv, WhatIsRead
  <2>3. EvidenceFits(v)'
    BY <1>1, <2>2, MovesEvidence
  <2> QED
    BY <1>1, <2>1, <2>3 DEF EvidenceFits, Worked, Refused, Landed
<1> QED
  BY <1>1, <1>2, <1>3, <1>4, <1>5 DEF TrackInv, WhatIsRead

-----------------------------------------------------------------------------
(***************************************************************************)
(* The worker's transactions land, fail or are dropped.                    *)
(***************************************************************************)
\* The transaction x, the only one that could, takes effect.
Lands(x) ==
  /\ Executable(x) /\ Perform(x) /\ paid' = paid
  /\ strays' = {} /\ InFlight' = {}
  /\ call' # None => x.task = at /\ pc # "resume"
  /\ pc \in {"claim", "sent"} => call # None
  /\ UNCHANGED <<journal, worker, faults, outputs>>

LEMMA LandingFacts ==
  ASSUME Prompt, IInv, NEW x \in InFlight, Lands(x)
  PROVE  /\ x \in Transactions
         /\ open \in Markers /\ open # None /\ open.task = x.task /\ x.task \in Tasks
         /\ FlightFits(x, open) /\ MarkerFits(open)
         /\ revived = None /\ ledger[x.task] = None
         /\ UNCHANGED <<behind, open, ledger, revived, outputs, pc, at, got>>
<1>1. x \in Transactions
  BY CallFields DEF InFlight, Abandoned, IInv, LoadInv, JournalLoads, TypeOK, ChainTypeOK
<1>2. open # None /\ FlightFits(x, open)
  BY DEF IInv, TrackInv, Flights
<1>3. open \in Markers /\ open.task \in Tasks /\ revived = None /\ ledger[open.task] = None
      /\ MarkerFits(open) /\ open.task = x.task
  BY <1>2, StateTypes, MarkerFields
     DEF IInv, TrackInv, JournalFits, LoadInv, JournalLoads, Checking, FlightFits
<1>4. UNCHANGED behind
  BY DEF Lands, Perform, Become, Prompt
<1> QED
  BY <1>1, <1>2, <1>3, <1>4 DEF Lands, journal, worker, checking

\* The claim of the open marker lands: a new round.
LEMMA ClaimLands ==
  ASSUME Prompt, IInv, NEW x \in InFlight, Lands(x), x.kind = "claim", NEW t \in Tasks, t = x.task
  PROVE  /\ open.phase = "claiming" /\ open.rev = 0 /\ open.fresh
         /\ claim[t] = "none" /\ sub[t] = None /\ t \notin paid /\ task[t] \notin Ended
         /\ task'[t] = "InProgress" /\ claim'[t] = "live" /\ sub'[t] = None
         /\ round'[t] = round[t] + 1
         /\ \A v \in Tasks \ {t} :
              /\ task'[v] = task[v] /\ claim'[v] = claim[v] /\ sub'[v] = sub[v]
              /\ round'[v] = round[v]
<1>1. open.phase = "claiming" /\ claim[t] = "none" /\ open.fresh /\ Prepared(open) /\ open.task = t
  BY LandingFacts DEF FlightFits, MarkerFits
<1>2. open.rev = 0 /\ t \notin paid /\ sub[t] = None
  BY <1>1, StateTypes, SubmissionFields DEF Prepared, Unsent, Refused, IInv
<1>3. Claimable(t) /\ Become(t, "InProgress", "live", sub[t]) /\ Grant(t)
  BY DEF Lands, Executable, Perform
<1>4. round[t] < MaxRounds /\ task[t] \notin Ended
  BY <1>3 DEF Claimable, Ended
<1> QED
  BY <1>1, <1>2, <1>3, <1>4, StateTypes, BecomeFields, GrantTypes DEF IInv

\* The submission of the open marker lands: it is under review now.
LEMMA SubmissionLands ==
  ASSUME Prompt, IInv, NEW x \in InFlight, Lands(x), x.kind = "submit", NEW t \in Tasks, t = x.task
  PROVE  /\ open.phase = "submitting" /\ open.fresh /\ Produced(t, open.hash)
         /\ claim[t] = "live" /\ ~Landed(sub[t]) /\ t \notin paid /\ task[t] \in Engaged
         /\ task'[t] = "PendingValidation" /\ claim'[t] = "live"
         /\ Landed(sub'[t]) /\ ~sub'[t].thread /\ sub'[t].hash = open.hash
         /\ sub'[t].count > open.rev
         /\ round' = round
         /\ \A v \in Tasks \ {t} :
              task'[v] = task[v] /\ claim'[v] = claim[v] /\ sub'[v] = sub[v]
<1>1. /\ open.phase = "submitting" /\ open.fresh /\ ~Landed(sub[t]) /\ x.hash = open.hash
      /\ claim[t] = "live" => Unsent(open)
      /\ Submitting(open) /\ open.task = t /\ open \in Markers
  BY LandingFacts DEF FlightFits, MarkerFits
<1>2. Submittable(t) /\ UNCHANGED round
      /\ Become(t, "PendingValidation", claim[t],
           [status |-> "Submitted", hash |-> x.hash, thread |-> FALSE,
            count |-> IF sub[t] = None THEN 1 ELSE sub[t].count + 1])
  BY DEF Lands, Executable, Perform
<1>3. claim[t] = "live" /\ task[t] \in Engaged /\ Unsent(open) /\ t \notin paid
  BY <1>1, <1>2 DEF Submittable, IInv, TrackInv, AccountsFit
<1>4. open.rev \in Nat /\ sub[t] \in Submissions \cup {None}
  BY <1>1, StateTypes, MarkerFields DEF IInv
<1>5. Produced(t, open.hash)
  BY <1>1, <1>3, <1>4, SubmissionFields DEF Submitting, Unsent, Landed, Refused
<1>6. /\ sub'[t] = [status |-> "Submitted", hash |-> x.hash, thread |-> FALSE,
                    count |-> IF sub[t] = None THEN 1 ELSE sub[t].count + 1]
      /\ task'[t] = "PendingValidation" /\ claim'[t] = "live"
      /\ \A v \in Tasks \ {t} :
           task'[v] = task[v] /\ claim'[v] = claim[v] /\ sub'[v] = sub[v]
  BY <1>2, <1>3, StateTypes, BecomeFields DEF IInv
<1>7. sub'[t].count > open.rev
  BY <1>1, <1>3, <1>4, <1>6, SubmissionFields DEF Unsent, Refused
<1>8. sub'[t] # None
  <2>1. open.hash \in Hashes /\ open # None
    BY <1>1, LandingFacts DEF IInv, LoadInv, Hashed
  <2>2. round[t] \in 0..MaxRounds /\ round[t] >= 1 /\ (sub[t] # None => sub[t].count < round[t])
    BY <1>1, <1>3, StateTypes DEF IInv, LoadInv, Counted
  <2>3. sub'[t] \in Submissions
    BY <1>1, <1>4, <1>6, <2>1, <2>2, SubmissionFields, RoundsAssumption DEF Submissions
  <2> QED
    BY <2>3, SubmissionFields
<1> QED
  BY <1>1, <1>2, <1>3, <1>5, <1>6, <1>7, <1>8 DEF Landed

LEMMA ClaimLandsTrack ==
  ASSUME Prompt, IInv, NEW x \in InFlight, Lands(x), x.kind = "claim"
  PROVE  TrackInv'
<1> DEFINE t == x.task
<1>0. t \in Tasks /\ open.task = t /\ open # None /\ open \in Markers /\ revived = None
      /\ ledger[t] = None
      /\ UNCHANGED <<behind, open, ledger, revived, outputs, pc, at, got, paid>>
  BY LandingFacts DEF Lands
<1>1. /\ open.phase = "claiming" /\ open.rev = 0 /\ open.fresh /\ claim[t] = "none"
      /\ sub[t] = None /\ t \notin paid /\ task[t] \notin Ended
      /\ task'[t] = "InProgress" /\ claim'[t] = "live" /\ sub'[t] = None
      /\ round'[t] = round[t] + 1
      /\ \A v \in Tasks \ {t} :
           /\ task'[v] = task[v] /\ claim'[v] = claim[v] /\ sub'[v] = sub[v]
           /\ round'[v] = round[v]
  BY <1>0, ClaimLands
<1>2. /\ OutputsFit' /\ ~Worked(t)'
      /\ \A v \in Tasks \ {t} : /\ Worked(v)' <=> Worked(v)
                                /\ \A h : Produced(v, h)' <=> Produced(v, h)
  <2>1. \A v \in Tasks : round[v] \in Int
    BY StateTypes DEF IInv
  <2>2. \A o \in outputs : o.task \in Tasks /\ o.round \in Int /\ o.round <= round[o.task]
    BY StateTypes DEF Outputs, IInv, TrackInv, OutputsFit
  <2>3. ASSUME NEW o \in outputs PROVE o.round <= round'[o.task] /\ (o.task = t => o.round < round'[t])
    BY <1>0, <1>1, <2>1, <2>2
  <2>4. OutputsFit' /\ ~Worked(t)'
    BY <1>0, <1>1, <2>1, <2>2, <2>3 DEF OutputsFit, Worked
  <2> QED
    BY <1>0, <1>1, <2>4 DEF Worked, Produced
<1>3. AccountsFit'
  BY <1>0, <1>1 DEF AccountsFit, IInv, TrackInv, Landed, Refused
<1>4. JournalFits'
  <2>1. \A v \in Tasks : Tracked(v)' \/ Untouched(v)'
    BY <1>0, <1>1 DEF Tracked, Untouched, IInv, TrackInv, JournalFits
  <2>2. \A v \in Tasks : ledger'[v] # None => Handed(v)'
    BY <1>0, <1>1, <1>2 DEF Handed, Landed, Refused, IInv, TrackInv, JournalFits
  <2>3. MarkerFits(open)'
    BY <1>0, <1>1, <1>2 DEF MarkerFits, Prepared, Unsent, IInv, TrackInv, JournalFits
  <2> QED
    BY <1>0, <2>1, <2>2, <2>3 DEF JournalFits
<1>5. Flights'
  <2>1. pc \notin {"execute", "submit", "sent"}
    BY <1>0, <1>1 DEF IInv, LoadInv, Control, Busy, PhaseOf
  <2>2. \A o \in outputs' : ~(o.task = open'.task /\ o.round = round'[open'.task])
    BY <1>0, <1>2 DEF Worked
  <2> QED
    BY <1>0, <2>1, <2>2 DEF Lands, Flights, Worked
<1>6. pc = "resume" => ReadingsFit(open)'
  <2> SUFFICES ASSUME pc = "resume" PROVE ReadingsFit(open)'
    OBVIOUS
  <2>1. ReadingsFit(open)
    BY <1>0 DEF IInv, TrackInv, WhatIsRead
  <2>2. ClaimReadings(open)'
    BY <1>0, <1>1, <1>2 DEF ClaimReadings, Lands
  <2>3. SubReadings(open)'
    <3>1. \A s \in got.sub : s = None
      <4>1. \A s \in got.sub : s = None \/ s.count # 0
        BY StateTypes, SubmissionFields DEF IInv, Readings
      <4> QED
        BY <1>0, <1>1, <2>1, <4>1 DEF ReadingsFit, SubReadings, Landed, Refused
    <3> QED
      BY <1>0, <1>1, <3>1 DEF SubReadings, Landed, Refused
  <2>4. TaskReadings(open)'
    BY <1>0, <1>1, <2>1 DEF TaskReadings, ReadingsFit
  <2> QED
    BY <1>0, <1>1, <2>2, <2>3, <2>4 DEF ReadingsFit
<1>7. pc = "examine" => EvidenceFits(at)'
  <2> SUFFICES ASSUME pc = "examine" PROVE EvidenceFits(at)'
    OBVIOUS
  <2>1. at \in Tasks \ {t}
    BY <1>0 DEF IInv, LoadInv, Checking, Unsettled
  <2>2. EvidenceFits(at)
    BY DEF IInv, TrackInv, WhatIsRead
  <2> QED
    BY <1>0, <1>1, <1>2, <2>1, <2>2 DEF EvidenceFits, Refused, Landed
<1> QED
  BY <1>0, <1>2, <1>3, <1>4, <1>5, <1>6, <1>7 DEF TrackInv, WhatIsRead

LEMMA SubmissionLandsTrack ==
  ASSUME Prompt, IInv, NEW x \in InFlight, Lands(x), x.kind = "submit"
  PROVE  TrackInv'
<1> DEFINE t == x.task
<1>0. t \in Tasks /\ open.task = t /\ open # None /\ open \in Markers /\ revived = None
      /\ ledger[t] = None
      /\ UNCHANGED <<behind, open, ledger, revived, outputs, pc, at, got, paid>>
  BY LandingFacts DEF Lands
<1>1. /\ open.phase = "submitting" /\ open.fresh /\ Produced(t, open.hash)
      /\ claim[t] = "live" /\ ~Landed(sub[t]) /\ t \notin paid /\ task[t] \in Engaged
      /\ task'[t] = "PendingValidation" /\ claim'[t] = "live"
      /\ Landed(sub'[t]) /\ ~sub'[t].thread /\ sub'[t].hash = open.hash
      /\ sub'[t].count > open.rev
      /\ round' = round
      /\ \A v \in Tasks \ {t} :
           task'[v] = task[v] /\ claim'[v] = claim[v] /\ sub'[v] = sub[v]
  BY <1>0, SubmissionLands
<1>2. /\ OutputsFit'
      /\ \A v : /\ Worked(v)' <=> Worked(v)
                /\ \A h : Produced(v, h)' <=> Produced(v, h)
  BY <1>0, <1>1 DEF OutputsFit, Worked, Produced, IInv, TrackInv
<1>3. AccountsFit'
  BY <1>0, <1>1 DEF AccountsFit, IInv, TrackInv, Landed, Refused
<1>4. JournalFits'
  <2>1. \A v \in Tasks : Tracked(v)' \/ Untouched(v)'
    BY <1>0, <1>1 DEF Tracked, Untouched, IInv, TrackInv, JournalFits
  <2>2. \A v \in Tasks : ledger'[v] # None => Handed(v)'
    BY <1>0, <1>1, <1>2 DEF Handed, Landed, Refused, IInv, TrackInv, JournalFits
  <2>3. MarkerFits(open)'
    BY <1>0, <1>1, <1>2 DEF MarkerFits, Submitting, Landed, Refused
  <2> QED
    BY <1>0, <2>1, <2>2, <2>3 DEF JournalFits
<1>5. Flights'
  <2>1. pc \notin {"execute", "submit", "claim"}
    BY <1>0, <1>1, LandingFacts
       DEF IInv, LoadInv, Control, Busy, PhaseOf, InFlight, Abandoned, TrackInv, Flights
  <2>2. ~Unsent(open)'
    BY <1>0, <1>1 DEF Unsent, Landed, Refused
  <2> QED
    BY <1>0, <2>1, <2>2 DEF Lands, Flights
<1>6. pc = "resume" => ReadingsFit(open)'
  <2> SUFFICES ASSUME pc = "resume" PROVE ReadingsFit(open)'
    OBVIOUS
  <2>1. ReadingsFit(open)
    BY <1>0 DEF IInv, TrackInv, WhatIsRead
  <2>2. strays # {}
    BY DEF IInv, LoadInv, Control, InFlight, Abandoned
  <2>3. ClaimReadings(open)'
    BY <1>0, <1>1, <2>1 DEF ClaimReadings, ReadingsFit
  <2>4. SubReadings(open)'
    <3>1. \A s \in got.sub : ~Landed(s) /\ (Refused(s) => s.count = open.rev)
      BY <1>0, <1>1, <2>1, <2>2 DEF ReadingsFit, SubReadings
    <3> QED
      BY <1>0, <1>1, <3>1 DEF SubReadings, Landed, Refused
  <2>5. TaskReadings(open)'
    BY <1>0, <1>1, <2>1 DEF TaskReadings, ReadingsFit, Engaged, Ended
  <2> QED
    BY <1>0, <1>1, <2>3, <2>4, <2>5 DEF ReadingsFit, Lands
<1>7. pc = "examine" => EvidenceFits(at)'
  <2> SUFFICES ASSUME pc = "examine" PROVE EvidenceFits(at)'
    OBVIOUS
  <2>1. at \in Tasks \ {t}
    BY <1>0 DEF IInv, LoadInv, Checking, Unsettled
  <2>2. EvidenceFits(at)
    BY DEF IInv, TrackInv, WhatIsRead
  <2> QED
    BY <1>0, <1>1, <1>2, <2>1, <2>2 DEF EvidenceFits, Refused, Landed
<1> QED
  BY <1>0, <1>2, <1>3, <1>4, <1>5, <1>6, <1>7 DEF TrackInv, WhatIsRead

\* A transaction that fails or is dropped leaves fewer that may land.
LEMMA FewerInFlight ==
  ASSUME IInv, UNCHANGED <<accounts, journal, worker, faults, outputs>>,
         strays' \subseteq strays, InFlight' \subseteq InFlight,
         call' # None => strays' = {},
         pc \in {"claim", "sent"} => call'.state # "landed"
  PROVE  TrackInv'
<1>1. /\ UNCHANGED <<task, claim, sub, round, paid, behind, open, ledger, revived, pc, at, got>>
      /\ UNCHANGED outputs
  BY DEF accounts, journal, worker, checking
<1>2. AccountsFit' /\ OutputsFit'
  BY <1>1 DEF IInv, TrackInv, AccountsFit, OutputsFit, Landed, Refused
<1>3. JournalFits'
  BY <1>1 DEF IInv, TrackInv, JournalFits, Tracked, Untouched, Handed, MarkerFits, Prepared,
              Submitting, Unsent, Landed, Refused, Worked, Produced
<1>4. Flights'
  BY <1>1 DEF IInv, TrackInv, Flights, FlightFits, Unsent, Landed, Refused, Worked
<1>5. \A m \in {open} \ {None} : pc = "resume" => ReadingsFit(m)'
  <2> SUFFICES ASSUME NEW m \in {open} \ {None}, pc = "resume" PROVE ReadingsFit(m)'
    OBVIOUS
  <2>1. ReadingsFit(m)
    BY DEF IInv, TrackInv, WhatIsRead
  <2>2. ClaimReadings(m)' /\ TaskReadings(m)'
    BY <1>1, <2>1 DEF ReadingsFit, ClaimReadings, TaskReadings, Worked
  <2>3. SubReadings(m)'
    BY <1>1, <2>1 DEF ReadingsFit, SubReadings, Worked, Unsent, Landed, Refused
  <2> QED
    BY <1>1, <2>1, <2>2, <2>3 DEF ReadingsFit
<1>6. pc = "examine" => EvidenceFits(at)'
  BY <1>1 DEF IInv, TrackInv, WhatIsRead, EvidenceFits, Worked, Landed, Refused
<1> QED
  BY <1>1, <1>2, <1>3, <1>4, <1>5, <1>6 DEF TrackInv, WhatIsRead

LEMMA ChainStepTrack ==
  ASSUME Prompt, IInv, ChainStep
  PROVE  TrackInv'
<1>0. ChainNext /\ UNCHANGED <<journal, worker, faults, outputs>>
  BY DEF ChainStep
<1>1. /\ call # None => strays = {} /\ pc \in {"claim", "sent"} /\ call.tx.task = at
      /\ pc \in {"claim", "sent"} => call # None
      /\ call \in Calls \cup {None}
      /\ \A x, y \in strays : x = y
  BY DEF IInv, TrackInv, Flights, LoadInv, Control, JournalLoads, TypeOK, ChainTypeOK
<1>2. ASSUME NEW x \in InFlight, Lands(x) PROVE TrackInv'
  <2>1. x.kind \in {"claim", "submit"}
    BY <1>2, LandingFacts DEF Transactions
  <2> QED
    BY <1>2, <2>1, ClaimLandsTrack, SubmissionLandsTrack
<1>3. CASE Land
  <2>1. /\ call # None /\ call.state = "flight" /\ Executable(call.tx) /\ Perform(call.tx)
        /\ call' = [call EXCEPT !.state = "landed"] /\ paid' = paid /\ strays' = strays
    BY <1>3 DEF Land
  <2>2. strays' = {} /\ Abandoned' = {} /\ call.tx \in InFlight
    BY <1>1, <2>1 DEF Abandoned, Calls, InFlight
  <2>3. Lands(call.tx)
    BY <1>0, <1>1, <2>1, <2>2 DEF Lands, InFlight
  <2> QED
    BY <1>2, <2>2, <2>3
<1>4. CASE Fail
  <2>1. /\ call # None /\ call' = [call EXCEPT !.state = "failed"]
        /\ UNCHANGED accounts /\ strays' = strays
    BY <1>4 DEF Fail
  <2>2. strays' = {} /\ call'.state = "failed" /\ InFlight' = {}
    BY <1>1, <2>1 DEF Abandoned, Calls, InFlight
  <2> QED
    BY <1>0, <2>1, <2>2, FewerInFlight
<1>5. CASE LandStray
  <2>1. PICK x \in strays : /\ Executable(x) /\ Perform(x) /\ strays' = strays \ {x}
                            /\ paid' = paid /\ call' = call
    BY <1>5 DEF LandStray
  <2>2. strays' = {} /\ call = None /\ InFlight' = {}
    BY <1>1, <2>1 DEF Abandoned, InFlight
  <2>3. Lands(x) /\ x \in InFlight
    BY <1>0, <1>1, <2>1, <2>2 DEF Lands, InFlight
  <2> QED
    BY <1>2, <2>3
<1>6. CASE DropStray
  <2>1. /\ strays # {} /\ strays' = {} /\ UNCHANGED accounts /\ call' = call
    BY <1>1, <1>6 DEF DropStray
  <2>2. call = None /\ InFlight' = {}
    BY <1>1, <2>1 DEF Abandoned, InFlight
  <2>3. pc \notin {"claim", "sent"}
    BY <1>1, <2>2
  <2> QED
    BY <1>0, <2>1, <2>2, <2>3, FewerInFlight
<1>7. ASSUME NEW t \in Tasks, CatchUp(t) PROVE FALSE
  BY <1>7 DEF CatchUp, IInv, TrackInv, AccountsFit
<1>8. ASSUME NEW t \in Tasks, OthersStep(t) PROVE TrackInv'
  BY <1>0, <1>8, OthersMove, OthersTrack, StateTypes DEF IInv, TrackInv
<1> QED
  BY <1>0, <1>3, <1>4, <1>5, <1>6, <1>7, <1>8 DEF ChainNext, OthersStep

-----------------------------------------------------------------------------
(***************************************************************************)
(* The worker's own steps leave the accounts alone.                        *)
(***************************************************************************)
LEMMA Kept ==
  ASSUME UNCHANGED accounts
  PROVE  /\ UNCHANGED <<task, claim, sub, round, paid, behind>>
         /\ AccountsFit' <=> AccountsFit
         /\ \A t : Untouched(t)' <=> Untouched(t)
         /\ \A m : Unsent(m)' <=> Unsent(m)
BY DEF accounts, AccountsFit, Untouched, Unsent, Landed, Refused

LEMMA OutputsKept ==
  ASSUME UNCHANGED <<accounts, outputs>>
  PROVE  /\ OutputsFit' <=> OutputsFit
         /\ \A t : Handed(t)' <=> Handed(t)
         /\ \A t : Worked(t)' <=> Worked(t)
         /\ \A m : MarkerFits(m)' <=> MarkerFits(m)
<1>1. UNCHANGED <<task, claim, sub, round, paid>>
  BY DEF accounts
<1>2. OutputsFit' <=> OutputsFit
  BY <1>1 DEF OutputsFit
<1>3. /\ \A t : Worked(t)' <=> Worked(t)
      /\ \A t : Handed(t)' <=> Handed(t)
  BY <1>1 DEF Handed, Worked, Produced, Landed, Refused
<1>4. \A m : Prepared(m)' <=> Prepared(m)
  BY <1>1 DEF Prepared, Unsent, Refused, Worked, Produced
<1>5. \A m : Submitting(m)' <=> Submitting(m)
  BY <1>1 DEF Submitting, Unsent, Landed, Refused, Worked, Produced
<1> QED
  BY <1>2, <1>3, <1>4, <1>5 DEF MarkerFits

\* What a step has to show of the journal it leaves.
LEMMA JournalKept ==
  ASSUME IInv, UNCHANGED <<accounts, outputs>>,
         \A t \in Tasks : Tracked(t) => Tracked(t)' \/ Untouched(t),
         \A t \in Tasks : ledger'[t] # None => ledger[t] # None \/ Handed(t),
         \A m \in {open', revived'} \ {None} : m \in {open, revived} \/ MarkerFits(m)
  PROVE  AccountsFit' /\ OutputsFit' /\ JournalFits'
<1>1. AccountsFit' /\ OutputsFit'
  BY Kept, OutputsKept DEF IInv, TrackInv
<1>2. \A t \in Tasks : Tracked(t)' \/ Untouched(t)'
  BY Kept DEF IInv, TrackInv, JournalFits
<1>3. \A t \in Tasks : ledger'[t] # None => Handed(t)'
  BY OutputsKept DEF IInv, TrackInv, JournalFits
<1>4. \A m \in {open', revived'} \ {None} : MarkerFits(m)'
  BY OutputsKept DEF IInv, TrackInv, JournalFits
<1> QED
  BY <1>1, <1>2, <1>3, <1>4 DEF JournalFits

\* What a step that neither sends nor works has to show of the transactions.
LEMMA FlightsKept ==
  ASSUME IInv, UNCHANGED <<accounts, outputs>>,
         strays' \subseteq InFlight, call' = None,
         pc' \notin {"refuted", "submit", "execute", "claim", "sent"},
         open' = open \/ strays' = {}
  PROVE  Flights'
<1>1. UNCHANGED <<task, claim, sub, round>> /\ InFlight' = strays'
  BY DEF accounts, InFlight, Abandoned
<1>2. \A x, y \in InFlight : x = y
  BY DEF InFlight, Abandoned, IInv, TrackInv, Flights
<1>3. \A m \in {open'} \ {None}, x \in strays' : FlightFits(x, m)'
  BY <1>1 DEF IInv, TrackInv, Flights, FlightFits, Unsent, Landed, Refused
<1> QED
  BY <1>1, <1>2, <1>3 DEF IInv, TrackInv, Flights

\* Leaving a reading, going idle or looking for a candidate loses nothing.
LEMMA QuietTrack ==
  ASSUME IInv, UNCHANGED <<accounts, journal, outputs>>,
         strays' \subseteq InFlight, call' = None, revived' \in {None, revived},
         pc' \notin {"refuted", "submit", "execute", "claim", "sent", "resume", "examine"}
  PROVE  TrackInv'
<1>1. open' = open /\ ledger' = ledger
  BY DEF journal
<1>2. AccountsFit' /\ OutputsFit' /\ JournalFits'
  BY <1>1, JournalKept DEF Tracked
<1>3. Flights'
  BY <1>1, FlightsKept
<1> QED
  BY <1>2, <1>3 DEF TrackInv, WhatIsRead

\* The worker waits for no transaction outside "claim" and "sent".
LEMMA Waiting ==
  ASSUME IInv
  PROVE  /\ call # None <=> pc \in {"claim", "sent"}
         /\ call # None => /\ call \in Calls /\ strays = {}
                           /\ call.tx.task = at /\ open # None /\ at = open.task
         /\ call = None => InFlight = strays
         /\ pc \notin {"settle", "examine"} => revived = None
BY DEF IInv, LoadInv, Control, Busy, Checking, JournalLoads, TypeOK, ChainTypeOK, TrackInv,
       Flights, InFlight, Abandoned

LEMMA SettleTrack ==
  ASSUME IInv, Settle
  PROVE  TrackInv'
BY QuietTrack, Waiting DEF Settle, chain, network, InFlight

LEMMA NoCandidateTrack ==
  ASSUME IInv, NoCandidate \/ ResumeNothing
  PROVE  TrackInv'
BY QuietTrack, Waiting DEF NoCandidate, ResumeNothing, chain, network, InFlight, Rest, checking

LEMMA GiveUpTrack ==
  ASSUME IInv, Crash \/ StepFails
  PROVE  TrackInv'
<1>1. CASE Crash
  BY <1>1, QuietTrack DEF Crash, GiveUp, Rest, InFlight
<1>2. CASE StepFails
  <2>1. call = None
    BY <1>2, Waiting DEF StepFails
  <2> QED
    BY <1>2, <2>1, QuietTrack, Waiting DEF StepFails, GiveUp, Rest, network, InFlight
<1> QED
  BY <1>1, <1>2

\* No node lags: a reading shows what is there.
LEMMA ReadNow ==
  ASSUME IInv, NEW t \in Tasks
  PROVE  /\ Readable(t, "task") = {task[t]}
         /\ Readable(t, "claim") = {claim[t]}
         /\ Readable(t, "sub") = {sub[t]}
BY DEF IInv, TrackInv, AccountsFit, Readable, Snapshot

\* The settlement check.
LEMMA SettleNextTrack ==
  ASSUME IInv, SettleNext
  PROVE  TrackInv'
<1>1. PICK t \in todo : \E u \in Readable(t, "task") :
        at' = t /\ got' = [Nothing EXCEPT !.task = {u}]
  BY DEF SettleNext
<1>2. /\ UNCHANGED <<chain, journal, revived, outputs>> /\ pc' = "examine" /\ call = None
  BY Waiting DEF SettleNext
<1>3. t \in Tasks /\ ledger[t] # None
  BY DEF IInv, LoadInv, Checking, Unsettled
<1>4. AccountsFit' /\ OutputsFit' /\ JournalFits'
  BY <1>2, JournalKept DEF chain, journal, Tracked
<1>5. Flights'
  BY <1>2, Waiting, FlightsKept DEF chain, network, journal
<1>6. EvidenceFits(at)'
  <2>1. Handed(t)
    BY <1>3 DEF IInv, TrackInv, JournalFits
  <2>2. got'.sub = {} /\ got'.task = {task[t]}
    BY <1>1, <1>3, ReadNow DEF Nothing
  <2>3. UNCHANGED <<task, claim, sub, round, paid, outputs>>
    BY <1>2 DEF chain, accounts
  <2>4. task[t] \in Engaged /\ Refused(sub[t]) /\ claim[t] # "none" => ~Worked(t)
    BY <2>1 DEF Handed, Engaged, Ended
  <2> QED
    BY <1>1, <2>2, <2>3, <2>4 DEF EvidenceFits, Refused, Worked
<1> QED
  BY <1>2, <1>4, <1>5, <1>6 DEF TrackInv, WhatIsRead

LEMMA ExamineReadsTrack ==
  ASSUME IInv, ExamineReads
  PROVE  TrackInv'
<1>1. PICK f \in {"claim", "sub"} : Read(f)
  BY DEF ExamineReads
<1>2. PICK v \in Readable(at, f) : got' = [got EXCEPT ![f] = {v}]
  BY <1>1 DEF Read
<1>3. /\ UNCHANGED <<chain, journal, pc, at, revived, outputs>> /\ pc = "examine" /\ call = None
  BY <1>1, Waiting DEF Read, ExamineReads, checking
<1>4. AccountsFit' /\ OutputsFit' /\ JournalFits'
  BY <1>3, JournalKept DEF chain, journal, Tracked
<1>5. Flights'
  BY <1>3, Waiting, FlightsKept DEF chain, network, journal
<1>6. EvidenceFits(at)'
  <2>1. at \in Tasks /\ got \in Readings /\ EvidenceFits(at)
    BY <1>3 DEF IInv, LoadInv, Checking, Unsettled, Control, TrackInv, WhatIsRead
  <2>2. got'.task = got.task /\ (got'.sub = got.sub \/ got'.sub = {sub[at]})
    BY <1>2, <2>1, ReadNow DEF Readings
  <2>3. Refused(sub[at]) => at \notin paid
    BY <2>1 DEF Refused, IInv, TrackInv, AccountsFit
  <2>4. UNCHANGED <<task, claim, sub, round, paid, outputs>>
    BY <1>3 DEF chain, accounts
  <2> QED
    BY <1>3, <2>1, <2>2, <2>3, <2>4 DEF EvidenceFits, Landed, Refused, Worked
<1> QED
  BY <1>3, <1>4, <1>5, <1>6 DEF TrackInv, WhatIsRead

LEMMA ExamineTrack ==
  ASSUME IInv, Examine
  PROVE  TrackInv'
<1>1. /\ UNCHANGED <<chain, journal, outputs>> /\ pc = "examine" /\ pc' = "settle"
      /\ call = None
  BY Waiting DEF Examine, Rest
<1>2. CASE revived' = revived
  BY <1>1, <1>2, Waiting, QuietTrack DEF chain, network
<1>3. CASE revived' # revived
  <2> DEFINE s == Seen("sub")
             m == Marker(at, "claimed", FALSE, s.count, None)
  <2>1. /\ NeedsAccounts(Seen("task")) /\ RevisionRequested /\ revived' = m
        /\ got.sub # {} /\ got.claim # {}
    BY <1>3 DEF Examine, HasRead
  <2>2. at \in Unsettled \ todo /\ at \in Tasks /\ EvidenceFits(at) /\ got \in Readings
    BY <1>1 DEF IInv, LoadInv, Checking, Unsettled, Control, TrackInv, WhatIsRead
  <2>3. /\ s \in got.sub /\ s \in Submissions /\ Refused(s)
        /\ Seen("claim") = "live" /\ Seen("task") \in Engaged
    BY <2>1, <2>2, SeenTypes DEF RevisionRequested, Refused
  <2>4. Seen("task") \in got.task
    BY <2>2, SeenTypes DEF EvidenceFits
  <2>5. /\ at \notin paid
        /\ s = sub[at] \/ (sub[at] = None /\ claim[at] = "none")
        /\ Refused(sub[at]) /\ claim[at] # "none" => ~Worked(at)
    BY <2>2, <2>3, <2>4 DEF EvidenceFits, Landed, Refused
  <2>6. /\ m.task = at /\ m.phase = "claimed" /\ m.fresh = FALSE /\ m.rev = s.count /\ m # None
    <3>1. m \in Markers
      BY <2>2, <2>3, SubmissionFields DEF Marker, Markers, Phases
    <3> QED
      BY <3>1, MarkerFields DEF Marker
  <2>7. Prepared(m)
    BY <2>3, <2>5, <2>6 DEF Prepared, Unsent, Refused
  <2>8. MarkerFits(m)
    BY <2>6, <2>7 DEF MarkerFits
  <2>9. AccountsFit' /\ OutputsFit' /\ JournalFits'
    BY <1>1, <2>1, <2>8, JournalKept DEF chain, journal, Tracked
  <2>10. Flights'
    BY <1>1, Waiting, FlightsKept DEF chain, network, journal
  <2> QED
    BY <1>1, <2>9, <2>10 DEF TrackInv, WhatIsRead
<1> QED
  BY <1>2, <1>3

\* A record is only removed for the open claim that replaces it.
LEMMA ReconciledNone ==
  ASSUME LoadInv, NEW t \in Tasks, NEW e \in EarnedReadable, ledger[t] # None,
         Reconciled(t, e) = None
  PROVE  revived # None /\ revived.task = t
<1>1. ledger[t] \in Records /\ found[t] \in Outcomes \cup {"straggling"}
  BY DEF LoadInv, JournalLoads, TypeOK, Checking
<1>2. CASE Decided(t, e)
  <2>1. [ledger[t] EXCEPT !.outcome = found[t], !.earned = Earned(t, e)] \in Records
    <3>1. baseline \in 0..Cardinality(Tasks) /\ Cardinality(Tasks) \in Nat
          /\ e \in 0..Cardinality(Tasks)
      BY EarnedTypes, FS_CardinalityType DEF LoadInv, JournalLoads, TypeOK
    <3>2. Earned(t, e) \in {Unknown} \cup 0..Cardinality(Tasks)
      BY <1>2, <3>1 DEF Earned, Decided
    <3> QED
      BY <1>1, <1>2, <3>2 DEF Records, Decided
  <2> QED
    BY <1>2, <2>1, RecordFields DEF Reconciled
<1>3. CASE ~Decided(t, e) /\ found[t] = "straggling"
  <2>1. [ledger[t] EXCEPT !.straggler = TRUE] \in Records
    BY <1>1 DEF Records
  <2> QED
    BY <1>3, <2>1, RecordFields DEF Reconciled
<1>4. CASE ~Decided(t, e) /\ found[t] # "straggling"
  BY <1>4 DEF Reconciled
<1> QED
  BY <1>2, <1>3, <1>4

LEMMA SettleDoneTrack ==
  ASSUME IInv, SettleDone
  PROVE  TrackInv'
<1>1. PICK e \in EarnedReadable : ledger' = [t \in Tasks |-> Reconciled(t, e)]
  BY DEF SettleDone
<1>2. /\ pc = "settle" /\ call = None /\ UNCHANGED <<chain, outputs>> /\ revived' = None
      /\ open' = IF revived = None THEN open ELSE revived
      /\ pc' \in {"idle", "resume"} /\ got' = Nothing
  BY Waiting DEF SettleDone, Rest
<1>3. revived # None => open = None
  BY DEF IInv, LoadInv, Checking
<1>4. \A t \in Tasks : ledger'[t] # None => ledger[t] # None
  BY <1>1, ReconciledTypes DEF IInv
<1>5. \A t \in Tasks : Tracked(t) => Tracked(t)'
  <2>1. \A t \in Tasks : ledger[t] # None /\ ledger'[t] = None => revived # None /\ revived.task = t
    BY <1>1, RecordFields, ReconciledNone DEF IInv
  <2> QED
    BY <1>2, <1>3, <2>1 DEF Tracked
<1>6. AccountsFit' /\ OutputsFit' /\ JournalFits'
  BY <1>2, <1>4, <1>5, JournalKept DEF chain
<1>7. Flights'
  <2>1. open' = open \/ InFlight = {}
    BY <1>2, <1>3 DEF IInv, TrackInv, Flights
  <2> QED
    BY <1>2, <2>1, Waiting, FlightsKept DEF chain, network
<1>8. \A m \in {open'} \ {None} : ReadingsFit(m)'
  BY <1>2 DEF Nothing, ReadingsFit, ClaimReadings, SubReadings, TaskReadings
<1> QED
  BY <1>2, <1>6, <1>7, <1>8 DEF TrackInv, WhatIsRead

\* The accounts of the open claim are read, one at a time.
LEMMA ResumeReadsTrack ==
  ASSUME IInv, ResumeReads
  PROVE  TrackInv'
<1>1. PICK f \in {"task", "claim", "sub"} : Read(f)
  BY DEF ResumeReads
<1>2. PICK v \in Readable(at, f) : got' = [got EXCEPT ![f] = {v}]
  BY <1>1 DEF Read
<1>3. /\ UNCHANGED <<chain, journal, pc, at, revived, outputs>> /\ pc = "resume" /\ call = None
      /\ open # None
  BY <1>1, Waiting DEF Read, ResumeReads, checking
<1>4. AccountsFit' /\ OutputsFit' /\ JournalFits'
  BY <1>3, JournalKept DEF chain, journal, Tracked
<1>5. Flights'
  BY <1>3, Waiting, FlightsKept DEF chain, network, journal
<1> DEFINE t == at
<1>6. /\ open \in Markers /\ t = open.task /\ t \in Tasks /\ got \in Readings
      /\ ReadingsFit(open) /\ MarkerFits(open) /\ open.phase \in Phases
      /\ sub[t] \in Submissions \cup {None} /\ claim[t] \in ClaimStates
  BY <1>3, AtOpen, StateTypes, MarkerFields DEF IInv, TrackInv, JournalFits, WhatIsRead
<1>7. UNCHANGED <<task, claim, sub, round, paid, strays, outputs, open>>
  BY <1>3 DEF chain, accounts, network, journal
<1>8. /\ got'.task \in {got.task, {task[t]}}
      /\ got'.claim \in {got.claim, {claim[t]}}
      /\ got'.sub \in {got.sub, {sub[t]}}
      /\ got'.claim = got.claim \/ got'.sub = got.sub
  BY <1>2, <1>6, ReadNow DEF Readings
\* What a transaction in flight says of the account it is for.
<1>9. ASSUME strays # {}
      PROVE  /\ open.phase \in {"claiming", "submitting"}
             /\ open.phase = "claiming" => claim[t] = "none"
             /\ open.phase = "submitting" =>
                  ~Landed(sub[t]) /\ (claim[t] = "live" => Unsent(open))
  <2>1. PICK x \in strays : TRUE
    BY <1>9
  <2>2. FlightFits(x, open) /\ x.kind \in {"claim", "submit"}
    BY <1>3, <2>1 DEF IInv, TrackInv, Flights, InFlight, LoadInv, JournalLoads, TypeOK,
                      ChainTypeOK, Transactions
  <2> QED
    BY <1>6, <2>2 DEF FlightFits
<1>10. open.phase # "submitting" => Prepared(open)
  BY <1>6 DEF MarkerFits
<1>11. open.phase # "submitting" => ~Landed(sub[t])
  BY <1>6, <1>10 DEF Prepared, Unsent, Landed, Refused
<1>12. ClaimReadings(open)'
  <2>1. open.phase \in {"claiming", "claimed"} /\ Worked(t) => claim[t] = "none"
    BY <1>6, <1>10 DEF Prepared
  <2> QED
    BY <1>6, <1>7, <1>8, <1>9, <2>1 DEF ReadingsFit, ClaimReadings, Worked
<1>13. TaskReadings(open)'
  <2>1. task[t] = "Open" => claim[t] = "none"
    BY <1>6 DEF IInv, TrackInv, AccountsFit
  <2> QED
    BY <1>6, <1>7, <1>8, <2>1 DEF ReadingsFit, TaskReadings
<1>14. ASSUME open.phase = "submitting", strays # {}, "live" \in got'.claim
       PROVE  sub[t] = None \/ sub[t].count = open.rev
  BY <1>6, <1>8, <1>9, <1>14 DEF ReadingsFit, Unsent
<1>15. SubReadings(open)'
  <2> SUFFICES ASSUME NEW s \in got'.sub
      PROVE
        /\ Landed(s) => /\ open.phase = "submitting" /\ strays = {}
                        /\ claim[t] = "none" \/ ~Unsent(open)
        /\ open.phase # "submitting" \/ ~open.fresh =>
             \/ s = sub[t] \/ Landed(s)
             \/ Refused(s) /\ sub[t] = None /\ claim[t] = "none"
        /\ Refused(s) /\ s.count # open.rev =>
             /\ open.phase = "submitting" /\ t \notin paid
             /\ s = sub[t] \/ (sub[t] = None /\ claim[t] = "none")
             /\ s.thread => ~Worked(t)
             /\ strays # {} => claim[t] # "live" /\ "live" \notin got'.claim
    BY <1>6, <1>7 DEF SubReadings, Unsent, Worked, Landed, Refused
  <2>1. CASE s \in got.sub
    <3>1. ASSUME Refused(s), s.count # open.rev, strays # {} PROVE "live" \notin got'.claim
      BY <1>6, <1>8, <2>1, <3>1 DEF ReadingsFit, SubReadings
    <3> QED
      BY <1>6, <2>1, <3>1 DEF ReadingsFit, SubReadings
  <2>2. CASE s = sub[t]
    <3>1. Landed(s) => open.phase = "submitting" /\ strays = {} /\ ~Unsent(open)
      BY <1>6, <1>9, <1>11, <2>2 DEF Unsent, Landed, Refused
    <3>2. ASSUME Refused(s), s.count # open.rev
          PROVE  /\ open.phase = "submitting" /\ t \notin paid
                 /\ s.thread => ~Worked(t)
      <4>1. open.phase = "submitting"
        BY <1>6, <1>10, <2>2, <3>2 DEF Prepared, Unsent, Refused
      <4>2. t \notin paid
        BY <1>6, <2>2, <3>2 DEF Refused, IInv, TrackInv, AccountsFit
      <4>3. s.thread => ~Worked(t)
        BY <1>6, <2>2, <3>2, <4>1 DEF MarkerFits, Submitting
      <4> QED
        BY <4>1, <4>2, <4>3
    <3>3. ASSUME Refused(s), s.count # open.rev, strays # {}
          PROVE  claim[t] # "live" /\ "live" \notin got'.claim
      <4>1. claim[t] # "live"
        BY <1>6, <1>9, <2>2, <3>2, <3>3 DEF Unsent, Refused
      <4>2. "live" \notin got'.claim
        BY <1>14, <2>2, <3>2, <3>3 DEF Refused
      <4> QED
        BY <4>1, <4>2
    <3> QED
      BY <2>2, <3>1, <3>2, <3>3
  <2> QED
    BY <1>8, <2>1, <2>2
<1>16. ReadingsFit(open)'
  BY <1>6, <1>7, <1>12, <1>13, <1>14, <1>15 DEF ReadingsFit
<1> QED
  BY <1>3, <1>4, <1>5, <1>7, <1>16 DEF TrackInv, WhatIsRead

LEMMA ClaimCandidateTrack ==
  ASSUME IInv, NEW t \in Tasks, ClaimCandidate(t)
  PROVE  TrackInv'
<1> DEFINE m == Marker(t, "claiming", TRUE, 0, None)
<1>1. /\ open = None /\ ledger[t] = None /\ open' = m /\ Send("claim", t, None)
      /\ pc = "candidate" /\ pc' = "claim" /\ call = None
      /\ UNCHANGED <<accounts, strays, ledger, revived, outputs>>
  BY Waiting DEF ClaimCandidate, Free, checking
<1>2. InFlight = {} /\ strays = {} /\ Untouched(t) /\ revived = None
  BY <1>1, Waiting DEF IInv, TrackInv, Flights, JournalFits, Tracked, InFlight
<1>3. /\ m \in Markers /\ m # None /\ m.task = t /\ m.phase = "claiming" /\ m.fresh
      /\ m.rev = 0
  <2>1. m \in Markers
    BY RoundsAssumption DEF Marker, Markers, Phases
  <2> QED
    BY <2>1, MarkerFields DEF Marker
<1>4. MarkerFits(m)
  BY <1>2, <1>3 DEF MarkerFits, Prepared, Untouched
<1>5. AccountsFit' /\ OutputsFit' /\ JournalFits'
  BY <1>1, <1>4, JournalKept DEF Tracked
<1>6. /\ call' # None /\ call'.state = "flight" /\ call'.tx.kind = "claim" /\ call'.tx.task = t
  BY <1>1, SendTypes
<1>7. InFlight' = {call'.tx}
  BY <1>1, <1>2, <1>6 DEF InFlight, Abandoned
<1>8. Flights'
  <2>1. claim'[t] = "none" /\ UNCHANGED claim
    BY <1>1, <1>2 DEF accounts, Untouched
  <2>2. ASSUME NEW x \in InFlight', NEW n \in {open'} \ {None} PROVE FlightFits(x, n)'
    BY <1>1, <1>3, <1>6, <1>7, <2>1 DEF FlightFits
  <2>3. strays' = {} /\ open' # None /\ pc' = "claim" /\ call'.state # "landed"
    BY <1>1, <1>2, <1>3, <1>6
  <2> QED
    BY <2>2, <2>3 DEF Flights
<1> QED
  BY <1>1, <1>5, <1>8 DEF TrackInv, WhatIsRead

LEMMA ClaimLandedTrack ==
  ASSUME IInv, ClaimLanded
  PROVE  TrackInv'
<1> DEFINE m == Marker(at, "claimed", FALSE, 0, None)
<1>1. /\ pc = "claim" /\ pc' = "execute" /\ call # None /\ call.state = "landed" /\ call' = None
      /\ open' = m
      /\ UNCHANGED <<accounts, strays, ledger, revived, outputs>>
  BY DEF ClaimLanded, Answered, Goto, checking
<1>2. /\ strays = {} /\ revived = None /\ InFlight' = {}
  BY <1>1, Waiting DEF InFlight, Abandoned
<1>3. /\ open \in Markers /\ at = open.task /\ at \in Tasks /\ open.phase = "claiming"
      /\ Prepared(open) /\ ~Worked(at)
  BY <1>1, AtOpen DEF IInv, LoadInv, Control, Busy, PhaseOf, TrackInv, JournalFits, MarkerFits,
                      Flights
<1>4. /\ m \in Markers /\ m # None /\ m.task = at /\ m.phase = "claimed" /\ ~m.fresh
      /\ m.rev = open.rev
  <2>1. m \in Markers
    BY <1>3, RoundsAssumption DEF Marker, Markers, Phases
  <2> QED
    BY <1>3, <2>1, MarkerFields DEF Marker, Prepared
<1>5. MarkerFits(m)
  BY <1>3, <1>4 DEF MarkerFits, Prepared, Unsent
<1>6. AccountsFit' /\ OutputsFit' /\ JournalFits'
  BY <1>1, <1>3, <1>4, <1>5, JournalKept DEF Tracked
<1>7. Flights'
  <2>1. \A n \in {open'} \ {None} : ~Worked(n.task)'
    BY <1>1, <1>3, <1>4 DEF Worked, accounts
  <2> QED
    BY <1>1, <1>2, <2>1 DEF Flights
<1> QED
  BY <1>1, <1>6, <1>7 DEF TrackInv, WhatIsRead

\* The claim failed for certain, or its answer was lost.
LEMMA ClaimFailedTrack ==
  ASSUME IInv, ClaimFailed
  PROVE  TrackInv'
<1>1. /\ pc = "claim" /\ call # None /\ call' = None
      /\ UNCHANGED <<accounts, journal, revived, outputs>>
      /\ \/ call.state = "failed" /\ strays' = strays /\ pc' = "refuted"
         \/ strays' = strays \cup Abandoned /\ pc' = "unsure"
  BY DEF ClaimFailed, Answered, Unanswered, Goto, checking
<1>2. /\ strays = {} /\ InFlight' = strays' /\ strays' \subseteq InFlight
      /\ pc' = "refuted" => strays' = {}
  BY <1>1, Waiting DEF InFlight, Abandoned
<1>3. AccountsFit' /\ OutputsFit' /\ JournalFits'
  BY <1>1, JournalKept DEF Tracked, journal
<1>4. Flights'
  <2>1. UNCHANGED <<task, claim, sub, round, open>>
    BY <1>1 DEF accounts, journal
  <2>2. \A x, y \in InFlight : x = y
    BY <1>2 DEF InFlight, Abandoned
  <2>3. \A n \in {open'} \ {None}, x \in strays' : FlightFits(x, n)'
    BY <1>2, <2>1 DEF IInv, TrackInv, Flights, FlightFits, Unsent, Landed, Refused
  <2> QED
    BY <1>1, <1>2, <2>1, <2>2, <2>3 DEF IInv, TrackInv, Flights
<1> QED
  BY <1>1, <1>3, <1>4 DEF TrackInv, WhatIsRead

LEMMA RecoverClaimTrack ==
  ASSUME IInv, RecoverClaim
  PROVE  TrackInv'
<1>1. /\ pc \in {"refuted", "unsure"} /\ call = None
      /\ UNCHANGED <<chain, ledger, baseline, revived, outputs>>
  BY Waiting DEF RecoverClaim, checking
<1>2. /\ open \in Markers /\ at = open.task /\ at \in Tasks /\ open.phase = "claiming"
      /\ Prepared(open) /\ revived = None
  BY <1>1, AtOpen DEF IInv, LoadInv, Control, Busy, PhaseOf, TrackInv, JournalFits, MarkerFits
<1>3. /\ strays = InFlight /\ InFlight' = strays' /\ strays' = strays
      /\ pc = "refuted" => strays = {}
  BY <1>1, Waiting DEF InFlight, Abandoned, chain, network, IInv, TrackInv, Flights
<1>4. UNCHANGED <<accounts, network, task, claim, sub, round>>
  BY <1>1 DEF chain, accounts
\* The claim is there: there is work to do.
<1>5. CASE claim[at] # "none" /\ open' = Marker(at, "claimed", FALSE, 0, None) /\ pc' = "execute"
  <2> DEFINE m == Marker(at, "claimed", FALSE, 0, None)
  <2>1. /\ m \in Markers /\ m # None /\ m.task = at /\ m.phase = "claimed" /\ ~m.fresh
        /\ m.rev = open.rev
    <3>1. m \in Markers
      BY <1>2, RoundsAssumption DEF Marker, Markers, Phases
    <3> QED
      BY <1>2, <3>1, MarkerFields DEF Marker, Prepared
  <2>2. ~Worked(at)
    BY <1>2, <1>5 DEF Prepared
  <2>3. MarkerFits(m)
    BY <1>2, <2>1, <2>2 DEF MarkerFits, Prepared, Unsent
  <2>4. AccountsFit' /\ OutputsFit' /\ JournalFits'
    BY <1>1, <1>2, <1>4, <1>5, <2>1, <2>3, JournalKept DEF Tracked
  <2>5. strays = {}
    <3>1. ASSUME NEW x \in strays PROVE FALSE
      <4>1. FlightFits(x, open) /\ x.kind \in {"claim", "submit"}
        BY <1>2, <1>3, MarkerFields DEF IInv, TrackInv, Flights, LoadInv, JournalLoads, TypeOK,
                                        ChainTypeOK, Transactions
      <4> QED
        BY <1>2, <1>5, <4>1 DEF FlightFits
    <3> QED
      BY <3>1
  <2>6. Flights'
    <3>1. \A n \in {open'} \ {None} : ~Worked(n.task)'
      BY <1>1, <1>4, <1>5, <2>1, <2>2 DEF Worked
    <3> QED
      BY <1>1, <1>3, <1>4, <1>5, <2>5, <3>1 DEF Flights, network
  <2> QED
    BY <1>5, <2>4, <2>6 DEF TrackInv, WhatIsRead
\* It was refused for good: the chain knows nothing of this worker.
<1>6. CASE claim[at] = "none" /\ pc = "refuted" /\ open' = None /\ pc' = "candidate"
  <2>1. Untouched(at)
    <3>1. sub[at] = None
      BY <1>2, <1>6, StateTypes, SubmissionFields DEF Prepared, Unsent, Refused, IInv
    <3> QED
      BY <1>2, <1>6, <3>1 DEF Untouched, Prepared
  <2>2. AccountsFit' /\ OutputsFit' /\ JournalFits'
    BY <1>1, <1>2, <1>4, <1>6, <2>1, JournalKept DEF Tracked
  <2>3. Flights'
    BY <1>1, <1>3, <1>4, <1>6, FlightsKept DEF network
  <2> QED
    BY <1>6, <2>2, <2>3 DEF TrackInv, WhatIsRead
<1>7. CASE open' = open /\ pc' = "idle"
  BY <1>1, <1>3, <1>4, <1>7, QuietTrack DEF network, journal
<1>8. \/ claim[at] # "none" /\ open' = Marker(at, "claimed", FALSE, 0, None) /\ pc' = "execute"
      \/ claim[at] = "none" /\ pc = "refuted" /\ open' = None /\ pc' = "candidate"
      \/ open' = open /\ pc' = "idle"
  <2>1. Readable(at, "claim") = {claim[at]}
    BY <1>2, ReadNow
  <2> QED
    BY <2>1 DEF RecoverClaim, Goto, Rest
<1> QED
  BY <1>5, <1>6, <1>7, <1>8

\* Only an aged marker is worked on: none of its transactions can still land.
LEMMA NoneInFlight ==
  ASSUME IInv, open # None, ~open.fresh
  PROVE  InFlight = {} /\ strays = {}
BY DEF IInv, TrackInv, Flights, FlightFits, InFlight

LEMMA RunExecutorTrack ==
  ASSUME IInv, RunExecutor
  PROVE  TrackInv'
<1>1. PICK h \in Hashes :
        /\ open' = Marker(at, "executed", FALSE, open.rev, h)
        /\ outputs' = outputs \cup {[task |-> at, round |-> round[at], hash |-> h]}
  BY DEF RunExecutor
<1> DEFINE m == Marker(at, "executed", FALSE, open.rev, h)
           o == [task |-> at, round |-> round[at], hash |-> h]
<1>2. /\ pc = "execute" /\ pc' = "deliver" /\ call = None
      /\ UNCHANGED <<chain, ledger, revived>>
  BY Waiting DEF RunExecutor, Goto, checking
<1>3. /\ open \in Markers /\ at = open.task /\ at \in Tasks /\ open.phase = "claimed"
      /\ ledger[at] = None /\ revived = None /\ Prepared(open) /\ open # None
  BY <1>2, AtOpen, MarkerFields
     DEF IInv, LoadInv, Control, Busy, PhaseOf, TrackInv, JournalFits, MarkerFits
<1>4. InFlight = {} /\ strays = {}
  BY <1>3, NoneInFlight DEF Prepared
<1>5. UNCHANGED <<task, claim, sub, round, paid, behind, call, strays>>
  BY <1>2 DEF chain, accounts, network
<1>6. /\ m \in Markers /\ m # None /\ m.task = at /\ m.phase = "executed" /\ ~m.fresh
      /\ m.rev = open.rev /\ m.hash = h
  <2>1. m \in Markers
    BY <1>3, MarkerFields DEF Marker, Markers, Phases
  <2> QED
    BY <2>1, MarkerFields DEF Marker
<1>7. /\ o \in outputs' /\ o.task = at /\ o.round = round[at]
      /\ \A t \in Tasks \ {at} : Worked(t)' <=> Worked(t)
      /\ \A t, k : Produced(t, k) => Produced(t, k)'
      /\ Produced(at, h)'
  BY <1>1, <1>2, <1>5 DEF Worked, Produced, RunExecutor, Goto
<1>8. AccountsFit'
  BY <1>5 DEF IInv, TrackInv, AccountsFit, Landed, Refused
<1>9. OutputsFit'
  BY <1>1, <1>3, <1>5, <1>7, StateTypes DEF IInv, TrackInv, OutputsFit
<1>10. JournalFits'
  <2>1. \A t \in Tasks : Tracked(t)' \/ Untouched(t)'
    BY <1>1, <1>2, <1>3, <1>5, <1>6 DEF Tracked, Untouched, IInv, TrackInv, JournalFits
  <2>2. ASSUME NEW t \in Tasks, ledger'[t] # None PROVE Handed(t)'
    <3>1. t # at /\ Handed(t)
      BY <1>2, <1>3, <2>2 DEF IInv, TrackInv, JournalFits
    <3> QED
      BY <1>5, <1>7, <3>1 DEF Handed, Landed, Refused
  <2>3. ASSUME NEW n \in {open', revived'} \ {None} PROVE MarkerFits(n)'
    <3>1. n = m
      BY <1>1, <1>2, <1>3, <2>3
    <3>2. Produced(n.task, n.hash)'
      BY <1>5, <1>6, <1>7, <3>1 DEF Produced
    <3> QED
      BY <1>3, <1>5, <1>6, <3>1, <3>2 DEF MarkerFits, Prepared, Unsent, Refused
  <2> QED
    BY <2>1, <2>2, <2>3 DEF JournalFits
<1>11. Flights'
  BY <1>2, <1>4, <1>5 DEF Flights, InFlight, Abandoned
<1> QED
  BY <1>2, <1>8, <1>9, <1>10, <1>11 DEF TrackInv, WhatIsRead

LEMMA DeliverTrack ==
  ASSUME IInv, Deliver
  PROVE  TrackInv'
<1> DEFINE m == Marker(at, "submitting", TRUE, open.rev, open.hash)
<1>1. /\ pc = "deliver" /\ pc' = "submit" /\ call = None /\ open' = m
      /\ UNCHANGED <<chain, ledger, revived, outputs>>
  BY Waiting DEF Deliver, Goto, checking
<1>2. /\ open \in Markers /\ at = open.task /\ at \in Tasks /\ open.phase = "executed"
      /\ revived = None /\ Prepared(open) /\ open # None
  BY <1>1, AtOpen, MarkerFields
     DEF IInv, LoadInv, Control, Busy, PhaseOf, TrackInv, JournalFits, MarkerFits
<1>3. InFlight = {} /\ strays = {}
  BY <1>2, NoneInFlight DEF Prepared
<1>4. UNCHANGED <<accounts, task, claim, sub, round, paid, behind, call, strays>>
  BY <1>1 DEF chain, accounts, network
<1>5. /\ m \in Markers /\ m # None /\ m.task = at /\ m.phase = "submitting"
      /\ m.rev = open.rev /\ m.hash = open.hash
  <2>1. m \in Markers
    BY <1>2, MarkerFields DEF Marker, Markers, Phases
  <2> QED
    BY <2>1, MarkerFields DEF Marker
<1>6. claim[at] # "none" \/ sub[at] # None => Unsent(m)
  BY <1>2, <1>5 DEF Prepared, Unsent
<1>7. MarkerFits(m)
  <2>1. Produced(at, m.hash)
    BY <1>2, <1>5 DEF Prepared
  <2>2. Submitting(m)
    BY <1>5, <1>6, <2>1 DEF Submitting, Unsent, Refused
  <2> QED
    BY <1>5, <2>2 DEF MarkerFits
<1>8. AccountsFit' /\ OutputsFit' /\ JournalFits'
  BY <1>1, <1>2, <1>4, <1>5, <1>7, JournalKept DEF Tracked
<1>9. Flights'
  <2>1. \A n \in {open'} \ {None} : claim'[n.task] = "live" => Unsent(n)'
    BY <1>1, <1>4, <1>5, <1>6 DEF Unsent, Refused
  <2>2. InFlight' = {} /\ strays' = {}
    BY <1>1, <1>3, <1>4 DEF InFlight, Abandoned
  <2> QED
    BY <1>1, <1>4, <2>1, <2>2 DEF Flights
<1> QED
  BY <1>1, <1>8, <1>9 DEF TrackInv, WhatIsRead

LEMMA SubmitPreparedTrack ==
  ASSUME IInv, SubmitPrepared
  PROVE  TrackInv'
<1>1. /\ pc = "submit" /\ pc' = "sent" /\ call = None
      /\ open' = [open EXCEPT !.fresh = TRUE]
      /\ Send("submit", at, open.hash)
      /\ UNCHANGED <<accounts, strays, ledger, revived, outputs>>
  BY Waiting DEF SubmitPrepared, Goto, checking
<1>2. /\ open \in Markers /\ at = open.task /\ at \in Tasks /\ open.phase = "submitting"
      /\ revived = None /\ Submitting(open) /\ open # None /\ open.hash \in Hashes
      /\ strays = {} /\ (claim[at] = "live" => Unsent(open))
  BY <1>1, AtOpen, MarkerFields
     DEF IInv, LoadInv, Control, Busy, PhaseOf, TrackInv, JournalFits, MarkerFits, Hashed, Flights
<1>3. /\ open' \in Markers /\ open' # None /\ open'.task = at /\ open'.phase = "submitting"
      /\ open'.rev = open.rev /\ open'.hash = open.hash /\ open'.fresh
  <2>1. open' \in Markers
    BY <1>1, <1>2 DEF Markers
  <2> QED
    BY <1>1, <1>2, <2>1, MarkerFields DEF Markers
<1>4. /\ call' # None /\ call'.state = "flight" /\ call'.tx.kind = "submit"
      /\ call'.tx.task = at /\ call'.tx.hash = open.hash
  BY <1>1, <1>2, SendTypes
<1>5. InFlight' = {call'.tx} /\ strays' = {}
  BY <1>1, <1>2, <1>4 DEF InFlight, Abandoned
<1>6. ~Landed(sub[at])
  <2>1. Landed(sub[at]) => claim[at] = "live"
    BY <1>2 DEF IInv, TrackInv, AccountsFit
  <2> QED
    BY <1>2, <2>1 DEF Unsent, Landed, Refused
<1>7. ASSUME NEW n, n = open' PROVE MarkerFits(n) /\ (Unsent(n) <=> Unsent(open))
  <2>1. Unsent(n) <=> Unsent(open)
    BY <1>2, <1>3, <1>7 DEF Unsent
  <2>2. Submitting(n)
    BY <1>2, <1>3, <1>7, <2>1 DEF Submitting
  <2> QED
    BY <1>3, <1>7, <2>1, <2>2 DEF MarkerFits
<1>8. AccountsFit' /\ OutputsFit' /\ JournalFits'
  BY <1>1, <1>2, <1>3, <1>7, JournalKept DEF Tracked
<1>9. Flights'
  <2>1. UNCHANGED <<claim, sub>>
    BY <1>1 DEF accounts
  <2>2. ASSUME NEW x \in InFlight', NEW n \in {open'} \ {None} PROVE FlightFits(x, n)'
    <3>1. n = open' /\ x.task = at /\ x.kind = "submit" /\ x.hash = open.hash
      BY <1>4, <1>5, <2>2
    <3>2. claim[at] = "live" => Unsent(n)
      BY <1>2, <1>7, <3>1
    <3> QED
      BY <1>2, <1>3, <1>6, <2>1, <3>1, <3>2 DEF FlightFits, Unsent, Landed, Refused
  <2> QED
    BY <1>1, <1>3, <1>4, <1>5, <2>2 DEF Flights
<1> QED
  BY <1>1, <1>8, <1>9 DEF TrackInv, WhatIsRead

\* A result is only committed when the chain is as a ledger record says.
LEMMA CommitTrack ==
  ASSUME IInv, open # None, at = open.task, CommitSubmission(at), Handed(at), strays = {},
         call' = None, pc' = "idle", pc \notin {"settle", "examine"},
         UNCHANGED <<accounts, strays, revived, outputs>>
  PROVE  TrackInv'
<1>1. at \in Tasks /\ ledger[at] = None /\ revived = None
  BY MarkerFields, Waiting DEF IInv, LoadInv, JournalLoads, TypeOK
<1>2. CASE UNCHANGED journal
  BY <1>2, QuietTrack
<1>3. CASE /\ open' = None
           /\ ledger' = [ledger EXCEPT ![at] = IF @ = None THEN NewRecord ELSE @]
  <2>1. NewRecord # None
    <3>1. NewRecord \in Records
      BY DEF NewRecord, Records, Outcomes
    <3> QED
      BY <3>1, RecordFields
  <2>2. /\ ledger'[at] # None
        /\ \A t \in Tasks \ {at} : ledger'[t] = ledger[t]
    BY <1>1, <1>3, <2>1 DEF IInv, LoadInv, JournalLoads, TypeOK
  <2>3. AccountsFit' /\ OutputsFit' /\ JournalFits'
    BY <1>1, <1>3, <2>2, JournalKept DEF Tracked
  <2>4. Flights'
    BY <1>3, FlightsKept
  <2> QED
    BY <2>3, <2>4 DEF TrackInv, WhatIsRead
<1> QED
  BY <1>2, <1>3 DEF CommitSubmission

\* What was sent and is no longer pending may be committed.
LEMMA SubmittedHanded ==
  ASSUME IInv, open # None, at = open.task, at \in Tasks, Submitting(open),
         claim[at] = "none" \/ ~Unsent(open)
  PROVE  Handed(at)
<1>1. Landed(sub[at]) => claim[at] # "none"
  BY DEF IInv, TrackInv, AccountsFit
<1>2. ASSUME claim[at] # "none"
      PROVE  \/ Landed(sub[at]) /\ Produced(at, sub[at].hash)
             \/ Refused(sub[at]) /\ sub[at].count > open.rev
  BY <1>2 DEF Submitting
<1>3. ASSUME Refused(sub[at]), claim[at] # "none" PROVE ~Worked(at)
  <2>1. sub[at].thread
    BY <1>3 DEF IInv, TrackInv, AccountsFit
  <2>2. sub[at].count # open.rev
    BY <1>3 DEF Unsent, Refused
  <2> QED
    BY <1>3, <2>1, <2>2 DEF Submitting
<1>4. Landed(sub[at]) => ~Refused(sub[at])
  BY DEF Landed, Refused
<1> QED
  BY <1>1, <1>2, <1>3, <1>4 DEF Handed

LEMMA SubmitLandedTrack ==
  ASSUME IInv, SubmitLanded
  PROVE  TrackInv'
<1>1. /\ pc = "sent" /\ pc' = "idle" /\ call # None /\ call.state = "landed" /\ call' = None
      /\ CommitSubmission(at) /\ UNCHANGED <<accounts, strays, revived, outputs>>
  BY DEF SubmitLanded, Answered, Rest, checking
<1>2. /\ at = open.task /\ at \in Tasks /\ open # None /\ strays = {} /\ Submitting(open)
  BY <1>1, AtOpen, Waiting
     DEF IInv, LoadInv, Control, Busy, PhaseOf, TrackInv, JournalFits, MarkerFits
<1>3. claim[at] = "none" \/ ~Unsent(open)
  BY <1>1, <1>2 DEF IInv, TrackInv, Flights
<1> QED
  BY <1>1, <1>2, <1>3, SubmittedHanded, CommitTrack

LEMMA SubmitFailedTrack ==
  ASSUME IInv, SubmitFailed
  PROVE  TrackInv'
<1>1. /\ pc = "sent" /\ pc' = "unsent" /\ call' = None
      /\ UNCHANGED <<accounts, journal, revived, outputs>>
      /\ strays' = strays \/ strays' = strays \cup Abandoned
  BY DEF SubmitFailed, Answered, Unanswered, Goto, checking
<1> QED
  BY <1>1, QuietTrack DEF InFlight

LEMMA RecoverSubmissionTrack ==
  ASSUME IInv, RecoverSubmission
  PROVE  TrackInv'
<1>1. /\ pc = "unsent" /\ pc' = "idle" /\ call = None
      /\ UNCHANGED <<chain, revived, outputs>>
  BY Waiting DEF RecoverSubmission, Rest, checking
<1>2. /\ at = open.task /\ at \in Tasks /\ open # None /\ Submitting(open)
      /\ open.phase = "submitting"
  BY <1>1, AtOpen
     DEF IInv, LoadInv, Control, Busy, PhaseOf, TrackInv, JournalFits, MarkerFits
<1>3. CASE UNCHANGED journal
  BY <1>1, <1>3, QuietTrack DEF chain, network, InFlight
<1>4. CASE Landed(sub[at]) /\ CommitSubmission(at)
  <2>1. ~Unsent(open)
    BY <1>2, <1>4 DEF Unsent, Landed, Refused
  <2>2. strays = {}
    <3>1. ASSUME NEW x \in strays PROVE FALSE
      <4>1. FlightFits(x, open) /\ x.kind \in {"claim", "submit"}
        BY <1>2, <3>1 DEF IInv, TrackInv, Flights, InFlight, LoadInv, JournalLoads, TypeOK,
                          ChainTypeOK, Transactions
      <4> QED
        BY <1>2, <1>4, <4>1 DEF FlightFits
    <3> QED
      BY <3>1
  <2> QED
    BY <1>1, <1>2, <1>4, <2>1, <2>2, SubmittedHanded, CommitTrack DEF chain, network
<1>5. (CommitSubmission(at) /\ Landed(sub[at])) \/ UNCHANGED journal
  <2>1. Readable(at, "sub") = {sub[at]}
    BY <1>2, ReadNow
  <2> QED
    BY <2>1 DEF RecoverSubmission
<1> QED
  BY <1>3, <1>4, <1>5

\* Time passes.
LEMMA MarkerAgesTrack ==
  ASSUME Prompt, IInv, MarkerAges
  PROVE  TrackInv'
<1>1. /\ open # None /\ got = Nothing /\ call = None /\ strays = {}
      /\ open' = [open EXCEPT !.fresh = FALSE]
      /\ UNCHANGED <<accounts, network, ledger, revived, pc, at, got, outputs>>
      /\ pc' = pc
  BY DEF MarkerAges, Prompt, Reading, chain, worker, checking
<1>2. open \in Markers /\ MarkerFits(open)
  BY <1>1, StateTypes DEF IInv, TrackInv, JournalFits
<1>3. /\ open' \in Markers /\ open' # None /\ open'.task = open.task /\ open'.phase = open.phase
      /\ open'.rev = open.rev /\ open'.hash = open.hash /\ ~open'.fresh
  <2>1. open' \in Markers
    BY <1>1, <1>2 DEF Markers
  <2> QED
    BY <1>1, <1>2, <2>1, MarkerFields DEF Markers
<1>4. ASSUME NEW n, n = open' PROVE MarkerFits(n) /\ (Unsent(n) <=> Unsent(open))
  <2>1. Unsent(n) <=> Unsent(open)
    BY <1>3, <1>4 DEF Unsent
  <2>2. CASE open.phase = "submitting"
    BY <1>2, <1>3, <1>4, <2>1, <2>2 DEF MarkerFits, Submitting
  <2>3. CASE open.phase # "submitting"
    BY <1>2, <1>3, <1>4, <2>1, <2>3 DEF MarkerFits, Prepared
  <2> QED
    BY <2>2, <2>3
<1>5. AccountsFit' /\ OutputsFit' /\ JournalFits'
  BY <1>1, <1>3, <1>4, JournalKept DEF Tracked
<1>6. Flights'
  <2>1. strays' = {} /\ InFlight' = {} /\ call' = None /\ UNCHANGED <<claim, sub, round>>
    BY <1>1 DEF InFlight, Abandoned, network, accounts
  <2>2. ASSUME NEW n \in {open'} \ {None}
        PROVE  /\ pc = "submit" /\ claim[n.task] = "live" => Unsent(n)'
               /\ pc = "execute" => ~Worked(n.task)'
    <3>1. /\ n.task = open.task
          /\ pc = "submit" /\ claim[n.task] = "live" => Unsent(n)
          /\ pc = "execute" => ~Worked(n.task)
      BY <1>1, <1>3, <1>4, <2>2 DEF IInv, TrackInv, Flights
    <3> QED
      BY <1>1, <2>1, <3>1 DEF Unsent, Refused, Worked
  <2>3. pc \notin {"claim", "sent"}
    BY <1>1, Waiting
  <2> QED
    BY <1>1, <2>1, <2>2, <2>3 DEF Flights
<1>7. pc = "resume" => \A n \in {open'} \ {None} : ReadingsFit(n)'
  BY <1>1 DEF Nothing, ReadingsFit, ClaimReadings, SubReadings, TaskReadings
<1>8. pc # "examine"
  BY <1>1 DEF Nothing, IInv, TrackInv, WhatIsRead, EvidenceFits
<1> QED
  BY <1>1, <1>5, <1>6, <1>7, <1>8 DEF TrackInv, WhatIsRead

LEMMA RecordAgesTrack ==
  ASSUME IInv, RecordAges
  PROVE  TrackInv'
<1>1. PICK t \in Tasks :
        /\ ledger[t] # None
        /\ ledger' = [ledger EXCEPT ![t].fresh = FALSE]
        /\ UNCHANGED <<chain, open, baseline, worker, faults, outputs>>
  BY DEF RecordAges
<1>2. /\ UNCHANGED <<accounts, network, open, revived, pc, at, got, outputs>>
      /\ UNCHANGED <<task, claim, sub, round, paid, call, strays>>
  BY <1>1 DEF chain, worker, checking, accounts, network
<1>3. \A v \in Tasks : ledger'[v] # None <=> ledger[v] # None
  <2>1. [ledger[t] EXCEPT !.fresh = FALSE] \in Records
    BY <1>1 DEF Records, IInv, LoadInv, JournalLoads, TypeOK
  <2> QED
    BY <1>1, <2>1, RecordFields DEF IInv, LoadInv, JournalLoads, TypeOK
<1>4. AccountsFit' /\ OutputsFit' /\ JournalFits'
  BY <1>2, <1>3, JournalKept DEF Tracked
<1>5. Flights'
  <2>1. InFlight' = InFlight
    BY <1>2 DEF InFlight, Abandoned
  <2> QED
    BY <1>2, <2>1 DEF IInv, TrackInv, Flights, FlightFits, Unsent, Landed, Refused, Worked
<1>6. ASSUME pc = "resume", NEW n \in {open} \ {None} PROVE ReadingsFit(n)'
  <2>1. ReadingsFit(n)
    BY <1>6 DEF IInv, TrackInv, WhatIsRead
  <2>2. ClaimReadings(n)' /\ TaskReadings(n)'
    BY <1>2, <2>1 DEF ReadingsFit, ClaimReadings, TaskReadings, Worked
  <2>3. SubReadings(n)'
    BY <1>2, <2>1 DEF ReadingsFit, SubReadings, Worked, Unsent, Landed, Refused
  <2> QED
    BY <1>2, <2>1, <2>2, <2>3 DEF ReadingsFit
<1>7. pc = "examine" => EvidenceFits(at)'
  BY <1>2 DEF IInv, TrackInv, WhatIsRead, EvidenceFits, Worked, Landed, Refused
<1> QED
  BY <1>2, <1>4, <1>5, <1>6, <1>7 DEF TrackInv, WhatIsRead

-----------------------------------------------------------------------------
(***************************************************************************)
(* resumeOpenClaim: what was read is enough to go on.                      *)
(***************************************************************************)
Resuming ==
  /\ pc = "resume" /\ HasRead({"task", "claim", "sub"})
  /\ UNCHANGED <<accounts, network, revived, outputs>>

LEMMA ResumingFacts ==
  ASSUME IInv, Resuming
  PROVE  /\ open \in Markers /\ open # None /\ at = open.task /\ at \in Tasks
         /\ open.phase \in Phases /\ open.rev \in Int
         /\ call = None /\ InFlight = strays /\ revived = None /\ ledger[at] = None
         /\ ReadingsFit(open) /\ MarkerFits(open)
         /\ Seen("task") \in got.task /\ Seen("task") \in TaskStatuses
         /\ Seen("claim") \in got.claim /\ Seen("claim") \in ClaimStates
         /\ Seen("sub") \in got.sub /\ Seen("sub") \in Submissions \cup {None}
<1>1. pc = "resume" /\ got.task # {} /\ got.claim # {} /\ got.sub # {} /\ got \in Readings
  BY DEF Resuming, HasRead, IInv, LoadInv, Control
<1>2. open # None
  BY <1>1 DEF IInv, LoadInv, Control, Nothing
<1>3. /\ open \in Markers /\ at = open.task /\ at \in Tasks /\ ledger[at] = None
  BY <1>1, <1>2, AtOpen DEF IInv
<1>4. call = None /\ InFlight = strays /\ revived = None
  BY <1>1, Waiting
<1>5. ReadingsFit(open) /\ MarkerFits(open)
  BY <1>1, <1>2 DEF IInv, TrackInv, WhatIsRead, JournalFits
<1>6. /\ Seen("task") \in got.task /\ Seen("task") \in TaskStatuses
      /\ Seen("claim") \in got.claim /\ Seen("claim") \in ClaimStates
      /\ Seen("sub") \in got.sub /\ Seen("sub") \in Submissions \cup {None}
  BY <1>1, SeenTypes
<1> QED
  BY <1>2, <1>3, <1>4, <1>5, <1>6, MarkerFields

\* Only a claim and a submission are still on their way when they may be.
LEMMA ResumeSettled ==
  ASSUME IInv, Resuming, open.phase = "submitting" => ~open.fresh,
         open.phase = "claiming" => ~open.fresh \/ Seen("claim") # "none"
  PROVE  strays = {}
<1>1. ~open.fresh => strays = {}
  BY ResumingFacts, NoneInFlight
<1>2. CASE open.phase \in {"claimed", "executed"}
  BY <1>1, <1>2, ResumingFacts DEF MarkerFits, Prepared
<1>3. CASE open.phase = "claiming" /\ Seen("claim") # "none"
  BY <1>3, ResumingFacts DEF ReadingsFit, ClaimReadings
<1> QED
  BY <1>1, <1>2, <1>3, ResumingFacts DEF Phases

\* A change request starts a new round: the refused attempt was the last.
LEMMA NewRevisionTrack ==
  ASSUME IInv, Resuming, NewRevision, RestoreRevisionRound, StartWork
  PROVE  TrackInv'
<1> DEFINE s == Seen("sub")
           m == Marker(at, "claimed", FALSE, s.count, None)
<1>1. /\ Refused(s) /\ s.count # open.rev /\ Seen("claim") = "live" /\ s \in Submissions
      /\ open' = m /\ ledger' = [ledger EXCEPT ![at] = None]
      /\ pc' \in {"idle", "execute"}
      /\ pc' = "execute" => s.thread
      /\ UNCHANGED <<accounts, network, revived, outputs>>
  BY ResumingFacts DEF Resuming, NewRevision, RevisionRequested, RestoreRevisionRound, StartWork,
                       Refused, Rest, Goto
<1>2. /\ at \notin paid /\ strays = {}
      /\ s = sub[at] \/ (sub[at] = None /\ claim[at] = "none")
      /\ s.thread => ~Worked(at)
  BY <1>1, ResumingFacts DEF ReadingsFit, SubReadings
<1>3. m \in Markers /\ m # None /\ m.task = at /\ m.phase = "claimed" /\ ~m.fresh
      /\ m.rev = s.count
  <2>1. m \in Markers
    BY <1>1, ResumingFacts, SubmissionFields DEF Marker, Markers, Phases
  <2> QED
    BY <2>1, MarkerFields DEF Marker
<1>4. MarkerFits(m)
  <2>1. Worked(at) => claim[at] = "none"
    BY <1>1, <1>2, ResumingFacts DEF IInv, TrackInv, AccountsFit
  <2> QED
    BY <1>1, <1>2, <1>3, <2>1 DEF MarkerFits, Prepared, Unsent
<1>5. AccountsFit' /\ OutputsFit' /\ JournalFits'
  <2>1. \A t \in Tasks : ledger'[t] # None => ledger[t] # None
    BY <1>1, ResumingFacts DEF IInv, LoadInv, JournalLoads, TypeOK
  <2>2. \A t \in Tasks : Tracked(t) => Tracked(t)'
    BY <1>1, <1>3, ResumingFacts DEF Tracked, IInv, LoadInv, JournalLoads, TypeOK
  <2> QED
    BY <1>1, <1>4, <2>1, <2>2, ResumingFacts, JournalKept
<1>6. Flights'
  <2>1. strays' = {} /\ InFlight' = {} /\ call' = None /\ UNCHANGED <<round, outputs>>
    BY <1>1, <1>2, ResumingFacts DEF network, accounts, InFlight, Abandoned
  <2>2. pc' = "execute" => \A n \in {open'} \ {None} : ~Worked(n.task)'
    BY <1>1, <1>2, <1>3, <2>1 DEF Worked
  <2> QED
    BY <1>1, <2>1, <2>2 DEF Flights
<1> QED
  BY <1>1, <1>5, <1>6 DEF TrackInv, WhatIsRead

\* What is committed was handed in, or is over.
LEMMA VerdictCommit ==
  ASSUME IInv, Resuming, ~NewRevision, Verdict = "commit"
  PROVE  Handed(at) /\ strays = {}
<1> DEFINE s == Seen("sub")
           c == Seen("claim")
           u == Seen("task")
<1>1. open.phase # "submitting" => Prepared(open)
  BY ResumingFacts DEF MarkerFits
<1>2. open.phase = "submitting" => Submitting(open)
  BY ResumingFacts DEF MarkerFits
<1>3. Landed(sub[at]) => claim[at] # "none"
  BY ResumingFacts DEF IInv, TrackInv, AccountsFit
<1>4. CASE Recognised
  <2>1. open.phase = "submitting" /\ strays = {} /\ (claim[at] = "none" \/ ~Unsent(open))
    BY <1>4, ResumingFacts DEF Recognised, ReadingsFit, SubReadings
  <2> QED
    BY <1>2, <2>1, ResumingFacts, SubmittedHanded
<1>5. CASE ~Recognised /\ ~InDoubt /\ Dismissed
  <2>1. /\ Refused(s) /\ ~Landed(s) /\ ~RevisionRequested
        /\ (u = "Open" /\ c # "live") \/ u \in Ended
    BY <1>5 DEF Dismissed, Refused, Landed
  <2>2. open.phase = "submitting" => ~open.fresh
    BY <1>5 DEF InDoubt
  <2>3. open.phase # "claiming"
    <3>1. ASSUME open.phase = "claiming" PROVE s.count # open.rev
      BY <1>1, <2>1, <3>1, ResumingFacts, SubmissionFields DEF Prepared, Refused
    <3> QED
      BY <2>1, <3>1, ResumingFacts DEF ReadingsFit, SubReadings
  <2>4. strays = {}
    BY <2>2, <2>3, ResumeSettled
  <2>5. ~Landed(sub[at])
    <3>1. s = sub[at] \/ sub[at] = None
      BY <2>1, <2>2, ResumingFacts DEF ReadingsFit, SubReadings
    <3> QED
      BY <2>1, <3>1 DEF Landed
  <2>6. claim[at] # "none" => task[at] \in Ended
    BY <2>1, <2>3, ResumingFacts DEF ReadingsFit, TaskReadings
  <2> QED
    BY <2>4, <2>5, <2>6 DEF Handed
<1>6. CASE ~Recognised /\ ~InDoubt /\ Gone /\ open.phase = "submitting"
  <2>1. c = "none" /\ s = None
    BY <1>6 DEF Gone
  <2>2. ~open.fresh
    BY <1>6 DEF InDoubt
  <2>3. claim[at] = "none"
    BY <2>1, <2>2, ResumingFacts DEF ReadingsFit, ClaimReadings
  <2>4. strays = {}
    BY <1>6, <2>2, ResumeSettled
  <2> QED
    BY <1>3, <2>3, <2>4 DEF Handed
<1> QED
  BY <1>4, <1>5, <1>6 DEF Verdict, IfGone

\* What is cleared was never known to the chain.
LEMMA VerdictClear ==
  ASSUME IInv, Resuming, ~NewRevision, Verdict = "clear"
  PROVE  Untouched(at) /\ strays = {}
<1> DEFINE s == Seen("sub")
           c == Seen("claim")
<1>1. /\ c = "none" /\ s = None /\ open.phase # "submitting" /\ ~ClaimInDoubt
  BY DEF Verdict, IfGone, Gone
<1>2. open.phase = "claiming" => ~open.fresh
  BY <1>1 DEF ClaimInDoubt
<1>3. Prepared(open)
  BY <1>1, ResumingFacts DEF MarkerFits
<1>4. ~open.fresh
  BY <1>2, <1>3 DEF Prepared
<1>5. claim[at] = "none"
  BY <1>1, <1>4, ResumingFacts DEF ReadingsFit, ClaimReadings
<1>6. sub[at] = None
  BY <1>1, ResumingFacts DEF ReadingsFit, SubReadings, Landed, Refused
<1> QED
  BY <1>3, <1>4, <1>5, <1>6, ResumingFacts, NoneInFlight DEF Untouched, Prepared

\* What is sent again has not landed.
LEMMA VerdictSubmit ==
  ASSUME IInv, Resuming, ~NewRevision, Verdict = "submit"
  PROVE  strays = {} /\ (claim[at] = "live" => Unsent(open))
<1> DEFINE s == Seen("sub")
           c == Seen("claim")
           u == Seen("task")
<1>1. open.phase = "submitting" /\ ~InDoubt /\ ~Incoherent
  BY DEF Verdict, IfGone
<1>2. ~open.fresh /\ ~Landed(s)
  BY <1>1 DEF InDoubt
<1>3. strays = {}
  BY <1>1, <1>2, ResumeSettled
<1>4. ASSUME claim[at] = "live" PROVE Unsent(open)
  <2>1. s = sub[at] /\ c = "live"
    BY <1>2, <1>4, ResumingFacts DEF ReadingsFit, SubReadings, ClaimReadings
  <2>2. ~(Refused(s) /\ s.count # open.rev)
    <3> SUFFICES ASSUME Refused(s), s.count # open.rev PROVE FALSE
      OBVIOUS
    <3>1. ~RevisionRequested
      BY DEF NewRevision
    <3>2. u = "InProgress"
      BY <1>1, <3>1 DEF Incoherent
    <3> QED
      BY <2>1, <3>1, <3>2 DEF RevisionRequested, Engaged
  <2>3. Submitting(open)
    BY <1>1, ResumingFacts DEF MarkerFits
  <2>4. sub[at] = None \/ Refused(sub[at])
    BY <1>2, <2>1, ResumingFacts, SubmissionFields DEF Landed, Refused
  <2> QED
    BY <1>2, <1>4, <2>1, <2>2, <2>3, <2>4, ResumingFacts DEF Submitting, Unsent
<1> QED
  BY <1>3, <1>4

\* The executor is not run for a round it was run for.
LEMMA VerdictExecute ==
  ASSUME IInv, Resuming, ~NewRevision, Verdict = "execute"
  PROVE  open.phase \in {"claiming", "claimed"} /\ strays = {} /\ ~Worked(at)
<1>1. /\ open.phase \in {"claiming", "claimed"} /\ ~Incoherent
  BY ResumingFacts DEF Verdict, IfGone, Phases
<1>2. Seen("claim") # "none"
  BY <1>1 DEF Incoherent
<1>3. strays = {}
  BY <1>1, <1>2, ResumeSettled
<1> QED
  BY <1>1, <1>2, <1>3, ResumingFacts DEF ReadingsFit, ClaimReadings

LEMMA ResumeOpenClaimTrack ==
  ASSUME IInv, ResumeOpenClaim
  PROVE  TrackInv'
<1>1. Resuming
  BY AtOpen, ResumeHasClaim DEF ResumeOpenClaim, Resuming, chain, checking, IInv
<1>2. /\ UNCHANGED <<accounts, network, revived, outputs, task, claim, sub, round, call, strays>>
      /\ call = None /\ pc = "resume"
  BY <1>1, ResumingFacts DEF Resuming, accounts, network
<1>3. CASE NewRevision
  BY <1>1, <1>3, NewRevisionTrack DEF ResumeOpenClaim
<1>4. CASE ~NewRevision /\ Verdict = "commit" /\ CommitSubmission(at) /\ Rest("idle")
  BY <1>1, <1>2, <1>4, ResumingFacts, VerdictCommit, CommitTrack DEF Rest
<1>5. CASE UNCHANGED journal /\ Rest("idle")
  BY <1>1, <1>2, <1>5, ResumingFacts, QuietTrack DEF Rest
<1>6. CASE /\ ~NewRevision /\ Verdict = "clear" /\ open' = None
           /\ UNCHANGED ledger /\ pc' \in {"candidate", "idle"}
  <2>1. Untouched(at) /\ strays = {} /\ at = open.task /\ revived = None
    BY <1>1, <1>6, VerdictClear, ResumingFacts
  <2>2. AccountsFit' /\ OutputsFit' /\ JournalFits'
    BY <1>2, <1>6, <2>1, JournalKept DEF Tracked
  <2>3. Flights'
    BY <1>2, <1>6, <2>1, FlightsKept
  <2> QED
    BY <1>6, <2>2, <2>3 DEF TrackInv, WhatIsRead
<1>7. CASE ~NewRevision /\ Verdict = "deliver" /\ UNCHANGED journal /\ Goto("deliver")
  BY <1>1, <1>2, <1>7, ResumingFacts, QuietTrack DEF Goto
<1>8. CASE ~NewRevision /\ Verdict = "submit" /\ UNCHANGED journal /\ Goto("submit")
  <2>1. strays = {} /\ (claim[at] = "live" => Unsent(open)) /\ at = open.task
    BY <1>1, <1>8, VerdictSubmit, ResumingFacts
  <2>2. open' = open /\ ledger' = ledger /\ pc' = "submit"
    BY <1>8 DEF journal, Goto
  <2>3. AccountsFit' /\ OutputsFit' /\ JournalFits'
    BY <1>2, <2>2, JournalKept DEF Tracked
  <2>4. Flights'
    <3>1. InFlight' = {} /\ strays' = {} /\ call' = None
      BY <1>2, <2>1 DEF InFlight, Abandoned
    <3>2. \A n \in {open'} \ {None} : claim'[n.task] = "live" => Unsent(n)'
      BY <1>2, <2>1, <2>2 DEF Unsent, Refused
    <3> QED
      BY <2>2, <3>1, <3>2 DEF Flights
  <2> QED
    BY <2>2, <2>3, <2>4 DEF TrackInv, WhatIsRead
<1>9. CASE /\ ~NewRevision /\ Verdict = "execute" /\ UNCHANGED ledger /\ StartWork
           /\ open' = [open EXCEPT !.phase = "claimed", !.fresh = FALSE]
  <2>1. /\ open.phase \in {"claiming", "claimed"} /\ strays = {} /\ ~Worked(at)
        /\ at = open.task /\ open \in Markers /\ revived = None /\ Prepared(open)
    BY <1>1, <1>9, VerdictExecute, ResumingFacts DEF MarkerFits
  <2>2. /\ open' \in Markers /\ open' # None /\ open'.task = at /\ open'.phase = "claimed"
        /\ open'.rev = open.rev /\ ~open'.fresh
    <3>1. open' \in Markers
      BY <1>9, <2>1 DEF Markers, Phases
    <3> QED
      BY <1>9, <2>1, <3>1, MarkerFields DEF Markers
  <2>3. ASSUME NEW n, n = open' PROVE MarkerFits(n)
    BY <2>1, <2>2, <2>3 DEF MarkerFits, Prepared, Unsent
  <2>4. AccountsFit' /\ OutputsFit' /\ JournalFits'
    BY <1>2, <1>9, <2>1, <2>2, <2>3, JournalKept DEF Tracked
  <2>5. pc' \in {"idle", "execute"}
    BY <1>9 DEF StartWork, Rest, Goto
  <2>6. Flights'
    <3>1. InFlight' = {} /\ strays' = {} /\ call' = None
      BY <1>2, <2>1 DEF InFlight, Abandoned
    <3>2. \A n \in {open'} \ {None} : ~Worked(n.task)'
      BY <1>2, <2>1, <2>2 DEF Worked
    <3> QED
      BY <2>5, <3>1, <3>2 DEF Flights
  <2> QED
    BY <2>4, <2>5, <2>6 DEF TrackInv, WhatIsRead
<1> QED
  BY <1>3, <1>4, <1>5, <1>6, <1>7, <1>8, <1>9 DEF ResumeOpenClaim, Rest

-----------------------------------------------------------------------------
(***************************************************************************)
(* The second invariant, and what it says of a prompt worker.              *)
(***************************************************************************)
LEMMA StutterTrack ==
  ASSUME IInv, UNCHANGED vars
  PROVE  TrackInv'
<1>1. /\ UNCHANGED <<accounts, journal, worker, faults, outputs, network>>
      /\ UNCHANGED <<strays, call>>
  BY DEF vars, chain, network
<1>2. /\ UNCHANGED <<task, claim, sub, round, paid, behind, open, ledger, revived, pc, at, got>>
      /\ UNCHANGED outputs
  BY <1>1 DEF accounts, journal, worker, checking
<1>3. AccountsFit' /\ OutputsFit' /\ JournalFits'
  BY <1>1, <1>2, JournalKept DEF Tracked
<1>4. InFlight' = InFlight
  BY <1>1 DEF InFlight, Abandoned
<1>5. Flights'
  BY <1>1, <1>2, <1>4
     DEF IInv, TrackInv, Flights, FlightFits, Unsent, Landed, Refused, Worked
<1>6. ASSUME pc = "resume", NEW n \in {open} \ {None} PROVE ReadingsFit(n)'
  <2>1. ReadingsFit(n)
    BY <1>6 DEF IInv, TrackInv, WhatIsRead
  <2>2. ClaimReadings(n)' /\ TaskReadings(n)'
    BY <1>1, <1>2, <2>1 DEF ReadingsFit, ClaimReadings, TaskReadings, Worked
  <2>3. SubReadings(n)'
    BY <1>1, <1>2, <2>1 DEF ReadingsFit, SubReadings, Worked, Unsent, Landed, Refused
  <2> QED
    BY <1>1, <1>2, <2>1, <2>2, <2>3 DEF ReadingsFit
<1>7. pc = "examine" => EvidenceFits(at)'
  BY <1>2 DEF IInv, TrackInv, WhatIsRead, EvidenceFits, Worked, Landed, Refused
<1> QED
  BY <1>2, <1>3, <1>5, <1>6, <1>7 DEF TrackInv, WhatIsRead

LEMMA StepTrack ==
  ASSUME Prompt, IInv, [Next]_vars
  PROVE  TrackInv'
<1>1. CASE Tick
  BY <1>1, SettleTrack, SettleNextTrack, ExamineReadsTrack, ExamineTrack, SettleDoneTrack,
     ResumeReadsTrack, NoCandidateTrack, ResumeOpenClaimTrack, ClaimCandidateTrack,
     ClaimLandedTrack, ClaimFailedTrack, RecoverClaimTrack, RunExecutorTrack, DeliverTrack,
     SubmitPreparedTrack, SubmitLandedTrack, SubmitFailedTrack, RecoverSubmissionTrack DEF Tick
<1>2. CASE Crash \/ StepFails
  BY <1>2, GiveUpTrack
<1>3. CASE Environment
  BY <1>3, ChainStepTrack, MarkerAgesTrack, RecordAgesTrack DEF Environment, ChainStep
<1>4. CASE UNCHANGED vars
  BY <1>4, StutterTrack
<1> QED
  BY <1>1, <1>2, <1>3, <1>4 DEF Next

LEMMA InitTrack == Init => TrackInv
<1> SUFFICES ASSUME Init PROVE TrackInv
  OBVIOUS
<1>1. /\ task = [t \in Tasks |-> "Open"] /\ claim = [t \in Tasks |-> "none"]
      /\ sub = [t \in Tasks |-> None] /\ round = [t \in Tasks |-> 0]
      /\ paid = {} /\ behind = [t \in Tasks |-> None] /\ call = None /\ strays = {}
      /\ open = None /\ ledger = [t \in Tasks |-> None] /\ pc = "idle" /\ revived = None
      /\ outputs = {}
  BY DEF Init, ChainInit, JournalInit
<1>2. AccountsFit /\ OutputsFit
  BY <1>1 DEF AccountsFit, OutputsFit, Landed, Refused
<1>3. JournalFits
  BY <1>1 DEF JournalFits, Untouched
<1>4. Flights
  BY <1>1 DEF Flights, InFlight, Abandoned
<1> QED
  BY <1>1, <1>2, <1>3, <1>4 DEF TrackInv, WhatIsRead

LEMMA TrackInvariant == ASSUME Prompt PROVE Spec => []IInv
<1>1. Init => IInv
  BY InitLoads, InitTrack DEF IInv
<1>2. IInv /\ [Next]_vars => IInv'
  BY StepLoads, StepTrack DEF IInv
<1> QED
  BY <1>1, <1>2, PTL DEF Spec

\* A claim the worker holds, or may still come to hold, is in the journal
\* whatever crashed or went unanswered (processCandidate, resumeOpenClaim).
THEOREM ClaimsAlwaysTracked == ASSUME Prompt PROVE Spec => []ClaimsAreTracked
<1>1. IInv => ClaimsAreTracked
  <2> SUFFICES ASSUME IInv PROVE ClaimsAreTracked
    OBVIOUS
  <2>1. \A t \in Tasks : claim[t] # "none" => Tracked(t)
    BY DEF IInv, TrackInv, JournalFits, Untouched
  <2>2. \A x \in strays : Tracked(x.task)
    BY DEF IInv, TrackInv, Flights, FlightFits, InFlight, Tracked
  <2> QED
    BY <2>1, <2>2 DEF ClaimsAreTracked
<1> QED
  BY <1>1, TrackInvariant, PTL

\* Nor is a result forgotten that was handed in and may have been paid
\* (commitSubmission, checkSettlements).
THEOREM ResultsAlwaysTracked == ASSUME Prompt PROVE Spec => []ResultsAreTracked
<1>1. IInv => ResultsAreTracked
  BY DEF IInv, TrackInv, JournalFits, Untouched, ResultsAreTracked, Landed
<1> QED
  BY <1>1, TrackInvariant, PTL

\* What is under review was produced for this very round: no transaction of an
\* earlier one lands late (TRANSACTION_RECONCILIATION_GRACE_MS).
THEOREM ResultsAlwaysCurrent == ASSUME Prompt PROVE Spec => []ResultsAreCurrent
<1>1. IInv => ResultsAreCurrent
  <2> SUFFICES ASSUME IInv, NEW t \in Tasks, Landed(sub[t]) PROVE Produced(t, sub[t].hash)
    BY DEF ResultsAreCurrent, Produced
  <2>1. Tracked(t) /\ claim[t] # "none"
    BY DEF IInv, TrackInv, AccountsFit, JournalFits, Untouched, Landed
  <2>2. CASE ledger[t] # None
    BY <2>2 DEF IInv, TrackInv, JournalFits, Handed
  <2>3. CASE open # None /\ open.task = t
    <3>1. MarkerFits(open)
      BY <2>3 DEF IInv, TrackInv, JournalFits
    <3>2. ~Unsent(open) /\ ~Refused(sub[t])
      BY <2>3 DEF Unsent, Landed, Refused
    <3> QED
      BY <2>1, <2>3, <3>1, <3>2 DEF MarkerFits, Prepared, Submitting
  <2> QED
    BY <2>1, <2>2, <2>3 DEF Tracked
<1> QED
  BY <1>1, TrackInvariant, PTL

\* The executor's output is journalled once for every round of work the chain
\* grants, and never produced again (executeAndSubmit, continueExecutedResult).
THEOREM AlwaysExecutedOncePerRound == ASSUME Prompt PROVE Spec => ExecutedOncePerRound
<1>1. ASSUME IInv, RunExecutor PROVE \A o \in outputs : o.task = at => o.round # round[at]
  <2>1. at = open.task /\ open # None /\ ~Worked(at)
    BY <1>1 DEF RunExecutor, IInv, LoadInv, Control, Busy, TrackInv, Flights
  <2> QED
    BY <2>1 DEF Worked
<1>2. IInv => [RunExecutor => \A o \in outputs : o.task = at => o.round # round[at]]_vars
  BY <1>1
<1> QED
  BY <1>2, TrackInvariant, PTL DEF ExecutedOncePerRound

=============================================================================
