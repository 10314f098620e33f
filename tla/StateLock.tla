------------------------------ MODULE StateLock ------------------------------
(***************************************************************************)
(* The exclusive runtime lock of an agenc-worker state directory           *)
(* (acquireStateLock): a file published by a hard link, taken over from a  *)
(* dead owner under the protection of a second file, the reaper marker of  *)
(* that owner's nonce, which may itself have to be taken over.             *)
(*                                                                         *)
(* One action is one system call that touches a shared name, or a local    *)
(* decision between two of them; any process may run, stop for good or be  *)
(* overtaken in between.  A process never comes back under its identity    *)
(* (pid, boot id, start time): a restarted worker is another process.      *)
(*                                                                         *)
(* A file is its inode, identified by who wrote it in which attempt of     *)
(* which call; the private temporaries and observations have names nobody  *)
(* else uses and are the variables seen and seen_marker.                   *)
(*                                                                         *)
(* An operator named X_Mistake, just before an operator X, is a deliberate *)
(* mistake in X that nothing uses.                                         *)
(***************************************************************************)
EXTENDS Naturals, FiniteSets

CONSTANTS
  Processes,      \* processes that may use the state directory
  Unidentified,   \* processes without recorded identity whose pid is reused
  ReaperCrashes,  \* whether a process may die while its marker is published
  SyncResults,    \* how an fsync of the directory may end
  MaxAttempts,    \* rounds of the retry loop, 8 in the code
  MaxCalls,       \* bound: calls of acquireStateLock per process
  None            \* no file under a name

ASSUME UnidentifiedAssumption == Unidentified \subseteq Processes
ASSUME ReaperCrashesAssumption == ReaperCrashes \in BOOLEAN
ASSUME SyncAssumption == SyncResults \subseteq BOOLEAN
ASSUME AttemptsAssumption == MaxAttempts \in Nat \ {0}
ASSUME CallsAssumption == MaxCalls \in Nat \ {0}

Inodes == [by: Processes, call: 1..MaxCalls, attempt: 1..MaxAttempts]
Nonces == Processes \X (1..MaxCalls)

ASSUME NoneAssumption == None \notin Inodes

VARIABLES
  lock,        \* the inode at LOCK_FILE, or None
  marker,      \* the inode at <LOCK_FILE>.reap.<nonce>, or None
  pc,          \* where each process is in acquireStateLock or its release
  call,        \* calls begun, which tells the nonces of a process apart
  attempt,     \* round of the retry loop
  seen,        \* the process's observation of LOCK_FILE
  seen_marker  \* the process's observation of a marker

vars == <<lock, marker, pc, call, attempt, seen, seen_marker>>

Owning == {"published", "undo", "undo_unlink",
           "holding", "release", "release_unlink"}
Marking == {"marked", "compare", "reap", "unmark", "unmark_unlink"}
Reaping == Marking \cup {"mark", "observe_marker", "judge_marker",
                         "compare_marker", "unlink_marker"}
Steps == {"idle", "dead", "link", "observe", "judge"} \cup Owning \cup Reaping

Dead == {p \in Processes : pc[p] = "dead"}

\* The file a process publishes in this round.
Inode(p) == [by |-> p, call |-> call[p], attempt |-> attempt[p]]
Nonce(i) == <<i.by, i.call>>
OwnNonce(p) == <<p, call[p]>>
Target(p) == Nonce(seen[p])

\* A dead owner whose pid names another process now cannot be told from a live
\* one unless its start time was recorded.
ProcessStillOwnsLock_ByNobody(p) == FALSE
ProcessStillOwnsLock(p) == p \notin Dead \/ p \in Unidentified

-----------------------------------------------------------------------------
Init ==
  /\ lock = None
  /\ marker = [n \in Nonces |-> None]
  /\ pc = [p \in Processes |-> "idle"]
  /\ call = [p \in Processes |-> 0]
  /\ attempt = [p \in Processes |-> 1]
  /\ seen = [p \in Processes |-> None]
  /\ seen_marker = [p \in Processes |-> None]

Goto(p, step) == pc' = [pc EXCEPT ![p] = step]

\* The process leaves the call, by returning or with an error it throws.
Leave(p) ==
  /\ Goto(p, "idle")
  /\ UNCHANGED <<call, attempt, seen, seen_marker>>

Advance(p, step) ==
  /\ Goto(p, step)
  /\ UNCHANGED <<call, attempt, seen, seen_marker>>

\* continue: the next round, or the error after the last one.
Retry(p) ==
  /\ IF attempt[p] < MaxAttempts
     THEN /\ attempt' = [attempt EXCEPT ![p] = @ + 1]
          /\ Goto(p, "link")
     ELSE /\ Goto(p, "idle")
          /\ UNCHANGED attempt
  /\ UNCHANGED <<call, seen, seen_marker>>

\* fsyncDirectory, whose failure makes the process do something else.
Sync(p, step, otherwise) ==
  \E ok \in SyncResults : Advance(p, IF ok THEN step ELSE otherwise)

UnchangedFiles == UNCHANGED <<lock, marker>>
SetMarker(p, file) ==
  /\ marker' = [marker EXCEPT ![Target(p)] = file]
  /\ UNCHANGED lock

AcquireStateLock(p) ==
  /\ pc[p] = "idle"
  /\ call[p] < MaxCalls
  /\ call' = [call EXCEPT ![p] = @ + 1]
  /\ attempt' = [attempt EXCEPT ![p] = 1]
  /\ Goto(p, "link")
  /\ UnchangedFiles
  /\ UNCHANGED <<seen, seen_marker>>

-----------------------------------------------------------------------------
(* Publication of the lock, and the undoing of one that cannot be synced.  *)

LinkLock(p) ==
  /\ pc[p] = "link"
  /\ IF lock = None
     THEN lock' = Inode(p) /\ Advance(p, "published")
     ELSE UNCHANGED lock /\ Advance(p, "observe")
  /\ UNCHANGED marker

SyncPublication(p) ==
  /\ pc[p] = "published"
  /\ Sync(p, "holding", "undo")
  /\ UnchangedFiles

\* Both the undoing and the release read the owner first and unlink then.
OwnsLockFile(p) == lock # None /\ Nonce(lock) = OwnNonce(p)

ReadOwnLock(p) ==
  /\ \/ pc[p] = "undo" /\ OwnsLockFile(p) /\ Advance(p, "undo_unlink")
     \/ pc[p] = "release" /\ OwnsLockFile(p) /\ Advance(p, "release_unlink")
     \/ pc[p] \in {"undo", "release"} /\ ~OwnsLockFile(p) /\ Leave(p)
  /\ UnchangedFiles

UnlinkOwnLock(p) ==
  /\ pc[p] \in {"undo_unlink", "release_unlink"}
  /\ lock' = None
  /\ Leave(p)
  /\ UNCHANGED marker

Release(p) ==
  /\ pc[p] = "holding"
  /\ Advance(p, "release")
  /\ UnchangedFiles

-----------------------------------------------------------------------------
(* The lock is taken: observe its inode, and its owner.                    *)

ObserveLock(p) ==
  /\ pc[p] = "observe"
  /\ IF lock = None
     THEN Retry(p)
     ELSE /\ seen' = [seen EXCEPT ![p] = lock]
          /\ Goto(p, "judge")
          /\ UNCHANGED <<call, attempt, seen_marker>>
  /\ UnchangedFiles

JudgeOwner(p) ==
  /\ pc[p] = "judge"
  /\ IF ProcessStillOwnsLock(seen[p].by) THEN Leave(p) ELSE Advance(p, "mark")
  /\ UnchangedFiles

-----------------------------------------------------------------------------
(* acquireReaperMarker.  The marker's target is always the nonce in its    *)
(* name, so the check that they agree never fails.                         *)

LinkMarker_Renames(p) ==
  /\ pc[p] = "mark"
  /\ SetMarker(p, Inode(p)) /\ Advance(p, "marked")
LinkMarker(p) ==
  /\ pc[p] = "mark"
  /\ IF marker[Target(p)] = None
     THEN SetMarker(p, Inode(p)) /\ Advance(p, "marked")
     ELSE UnchangedFiles /\ Advance(p, "observe_marker")

\* A marker that cannot be synced is released, like one that has served.
SyncMarker(p) ==
  /\ pc[p] = "marked"
  /\ Sync(p, "compare", "unmark")
  /\ UnchangedFiles

ObserveMarker(p) ==
  /\ pc[p] = "observe_marker"
  /\ IF marker[Target(p)] = None
     THEN Retry(p)
     ELSE /\ seen_marker' = [seen_marker EXCEPT ![p] = marker[Target(p)]]
          /\ Goto(p, "judge_marker")
          /\ UNCHANGED <<call, attempt, seen>>
  /\ UnchangedFiles

JudgeMarker_Fails(p) ==
  /\ pc[p] = "judge_marker"
  /\ Leave(p)
  /\ UnchangedFiles
JudgeMarker(p) ==
  /\ pc[p] = "judge_marker"
  /\ IF ProcessStillOwnsLock(seen_marker[p].by)
     THEN Leave(p) ELSE Advance(p, "compare_marker")
  /\ UnchangedFiles

\* sameFile stats the marker's name and throws if there is nothing there.
CompareMarker(p) ==
  /\ pc[p] = "compare_marker"
  /\ CASE marker[Target(p)] = None -> Leave(p)
       [] marker[Target(p)] = seen_marker[p] -> Advance(p, "unlink_marker")
       [] OTHER -> Retry(p)
  /\ UnchangedFiles

\* unlinkSync removes whatever the name stands for by now.
UnlinkMarker(p) ==
  /\ pc[p] = "unlink_marker"
  /\ SetMarker(p, None)
  /\ IF marker[Target(p)] = None
     THEN Leave(p)
     ELSE \E ok \in SyncResults : IF ok THEN Retry(p) ELSE Leave(p)

-----------------------------------------------------------------------------
(* The marker is ours: remove the stale lock if it is still the one seen,  *)
(* release the marker and start over.                                      *)

CompareLock_Skipped(p) ==
  /\ pc[p] = "compare"
  /\ Advance(p, "reap")
  /\ UnchangedFiles
CompareLock(p) ==
  /\ pc[p] = "compare"
  /\ Advance(p, IF lock = seen[p] THEN "reap" ELSE "unmark")
  /\ UnchangedFiles

Reap(p) ==
  /\ pc[p] = "reap"
  /\ lock' = None
  /\ Advance(p, "unmark")
  /\ UNCHANGED marker

\* releaseReaperMarker: a missing marker is reported as an error.
ReadOwnMarker(p) ==
  /\ pc[p] = "unmark"
  /\ CASE marker[Target(p)] = None -> Leave(p)
       [] marker[Target(p)] = Inode(p) -> Advance(p, "unmark_unlink")
       [] OTHER -> \E ok \in SyncResults : IF ok THEN Retry(p) ELSE Leave(p)
  /\ UnchangedFiles

UnlinkOwnMarker(p) ==
  /\ pc[p] = "unmark_unlink"
  /\ SetMarker(p, None)
  /\ \E ok \in SyncResults : IF ok THEN Retry(p) ELSE Leave(p)

Crash(p) ==
  /\ pc[p] # "dead"
  /\ ReaperCrashes \/ pc[p] \notin Marking
  /\ Advance(p, "dead")
  /\ UnchangedFiles

-----------------------------------------------------------------------------
\* The steps a process takes without being asked to.
Step(p) ==
  \/ LinkLock(p) \/ SyncPublication(p) \/ ReadOwnLock(p) \/ UnlinkOwnLock(p)
  \/ ObserveLock(p) \/ JudgeOwner(p)
  \/ LinkMarker(p) \/ SyncMarker(p) \/ ObserveMarker(p) \/ JudgeMarker(p)
  \/ CompareMarker(p) \/ UnlinkMarker(p)
  \/ CompareLock(p) \/ Reap(p) \/ ReadOwnMarker(p) \/ UnlinkOwnMarker(p)

Next == \E p \in Processes :
          AcquireStateLock(p) \/ Step(p) \/ Release(p) \/ Crash(p)

Spec == Init /\ [][Next]_vars

\* A process that has not died runs on; it need not try again nor release.
FairSpec == Spec /\ \A p \in Processes : WF_vars(Step(p))

-----------------------------------------------------------------------------
FilesOrNone == Inodes \cup {None}

\* Every file was written by a call that has begun, and a process that works
\* on an observation has one.
TypeOK ==
  /\ lock \in FilesOrNone
  /\ marker \in [Nonces -> FilesOrNone]
  /\ pc \in [Processes -> Steps]
  /\ call \in [Processes -> 0..MaxCalls]
  /\ attempt \in [Processes -> 1..MaxAttempts]
  /\ seen \in [Processes -> FilesOrNone]
  /\ seen_marker \in [Processes -> FilesOrNone]
  /\ \A p \in Processes :
       /\ pc[p] \notin {"idle", "dead"} => call[p] > 0
       /\ pc[p] \in Reaping \cup {"judge"} => seen[p] # None
       /\ pc[p] \in {"judge_marker", "compare_marker", "unlink_marker"}
            => seen_marker[p] # None

\* At most one process believes that it owns the state directory
\* (state.ts: "protected by an exclusive active-runtime lock").
MutualExclusion ==
  \A p, q \in Processes : pc[p] = "holding" /\ pc[q] = "holding" => p = q

\* A process that has published the lock and not yet removed it finds its own
\* file at LOCK_FILE: no reaper removes the lock of a live owner, and no
\* release removes the lock of a successor (acquireStateLock).
OwnersKeepTheirLock ==
  \A p \in Processes :
    pc[p] \in Owning => OwnsLockFile(p)

\* Only the file that was found stale is reaped: between the comparison and
\* the unlink nobody can have replaced it (acquireStateLock, sameFile).
OnlyStaleLocksAreReaped ==
  \A p \in Processes : pc[p] = "reap" => lock = seen[p] /\ lock.by \in Dead

\* A lock that is free, or whose owner is dead, does not stay out of reach:
\* once some process asks for it, some process gets it, unless another one
\* dies meanwhile; a dead owner and a dead reaper are both cleared away.
Available == lock = None \/ lock.by \in Dead
StaleLocksAreReclaimed ==
  \A D \in SUBSET Processes :
    (/\ Dead = D
     /\ Available
     /\ \E p \in Processes : pc[p] = "link" /\ attempt[p] = 1)
      ~> (Dead # D \/ \E p \in Processes : pc[p] = "holding")

=============================================================================
