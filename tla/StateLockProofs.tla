--------------------------- MODULE StateLockProofs ---------------------------
(***************************************************************************)
(* As long as no process dies while its reaper marker is published, the    *)
(* lock is exclusive, for any number of processes, calls and attempts.     *)
(***************************************************************************)
EXTENDS StateLock, TLAPS

\* The observed owner of a lock that is being reaped is dead.
ObservedOwnersAreDead ==
  \A p \in Processes : pc[p] \in Reaping => seen[p].by \in Dead

\* A published marker belongs to a live process that is reaping its target.
MarkersAreServing ==
  \A n \in Nonces :
    marker[n] # None =>
      /\ pc[marker[n].by] \in Marking
      /\ marker[n] = Inode(marker[n].by)
      /\ Target(marker[n].by) = n

\* A process that is reaping has its own marker in place.
ReapersAreMarked ==
  \A p \in Processes : pc[p] \in Marking => marker[Target(p)] = Inode(p)

\* A marker is about to be removed only after its owner was found dead, so
\* nobody ever is about to remove one.
MarkersAreNotStolen ==
  \A p \in Processes :
    /\ pc[p] = "compare_marker" => seen_marker[p].by \in Dead
    /\ pc[p] # "unlink_marker"

Inv ==
  /\ TypeOK
  /\ OwnersKeepTheirLock
  /\ OnlyStaleLocksAreReaped
  /\ ObservedOwnersAreDead
  /\ MarkersAreServing
  /\ ReapersAreMarked
  /\ MarkersAreNotStolen

USE UnidentifiedAssumption, ReaperCrashesAssumption, SyncAssumption,
    AttemptsAssumption, CallsAssumption, NoneAssumption

-----------------------------------------------------------------------------
LEMMA InitType == Init => TypeOK
  BY DEF Init, TypeOK, FilesOrNone, Steps, Reaping, Marking, Owning

\* Every step keeps the type invariant, with or without reaper crashes.
LEMMA TypeStep == TypeOK /\ [Next]_vars => TypeOK'
<1> SUFFICES ASSUME TypeOK, [Next]_vars PROVE TypeOK'
  OBVIOUS
<1> USE DEF TypeOK, FilesOrNone, Inodes, Nonces, Inode, Goto, Leave, Advance,
            UnchangedFiles, Steps, Owning, Reaping, Marking
<1>1. CASE UNCHANGED vars
  BY <1>1 DEF vars
<1>2. CASE Next
  <2> PICK p \in Processes :
        AcquireStateLock(p) \/ Step(p) \/ Release(p) \/ Crash(p)
    BY <1>2 DEF Next
  <2>t. pc[p] \in Reaping => Target(p) \in Nonces
    BY DEF Target, Nonce
  <2>1. CASE AcquireStateLock(p)
    BY <2>1 DEF AcquireStateLock
  <2>2. CASE LinkLock(p)
    BY <2>2 DEF LinkLock
  <2>3. CASE SyncPublication(p)
    BY <2>3 DEF SyncPublication, Sync
  <2>4. CASE ReadOwnLock(p)
    BY <2>4 DEF ReadOwnLock
  <2>5. CASE UnlinkOwnLock(p)
    BY <2>5 DEF UnlinkOwnLock
  <2>6. CASE ObserveLock(p)
    BY <2>6 DEF ObserveLock, Retry
  <2>7. CASE JudgeOwner(p)
    BY <2>7 DEF JudgeOwner
  <2>8. CASE LinkMarker(p)
    <3>1. /\ pc[p] = "mark" /\ Inode(p) \in Inodes /\ Target(p) \in Nonces
          /\ seen[p] # None /\ call[p] > 0
      BY <2>8, <2>t DEF LinkMarker
    <3>2. marker' \in [Nonces -> FilesOrNone] /\ lock' = lock
      <4> HIDE DEF Inode, Target, Nonces
      <4> QED
        BY <2>8, <3>1 DEF LinkMarker, SetMarker
    <3>3. /\ pc' \in [Processes -> Steps]
          /\ \E step \in {"marked", "observe_marker"} :
                pc' = [pc EXCEPT ![p] = step]
          /\ UNCHANGED <<call, attempt, seen, seen_marker>>
      BY <2>8 DEF LinkMarker
    <3> QED
      BY <3>1, <3>2, <3>3
  <2>9. CASE SyncMarker(p)
    BY <2>9 DEF SyncMarker, Sync
  <2>10. CASE ObserveMarker(p)
    <3>1. CASE marker[Target(p)] = None
      BY <2>10, <3>1 DEF ObserveMarker, Retry
    <3>2. CASE marker[Target(p)] # None
      <4>1. marker[Target(p)] \in Inodes
        BY <2>10, <2>t, <3>2 DEF ObserveMarker
      <4> QED
        BY <2>10, <3>2, <4>1 DEF ObserveMarker
    <3> QED
      BY <3>1, <3>2
  <2>11. CASE JudgeMarker(p)
    BY <2>11 DEF JudgeMarker
  <2>12. CASE CompareMarker(p)
    BY <2>12 DEF CompareMarker, Retry
  <2>13. CASE UnlinkMarker(p)
    BY <2>13, <2>t DEF UnlinkMarker, SetMarker, Retry
  <2>14. CASE CompareLock(p)
    BY <2>14 DEF CompareLock
  <2>15. CASE Reap(p)
    BY <2>15 DEF Reap
  <2>16. CASE ReadOwnMarker(p)
    BY <2>16 DEF ReadOwnMarker, Retry
  <2>17. CASE UnlinkOwnMarker(p)
    BY <2>17, <2>t DEF UnlinkOwnMarker, SetMarker, Retry
  <2>18. CASE Release(p)
    BY <2>18 DEF Release
  <2>19. CASE Crash(p)
    BY <2>19 DEF Crash
  <2> QED
    BY <2>1, <2>2, <2>3, <2>4, <2>5, <2>6, <2>7, <2>8, <2>9, <2>10, <2>11,
       <2>12, <2>13, <2>14, <2>15, <2>16, <2>17, <2>18, <2>19 DEF Step
<1> QED
  BY <1>1, <1>2

\* Every file name holds nothing or a file some call has written
\* (acquireStateLock), whatever crashes.
THEOREM TypeCorrect == Spec => []TypeOK
  BY InitType, TypeStep, PTL DEF Spec

-----------------------------------------------------------------------------
LEMMA InitInv == Init => Inv
  BY InitType DEF Init, Inv, OwnersKeepTheirLock, OnlyStaleLocksAreReaped,
     ObservedOwnersAreDead, MarkersAreServing, ReapersAreMarked,
     MarkersAreNotStolen, Owning, Reaping, Marking

LEMMA InvStep == ASSUME ~ReaperCrashes PROVE Inv /\ [Next]_vars => Inv'
<1> SUFFICES ASSUME Inv, [Next]_vars PROVE Inv'
  OBVIOUS
<1>0. TypeOK /\ TypeOK'
  BY TypeStep DEF Inv
<1> DEFINE Others ==
      /\ OwnersKeepTheirLock
      /\ OnlyStaleLocksAreReaped
      /\ ObservedOwnersAreDead
      /\ MarkersAreServing
      /\ ReapersAreMarked
      /\ MarkersAreNotStolen
<1> SUFFICES Others'
  BY <1>0 DEF Inv
<1>a. Others
  BY DEF Inv
<1> USE DEF TypeOK, FilesOrNone, Inodes, Nonces, Inode, Goto, Leave, Advance,
            UnchangedFiles, Steps, Owning, Reaping, Marking,
            OwnersKeepTheirLock, OnlyStaleLocksAreReaped,
            ObservedOwnersAreDead, MarkersAreServing, ReapersAreMarked,
            MarkersAreNotStolen, Dead, OwnsLockFile, OwnNonce, Target, Nonce
<1>1. CASE UNCHANGED vars
  BY <1>0, <1>1, <1>a DEF vars
<1>2. CASE Next
  <2> PICK p \in Processes :
        AcquireStateLock(p) \/ Step(p) \/ Release(p) \/ Crash(p)
    BY <1>2 DEF Next
  <2>t. pc[p] \in Reaping => Target(p) \in Nonces
    BY <1>0
  <2>1. CASE AcquireStateLock(p)
    BY <1>0, <1>a, <2>1 DEF AcquireStateLock
  <2>2. CASE LinkLock(p)
    BY <1>0, <1>a, <2>2 DEF LinkLock
  <2>3. CASE SyncPublication(p)
    BY <1>0, <1>a, <2>3 DEF SyncPublication, Sync
  <2>4. CASE ReadOwnLock(p)
    BY <1>0, <1>a, <2>4 DEF ReadOwnLock
  <2>5. CASE UnlinkOwnLock(p)
    BY <1>0, <1>a, <2>5 DEF UnlinkOwnLock
  <2>6. CASE ObserveLock(p)
    BY <1>0, <1>a, <2>6 DEF ObserveLock, Retry
  <2>7. CASE JudgeOwner(p)
    BY <1>0, <1>a, <2>7 DEF JudgeOwner, ProcessStillOwnsLock
  <2>8. CASE LinkMarker(p)
    <3>1. CASE marker[Target(p)] = None
      <4>1. /\ marker' = [marker EXCEPT ![Target(p)] = Inode(p)]
            /\ pc' = [pc EXCEPT ![p] = "marked"]
            /\ pc[p] = "mark"
            /\ UNCHANGED <<lock, call, attempt, seen, seen_marker>>
        BY <2>8, <3>1 DEF LinkMarker, SetMarker
      <4>2. Inode(p) # None
        BY <1>0, <4>1
      <4>3. OwnersKeepTheirLock' /\ OnlyStaleLocksAreReaped'
        BY <1>0, <1>a, <4>1
      <4>4. ObservedOwnersAreDead' /\ MarkersAreNotStolen'
        BY <1>0, <1>a, <4>1
      <4>5. MarkersAreServing'
        BY <1>0, <1>a, <2>t, <4>1, <4>2
      <4>6. ReapersAreMarked'
        BY <1>0, <1>a, <2>t, <3>1, <4>1
      <4> QED
        BY <4>3, <4>4, <4>5, <4>6
    <3>2. CASE marker[Target(p)] # None
      BY <1>0, <1>a, <2>8, <3>2, SMTT(30) DEF LinkMarker
    <3> QED
      BY <3>1, <3>2
  <2>9. CASE SyncMarker(p)
    BY <1>0, <1>a, <2>9, SMTT(30) DEF SyncMarker, Sync
  <2>10. CASE ObserveMarker(p)
    BY <1>0, <1>a, <2>10, <2>t, SMTT(30) DEF ObserveMarker, Retry
  <2>11. CASE JudgeMarker(p)
    BY <1>0, <1>a, <2>11 DEF JudgeMarker, ProcessStillOwnsLock
  <2>12. CASE CompareMarker(p)
    BY <1>0, <1>a, <2>12 DEF CompareMarker, Retry
  <2>13. CASE UnlinkMarker(p)
    BY <1>0, <1>a, <2>13, <2>t DEF UnlinkMarker
  <2>14. CASE CompareLock(p)
    BY <1>0, <1>a, <2>14 DEF CompareLock
  <2>15. CASE Reap(p)
    <3>1. /\ lock = seen[p]
          /\ lock.by \in Dead
          /\ marker[Target(p)] = Inode(p)
      BY <1>a, <2>15 DEF Reap
    <3>2. \A q \in Processes : pc[q] \notin Owning
      BY <1>0, <1>a, <3>1
    <3>3. ASSUME NEW q \in Processes, pc[q] = "reap" PROVE q = p
      <4>1. Target(q) = Target(p)
        BY <1>a, <3>1, <3>3
      <4>2. marker[Target(q)] = Inode(q)
        BY <1>a, <3>3
      <4> QED
        BY <3>1, <4>1, <4>2
    <3> QED
      BY <1>0, <1>a, <2>15, <3>2, <3>3 DEF Reap
  <2>16. CASE ReadOwnMarker(p)
    BY <1>0, <1>a, <2>16 DEF ReadOwnMarker, Retry
  <2>17. CASE UnlinkOwnMarker(p)
    <3>1. /\ pc[p] = "unmark_unlink"
          /\ marker' = [marker EXCEPT ![Target(p)] = None]
          /\ pc' \in {[pc EXCEPT ![p] = "link"], [pc EXCEPT ![p] = "idle"]}
          /\ \/ UNCHANGED attempt
             \/ attempt' = [attempt EXCEPT ![p] = attempt[p] + 1]
          /\ UNCHANGED <<lock, call, seen, seen_marker>>
      BY <2>17 DEF UnlinkOwnMarker, SetMarker, Retry
    <3>2. marker[Target(p)] = Inode(p)
      BY <1>a, <3>1
    <3>3. ASSUME NEW q \in Processes, q # p, pc[q] \in Marking
          PROVE  Target(q) # Target(p)
      <4>1. marker[Target(q)] = Inode(q)
        BY <1>a, <3>3
      <4> QED
        BY <3>2, <3>3, <4>1
    <3>4. OwnersKeepTheirLock' /\ OnlyStaleLocksAreReaped'
      BY <1>0, <1>a, <3>1
    <3>5. ObservedOwnersAreDead' /\ MarkersAreNotStolen'
      BY <1>0, <1>a, <3>1
    <3>6. MarkersAreServing'
      BY <1>0, <1>a, <2>t, <3>1, <3>2
    <3>7. ReapersAreMarked'
      BY <1>0, <1>a, <2>t, <3>1, <3>3
    <3> QED
      BY <3>4, <3>5, <3>6, <3>7
  <2>18. CASE Release(p)
    BY <1>0, <1>a, <2>18 DEF Release
  <2>19. CASE Crash(p)
    BY <1>0, <1>a, <2>19 DEF Crash
  <2> QED
    BY <2>1, <2>2, <2>3, <2>4, <2>5, <2>6, <2>7, <2>8, <2>9, <2>10, <2>11,
       <2>12, <2>13, <2>14, <2>15, <2>16, <2>17, <2>18, <2>19 DEF Step
<1> QED
  BY <1>1, <1>2

\* The inductive invariant: each reaper is alone with its target.
THEOREM Invariant == ASSUME ~ReaperCrashes PROVE Spec => []Inv
  BY InitInv, InvStep, PTL DEF Spec

\* Two processes never both own the state directory (acquireStateLock), if
\* no reaper dies at work.
THEOREM AlwaysExclusive ==
  ASSUME ~ReaperCrashes PROVE Spec => []MutualExclusion
<1>1. Inv => MutualExclusion
  BY DEF Inv, OwnersKeepTheirLock, OwnsLockFile, Nonce, OwnNonce, Owning,
         MutualExclusion
<1> QED
  BY <1>1, Invariant, PTL

\* The lock of a process that has not given it up is never removed or
\* replaced by another one (acquireStateLock), if no reaper dies at work.
THEOREM OwnersAlwaysKeepTheirLock ==
  ASSUME ~ReaperCrashes PROVE Spec => []OwnersKeepTheirLock
<1>1. Inv => OwnersKeepTheirLock
  BY DEF Inv
<1> QED
  BY <1>1, Invariant, PTL

\* A reaper removes exactly the file it found stale (sameFile followed by
\* unlinkSync), if no reaper dies at work.
THEOREM OnlyStaleLocksAreEverReaped ==
  ASSUME ~ReaperCrashes PROVE Spec => []OnlyStaleLocksAreReaped
<1>1. Inv => OnlyStaleLocksAreReaped
  BY DEF Inv
<1> QED
  BY <1>1, Invariant, PTL

=============================================================================
