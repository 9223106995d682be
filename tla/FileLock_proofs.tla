--------------------------- MODULE FileLock_proofs ---------------------------
(***************************************************************************)
(* Proofs about the lock file of core/fileLock.ts, for any number of calls *)
(* spread in any way over any processes.                                   *)
(***************************************************************************)
EXTENDS FileLock, TLAPS

\* Every variable of the lock and of the store keeps its type: the lock file has
\* one owner, calls only take the steps of withFileLock.
THEOREM Typing == Spec => []TypeOK
<1>1. Init => TypeOK
  BY DEF Init, TypeOK, Pcs
<1>2. TypeOK /\ [Next]_vars => TypeOK'
  <2> SUFFICES ASSUME TypeOK, [Next]_vars PROVE TypeOK'
    OBVIOUS
  <2> USE DEF TypeOK, Pcs, HolderPcs, EndPcs, Locks, Goto
  <2>1. ASSUME NEW c \in Clients, Step(c) PROVE TypeOK'
    <3>1. CASE Acquire(c)
      BY <3>1 DEF Acquire, Begin, CreateLock, FindLock, WriteRecord,
                  InspectStale, InspectHeld, Reclaim, Poll
    <3>2. CASE Operate(c)
      BY <3>2 DEF Operate, Load, Misload, Save, Release
    <3>3. CASE TimeOut(c) \/ Fail(c)
      BY <3>3 DEF TimeOut, Fail, FailAccess, FailRecord, FailReclaim, FailSave, FailRelease
    <3> QED BY <2>1, <3>1, <3>2, <3>3 DEF Step
  <2>2. ASSUME NEW p \in Procs, Crash(p) PROVE TypeOK'
    BY <2>2 DEF Crash
  <2>3. CASE Age
    BY <2>3 DEF Age
  <2>4. CASE UNCHANGED vars
    BY <2>4 DEF vars
  <2> QED BY <2>1, <2>2, <2>3, <2>4 DEF Next
<1> QED BY <1>1, <1>2, PTL DEF Spec
-----------------------------------------------------------------------------
(***************************************************************************)
(* Why the lock excludes: as long as no process has died and no record was *)
(* left cut short, only the call that created the file on disk is between  *)
(* creating and releasing it.  The record is missing just while that call  *)
(* is writing it, so it never becomes old, and nobody sees a reason to     *)
(* reclaim the file, not even when its creator could not release it.       *)
(***************************************************************************)
HeldByOwner ==
  lock # NoLock => /\ \A c \in Clients : pc[c] \in HolderPcs => c = lock.owner
                   /\ lock.record = IF pc[lock.owner] = "write" THEN "missing" ELSE "written"

FreeMeansNoHolder == lock = NoLock => \A c \in Clients : pc[c] \notin HolderPcs

NoReclaim == \A c \in Clients : pc[c] # "reclaim"

BufferCurrent == "read" \notin mishaps => \A c \in Clients : pc[c] = "save" => buf[c] = doc

SavedRuns ==
  "read" \notin mishaps => \A c \in Clients : pc[c] \in {"release", "resolved"} => c \in doc

IInv ==
  AllAlive /\ ~Orphans =>
    HeldByOwner /\ FreeMeansNoHolder /\ NoReclaim /\ BufferCurrent /\ SavedRuns

\* The absent lock file is not a lock file.
LEMMA NoLockIsNoRecord == NoLock \notin Locks
BY NoLockType DEF Locks

\* The invariant holds at the start: nobody holds a lock that is not there.
LEMMA InitIInv == Init => IInv
BY DEF Init, IInv, HeldByOwner, FreeMeansNoHolder, NoReclaim, BufferCurrent, SavedRuns, HolderPcs

\* Each step of a call, of which only the holder's touch the file, keeps it.
LEMMA StepIInv == ASSUME TypeOK, IInv, NEW c \in Clients, Step(c) PROVE IInv'
<1> SUFFICES ASSUME AllAlive', ~Orphans' PROVE (HeldByOwner /\ FreeMeansNoHolder /\ NoReclaim
                                                 /\ BufferCurrent /\ SavedRuns)'
  BY DEF IInv
<1>0. AllAlive /\ UNCHANGED mishaps
  BY DEF AllAlive, Step, Acquire, Operate, Begin, CreateLock, FindLock, WriteRecord,
         InspectStale, InspectHeld, Reclaim, Poll, Load, Misload, Save, Release, TimeOut,
         Fail, FailAccess, FailRecord, FailReclaim, FailSave, FailRelease
<1>a. HeldByOwner /\ FreeMeansNoHolder /\ NoReclaim /\ BufferCurrent /\ SavedRuns
  BY <1>0 DEF IInv, Orphans
<1>b. NoLock \notin Locks
  BY NoLockIsNoRecord
<1> USE <1>a, <1>b DEF TypeOK, Pcs, HolderPcs, EndPcs, Locks, Goto,
        HeldByOwner, FreeMeansNoHolder, NoReclaim, BufferCurrent, SavedRuns
<1>1. CASE Begin(c) \/ FindLock(c) \/ Poll(c)
  BY <1>1 DEF Begin, FindLock, Poll
<1>2. CASE CreateLock(c)
  BY <1>2 DEF CreateLock
<1>3. CASE WriteRecord(c)
  BY <1>3 DEF WriteRecord
<1>4. CASE InspectStale(c)
  \* The owner lives, and its file is not old: there is nothing stale to see.
  <2>1. lock # NoLock => ProcOf[lock.owner] \in alive
    BY <1>0, ProcOfType DEF AllAlive
  <2> QED BY <1>4, <2>1 DEF InspectStale, OwnerGone, Abandoned
<1>5. CASE InspectHeld(c) \/ TimeOut(c)
  BY <1>5 DEF InspectHeld, TimeOut
<1>6. CASE Reclaim(c) \/ FailReclaim(c)
  BY <1>6 DEF Reclaim, FailReclaim
<1>7. CASE Load(c)
  BY <1>7 DEF Load
<1>8. CASE Misload(c)
  BY <1>8 DEF Misload
<1>9. CASE Save(c)
  BY <1>9 DEF Save
<1>10. CASE Release(c)
  BY <1>10 DEF Release
<1>11. CASE FailRecord(c)
  \* Where a write may fail, the file is removed.
  <2>1. lock' = NoLock
    BY <1>0, <1>11 DEF FailRecord, Orphans
  <2> QED BY <1>11, <2>1 DEF FailRecord
<1>12. CASE FailSave(c)
  BY <1>12 DEF FailSave
<1>13. CASE FailAccess(c)
  BY <1>13 DEF FailAccess
<1>14. CASE FailRelease(c)
  BY <1>14 DEF FailRelease
<1> QED
  BY <1>1, <1>2, <1>3, <1>4, <1>5, <1>6, <1>7, <1>8, <1>9, <1>10, <1>11, <1>12, <1>13, <1>14
     DEF Step, Acquire, Operate, Fail

\* So does every step; a death makes the invariant say nothing more.
LEMMA NextIInv == TypeOK /\ IInv /\ [Next]_vars => IInv'
<1> SUFFICES ASSUME TypeOK, IInv, [Next]_vars PROVE IInv'
  OBVIOUS
<1>1. ASSUME NEW c \in Clients, Step(c) PROVE IInv'
  BY <1>1, StepIInv
<1>2. ASSUME NEW p \in Procs, Crash(p) PROVE IInv'
  BY <1>2 DEF Crash, IInv, AllAlive
<1>3. CASE Age
  \* A live owner of a file without a record is still writing it.
  BY <1>3, ProcOfType, NoLockIsNoRecord
     DEF Age, IInv, AllAlive, Orphans, TypeOK, Locks, HeldByOwner, FreeMeansNoHolder,
         NoReclaim, BufferCurrent, SavedRuns
<1>4. CASE UNCHANGED vars
  BY <1>4 DEF vars, IInv, AllAlive, Orphans, HeldByOwner, FreeMeansNoHolder, NoReclaim,
              BufferCurrent, SavedRuns
<1> QED BY <1>1, <1>2, <1>3, <1>4 DEF Next

\* The invariant holds of every state of withFileLock.
THEOREM Inductive == Spec => []IInv
BY Typing, InitIInv, NextIInv, PTL DEF Spec

\* While every process lives and no record was left cut short, two calls are never
\* between the creation of the lock file and its release, however long calls wait and
\* whichever releases fail.
THEOREM Exclusion == Spec => []MutualExclusion
<1>1. IInv => MutualExclusion
  BY DEF IInv, MutualExclusion, HeldByOwner, FreeMeansNoHolder, Holders
<1> QED BY <1>1, Inductive, PTL

\* In that case, and if the document can be read, appendRun never resolves and then
\* loses its run to a concurrent appendRun.
THEOREM Durability == Spec => []NoLostAppend
<1>1. IInv => NoLostAppend
  BY DEF IInv, NoLostAppend, SavedRuns
<1> QED BY <1>1, Inductive, PTL
-----------------------------------------------------------------------------
(***************************************************************************)
(* The atomic append.  Where a death can leave two callers, both may judge *)
(* the same file stale, and the second removes the lock the first has made *)
(* (run lock_reclaim_race): the refinement does not hold.  It holds where  *)
(* nobody dies, and where whoever dies leaves at most one caller.          *)
(***************************************************************************)
LoneSurvivor ==
  \A p \in Mortal : \A c, d \in Clients : ProcOf[c] # p /\ ProcOf[d] # p => c = d

Alone == AllAlive \/ \A c, d \in Clients : pc[c] \notin EndPcs /\ pc[d] \notin EndPcs => c = d

\* What a call is about to save is the document as it stands with its run, or was misread.
Loaded ==
  \A c \in Clients :
    pc[c] = "save" => buf[c] = doc \/ ("read" \in mishaps /\ buf[c] = {})

\* A call has its run in the document from its save to its release.
Saved == \A c \in Clients : pc[c] = "release" => c \in doc

\* Only a call that has saved has its run in the document, or in what others loaded: its
\* append is not to come, and was not given up, unless it failed to give the lock back.
SavedPcs == {"release", "resolved", "dead"} \cup (IF "remove" \in mishaps THEN {"rejected"} ELSE {})
Unsaved ==
  \A c \in Clients :
    c \in doc \/ (\E d \in Clients : c \in buf[d]) => pc[c] \in SavedPcs

SInv == Alone /\ (Orphans \/ (Loaded /\ Saved)) /\ Unsaved

\* The lock excludes, by the ownership of its file or for want of another caller.
LEMMA OneHolder ==
  ASSUME TypeOK, IInv, Alone, ~Orphans
  PROVE  \A c, d \in Holders : c = d
<1>1. CASE AllAlive
  BY <1>1 DEF IInv, HeldByOwner, FreeMeansNoHolder, Holders
<1>2. CASE ~AllAlive
  BY <1>2 DEF Alone, Holders, HolderPcs, EndPcs
<1> QED BY <1>1, <1>2

\* Nobody has begun at the start.
LEMMA InitSInv == Init => SInv
BY DEF Init, SInv, Alone, AllAlive, Loaded, Saved, Unsaved

\* A step of a call is its own, and no process dies of it.
LEMMA OwnStep ==
  ASSUME TypeOK, NEW c \in Clients, Step(c)
  PROVE  /\ UNCHANGED <<alive, mishaps>> /\ pc[c] \notin EndPcs
         /\ \A d \in Clients \ {c} : pc'[d] = pc[d]
BY DEF Step, Acquire, Operate, Begin, CreateLock, FindLock, WriteRecord, InspectStale,
       InspectHeld, Reclaim, Poll, Load, Misload, Save, Release, TimeOut, Fail, FailAccess,
       FailRecord, FailReclaim, FailSave, FailRelease, Goto, TypeOK, EndPcs

\* What a call loaded is still the document when it saves it: it is the only one to save.
LEMMA StepLoaded ==
  ASSUME TypeOK, IInv, SInv, ~Orphans, NEW c \in Clients, Step(c)
  PROVE  (Loaded /\ Saved)'
<1>1. \A d, e \in Holders : d = e
  BY OneHolder DEF SInv
<1>2. Loaded /\ Saved
  BY DEF SInv
<1> USE <1>1, <1>2 DEF TypeOK, Holders, HolderPcs, Goto, Loaded, Saved
<1>3. CASE Acquire(c)
  BY <1>3 DEF Acquire, Begin, CreateLock, FindLock, WriteRecord, InspectStale, InspectHeld,
     Reclaim, Poll
<1>4. CASE Load(c) \/ Misload(c)
  BY <1>4 DEF Load, Misload
<1>5. CASE Save(c)
  BY <1>5 DEF Save
<1>6. CASE Release(c)
  BY <1>6 DEF Release
<1>7. CASE TimeOut(c) \/ Fail(c)
  BY <1>7 DEF TimeOut, Fail, FailAccess, FailRecord, FailReclaim, FailSave, FailRelease
<1> QED BY <1>3, <1>4, <1>5, <1>6, <1>7 DEF Step, Operate

\* A call's run is only found where that call has saved, whatever the lock does.
LEMMA StepUnsaved ==
  ASSUME TypeOK, Unsaved, NEW c \in Clients, Step(c)
  PROVE  Unsaved'
<1>1. UNCHANGED mishaps
  BY OwnStep
<1> USE <1>1 DEF TypeOK, Goto, Unsaved, SavedPcs
<1>2. CASE Acquire(c)
  BY <1>2 DEF Acquire, Begin, CreateLock, FindLock, WriteRecord, InspectStale, InspectHeld,
     Reclaim, Poll
<1>3. CASE Load(c) \/ Misload(c)
  BY <1>3 DEF Load, Misload
<1>4. CASE Save(c)
  BY <1>4 DEF Save
<1>5. CASE Release(c) \/ FailRelease(c)
  BY <1>5 DEF Release, FailRelease
<1>6. CASE TimeOut(c) \/ FailAccess(c) \/ FailRecord(c) \/ FailReclaim(c) \/ FailSave(c)
  BY <1>6 DEF TimeOut, FailAccess, FailRecord, FailReclaim, FailSave
<1> QED BY <1>2, <1>3, <1>4, <1>5, <1>6 DEF Step, Operate, Fail

\* A death leaves at most one caller, and what was saved.
LEMMA NextSInv ==
  ASSUME LoneSurvivor, TypeOK, IInv, SInv, [Next]_vars
  PROVE  SInv'
<1>1. ASSUME NEW c \in Clients, Step(c) PROVE SInv'
  <2>1. Alone'
    BY <1>1, OwnStep DEF SInv, Alone, AllAlive
  <2>2. (Orphans \/ (Loaded /\ Saved))'
    <3>1. CASE Orphans
      BY <1>1, <3>1, OwnStep DEF Orphans
    <3>2. CASE ~Orphans
      BY <1>1, <3>2, StepLoaded
    <3> QED BY <3>1, <3>2
  <2>3. Unsaved'
    BY <1>1, StepUnsaved DEF SInv
  <2> QED BY <2>1, <2>2, <2>3 DEF SInv
<1>2. ASSUME NEW p \in Procs, Crash(p) PROVE SInv'
  <2>1. Alone'
    BY <1>2, ProcOfType DEF Crash, LoneSurvivor, Alone, EndPcs
  <2>2. (Orphans \/ (Loaded /\ Saved))'
    BY <1>2 DEF Crash, SInv, Orphans, Loaded, Saved
  <2>3. Unsaved'
    BY <1>2 DEF Crash, SInv, Unsaved, SavedPcs
  <2> QED BY <2>1, <2>2, <2>3 DEF SInv
<1>3. CASE Age \/ UNCHANGED vars
  BY <1>3 DEF Age, vars, SInv, Alone, AllAlive, Orphans, Loaded, Saved, Unsaved, SavedPcs
<1> QED BY <1>1, <1>2, <1>3 DEF Next

\* Each step of a call is a step of its atomic append, or none.
LEMMA StepRefines ==
  ASSUME TypeOK, SInv, NEW c \in Clients, Step(c)
  PROVE  [Atomic!ANext]_(Atomic!avars)
<1> DEFINE outcome == [d \in Clients |-> Outcome(d)]
<1>1. /\ UNCHANGED Faults /\ outcome[c] = "pending"
      /\ outcome' = [outcome EXCEPT ![c] = IF pc'[c] \in EndPcs THEN pc'[c] ELSE "pending"]
  BY OwnStep DEF Outcome, Faults, Orphans
<1>2. /\ "read" \in Faults <=> "read" \in mishaps
      /\ "remove" \in Faults <=> "remove" \in mishaps
      /\ "lock" \in Faults <=> Orphans
  BY DEF Faults
<1>3. ASSUME doc' = doc, pc'[c] \notin EndPcs PROVE UNCHANGED Atomic!avars
  <2>1. outcome' = outcome BY <1>1, <1>3
  <2> QED BY <1>1, <1>3, <2>1 DEF Atomic!avars
<1>4. ASSUME doc' = doc, pc'[c] = "rejected", c \notin doc \/ "remove" \in mishaps
      PROVE  Atomic!Reject(c)
  BY <1>1, <1>2, <1>4 DEF Atomic!Reject, EndPcs
<1>5. c \in doc => pc[c] \in SavedPcs
  BY DEF SInv, Unsaved
<1>6. CASE Acquire(c)
  BY <1>6, <1>3 DEF Acquire, Begin, CreateLock, FindLock, WriteRecord, InspectStale,
     InspectHeld, Reclaim, Poll, Goto, TypeOK, EndPcs
<1>7. CASE Load(c) \/ Misload(c) \/ FailSave(c)
  BY <1>7, <1>3 DEF Load, Misload, FailSave, Fail, Goto, TypeOK, EndPcs
<1>8. CASE Save(c)
  <2>1. pc'[c] = "release" /\ outcome' = outcome
    BY <1>1, <1>8 DEF Save, Goto, TypeOK, EndPcs
  <2>2. \/ doc' = doc \cup {c}
        \/ "read" \in mishaps /\ doc' = {c}
        \/ Orphans /\ doc' \in SUBSET Clients /\ c \in doc'
    BY <1>8 DEF Save, SInv, Loaded, TypeOK
  <2>3. c \notin doc BY <1>5, <1>8 DEF Save, SavedPcs
  <2>4. Atomic!AppendAtomically(c)
    BY <1>1, <1>2, <2>1, <2>2, <2>3 DEF Atomic!AppendAtomically
  <2> QED BY <2>4 DEF Atomic!ANext
<1>9. CASE Release(c)
  <2>1. CASE pc[c] = "release"
    <3>1. (c \in doc \/ Orphans) /\ doc' = doc /\ pc'[c] = "resolved"
      BY <1>9, <2>1 DEF Release, Goto, TypeOK, SInv, Saved
    <3>2. Atomic!Resolve(c) BY <1>1, <1>2, <3>1 DEF Atomic!Resolve, EndPcs
    <3> QED BY <3>2 DEF Atomic!ANext
  <2>2. CASE pc[c] = "abort"
    <3>1. c \notin doc /\ doc' = doc /\ pc'[c] = "rejected"
      BY <1>5, <1>9, <2>2 DEF Release, Goto, TypeOK, SavedPcs
    <3> QED BY <1>4, <3>1 DEF Atomic!ANext
  <2> QED BY <1>9, <2>1, <2>2 DEF Release
<1>10. CASE TimeOut(c) \/ FailAccess(c) \/ FailRecord(c)
  <2>1. doc' = doc /\ pc'[c] \in {"rejected", "inspect"} /\ pc[c] \in {"open", "inspect", "write"}
    BY <1>10 DEF TimeOut, FailAccess, FailRecord, Goto, TypeOK
  <2>2. c \notin doc BY <1>5, <2>1 DEF SavedPcs
  <2> QED BY <1>3, <1>4, <2>1, <2>2 DEF Atomic!ANext, EndPcs
<1>11. CASE FailReclaim(c) \/ FailRelease(c)
  <2>1. doc' = doc /\ pc'[c] = "rejected" /\ "remove" \in mishaps
    BY <1>11 DEF FailReclaim, FailRelease, Goto, TypeOK
  <2> QED BY <1>4, <2>1 DEF Atomic!ANext
<1> QED BY <1>6, <1>7, <1>8, <1>9, <1>10, <1>11 DEF Step, Operate, Fail

\* So is each step of the lock and its processes.
LEMMA NextRefines ==
  ASSUME TypeOK, SInv, [Next]_vars
  PROVE  [Atomic!ANext]_(Atomic!avars)
<1>1. ASSUME NEW c \in Clients, Step(c) PROVE [Atomic!ANext]_(Atomic!avars)
  BY <1>1, StepRefines
<1>2. ASSUME NEW p \in Procs, Crash(p) PROVE [Atomic!ANext]_(Atomic!avars)
  <2> DEFINE outcome == [d \in Clients |-> Outcome(d)]
             C == {c \in Clients : ProcOf[c] = p /\ pc[c] \notin EndPcs}
  <2>1. \A c \in C : outcome[c] = "pending" BY DEF Outcome
  <2>2. outcome' = [c \in Clients |-> IF c \in C THEN "dead" ELSE outcome[c]]
    BY <1>2 DEF Crash, Outcome, EndPcs
  <2>3. UNCHANGED <<doc, Faults>> BY <1>2 DEF Crash, Faults, Orphans
  <2>4. Atomic!Die(C) BY <2>1, <2>2, <2>3 DEF Atomic!Die
  <2> QED BY <2>4 DEF Atomic!ANext
<1>3. CASE Age \/ UNCHANGED vars
  BY <1>3 DEF Age, vars, Atomic!avars, Outcome, Faults, Orphans
<1> QED BY <1>1, <1>2, <1>3 DEF Next

\* Where whoever dies leaves at most one caller, appendRun is the atomic append: a
\* read-modify-write under withFileLock is one step to all its callers, resolved means
\* saved, and rejected means the document was left alone.  What the file system can
\* take from this, by failing to read the document, to remove the lock, or both to
\* write and to remove it, are the faults of AtomicAppend.
THEOREM Refinement == LoneSurvivor => (Spec => RefinesAtomicAppend)
<1> SUFFICES ASSUME LoneSurvivor PROVE Spec => RefinesAtomicAppend
  OBVIOUS
<1>1. Init => Atomic!AInit
  BY DEF Init, Atomic!AInit, Outcome, EndPcs, Faults
<1>2. TypeOK /\ IInv /\ SInv /\ [Next]_vars => SInv'
  BY NextSInv
<1>3. TypeOK /\ SInv /\ [Next]_vars => [Atomic!ANext]_(Atomic!avars)
  BY NextRefines
<1> QED BY <1>1, <1>2, <1>3, InitSInv, Typing, Inductive, PTL
        DEF Spec, RefinesAtomicAppend, Atomic!ASpec
=============================================================================
