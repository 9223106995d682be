--------------------- MODULE InterfaceRuntimeLock_proofs ---------------------
(***************************************************************************)
(* At most one interface runtime polls while none has ended: between its   *)
(* creating and removing the lock file, a process is the file's owner, and *)
(* nobody is about to remove the file of another.                          *)
(***************************************************************************)
EXTENDS InterfaceRuntimeLock, TLAPS

Holding == {"write", "undo", "polling", "closing"}
Quiet   == \A p \in Procs : pc[p] \notin Over

\* While nobody has ended: whoever holds the lock made the file, and no one reclaims it.
Owned ==
  \A p \in Procs : (pc[p] \in Holding => lock.by = p) /\ pc[p] # "reclaim"

OInv == TypeOK /\ (Quiet => Owned)

\* Types are kept by every step.
LEMMA TypeStep == TypeOK /\ [Next]_vars => TypeOK'
<1> SUFFICES ASSUME TypeOK, [Next]_vars PROVE TypeOK'
  OBVIOUS
<1> USE DEF TypeOK, Locks, Absent, PCs, Starting
<1>1. ASSUME NEW p \in Procs, Create(p) \/ WriteRecord(p) \/ TimeOut(p) \/ Crash(p)
      PROVE TypeOK'
  BY <1>1 DEF Create, WriteRecord, TimeOut, Crash, Move
<1>2. ASSUME NEW p \in Procs, FindLock(p) \/ FailOpen(p) \/ FailRecord(p) \/ FindOwnerGone(p)
                              \/ Wait(p) \/ FailReclaim(p) \/ Refuse(p) \/ Wake(p) \/ Start(p) \/ Close(p) \/ Exit(p)
      PROVE TypeOK'
  BY <1>2 DEF FindLock, FailOpen, FailRecord, FindOwnerGone, FailReclaim, Wait, Refuse, Wake, Start, Close, Exit,
              Go, Move
<1>3. ASSUME NEW p \in Procs, Reclaim(p) \/ Undo(p) \/ Release(p) PROVE TypeOK'
  BY <1>3 DEF Reclaim, Undo, Release, RemoveLock, Go, Move
<1>4. ASSUME NEW p \in Procs, ReadRecord(p) PROVE TypeOK'
  BY <1>4 DEF ReadRecord, Move
<1>5. CASE UNCHANGED vars
  BY <1>5 DEF vars
<1> QED BY <1>1, <1>2, <1>3, <1>4, <1>5 DEF Next, Step

\* That the file is its maker's is kept as long as nobody ends.
LEMMA OwnedStep == OInv /\ [Next]_vars => (Quiet => Owned)'
<1> SUFFICES ASSUME OInv, [Next]_vars, Quiet' PROVE Owned'
  OBVIOUS
<1> USE DEF OInv, TypeOK, Owned, Quiet, Over, Holding
<1>1. ASSUME NEW p \in Procs, Create(p) PROVE Owned'
  <2>1. Quiet
    BY <1>1 DEF Create, Move
  <2>2. \A q \in Procs : pc[q] \notin Holding
    BY <1>1, <2>1, RuntimeType DEF Create, Absent
  <2> QED BY <1>1, <2>1, <2>2 DEF Create, Move
<1>2. ASSUME NEW p \in Procs, WriteRecord(p) PROVE Owned'
  BY <1>2, RuntimeType DEF WriteRecord, Move, Locks, Absent
<1>3. ASSUME NEW p \in Procs, FindLock(p) \/ FailOpen(p) \/ FailRecord(p) \/ Wait(p) \/ Refuse(p)
                              \/ Wake(p) \/ Start(p) \/ Close(p)
      PROVE Owned'
  BY <1>3 DEF FindLock, FailOpen, FailRecord, Wait, Refuse, Wake, Start, Close, Go, Move
<1>4. ASSUME NEW p \in Procs, FindOwnerGone(p) PROVE FALSE
  <2>1. Quiet
    BY <1>4 DEF FindOwnerGone, Go, Move
  <2> QED BY <1>4, <2>1 DEF FindOwnerGone, OwnerGone
<1>5. ASSUME NEW p \in Procs, Undo(p) \/ Release(p) PROVE Owned'
  <2>1. Quiet /\ pc[p] \in Holding
    BY <1>5 DEF Undo, Release, RemoveLock, Go, Move
  <2>2. \A q \in Procs \ {p} : pc[q] \notin Holding
    BY <2>1
  <2> QED BY <1>5, <2>1, <2>2 DEF Undo, Release, RemoveLock, Go, Move
<1>6. ASSUME NEW p \in Procs, Reclaim(p) \/ FailReclaim(p) PROVE FALSE
  BY <1>6 DEF Reclaim, FailReclaim, RemoveLock, Go, Move
<1>7. ASSUME NEW p \in Procs, Exit(p) \/ Crash(p) PROVE FALSE
  BY <1>7 DEF Exit, Crash, Go, Move
<1>8. ASSUME NEW p \in Procs, ReadRecord(p) \/ TimeOut(p) PROVE Owned'
  BY <1>8 DEF ReadRecord, TimeOut, Move
<1>9. CASE UNCHANGED vars
  BY <1>9 DEF vars
<1> QED BY <1>1, <1>2, <1>3, <1>4, <1>5, <1>6, <1>7, <1>8, <1>9 DEF Next, Step

\* Until a runtime ends, the lock file is that of the one start that made it.
THEOREM Ownership == Spec => []OInv
<1>1. Init => OInv
  BY RuntimeType DEF Init, OInv, TypeOK, Locks, PCs, Starting, Owned, Holding
<1>2. OInv /\ [Next]_vars => OInv'
  BY TypeStep, OwnedStep DEF OInv
<1> QED BY <1>1, <1>2, PTL DEF Spec

\* Every start keeps to the states of acquireInterfaceRuntimeLock and of the runtime, and
\* the lock file is absent, empty or the full record of one process.
THEOREM Typing == Spec => []TypeOK
<1>1. OInv => TypeOK
  BY DEF OInv
<1> QED BY <1>1, Ownership, PTL

\* At most one runtime polls the providers while none has ended, for any number of
\* starts, however they overlap, time out or fail (acquireInterfaceRuntimeLock).
THEOREM SinglePoller == Spec => []OnePoller
<1>1. OInv => OnePoller
  BY DEF OInv, OnePoller, Quiet, Owned, Holding, Polling
<1> QED BY <1>1, Ownership, PTL
=============================================================================
