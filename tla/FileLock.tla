------------------------------ MODULE FileLock ------------------------------
(***************************************************************************)
(* core/fileLock.ts: the lock file that serialises read-modify-writes of   *)
(* the JSON stores, with the store that uses it in its simplest form,      *)
(* StateStore.appendRun.                                                   *)
(*                                                                         *)
(* Clients are concurrent calls of appendRun, spread over processes.  The  *)
(* lock is a file made with open(path, "wx") and filled with its owner's   *)
(* pid in a second step.  A client that finds the file inspects it, and    *)
(* removes it when the recorded process is gone or when the file has no    *)
(* readable record and is old; it then tries to create it again.           *)
(***************************************************************************)
EXTENDS FiniteSets, Naturals

CONSTANTS
  Clients,         \* calls of appendRun
  Procs,           \* operating-system processes
  ProcOf,          \* the process each call runs in
  NoLock,          \* there is no lock file
  Mortal,          \* bound: the processes that may die
  MishapSets       \* the sets of mishaps considered

\* The waiting time may reach timeoutMs; a step on the way to the lock, the write of its
\* record or of the document may fail; so may a read of the document though the file is
\* there, and the close or rm of a lock file; a process may die.
Mishaps == {"timeout", "write", "read", "remove", "crash"}

ASSUME ProcOfType == ProcOf \in [Clients -> Procs]
ASSUME NoLockType == NoLock \notin [owner : Clients, record : {"missing", "overdue", "written"}]
ASSUME BoundsType ==
  Mortal \subseteq Procs /\ MishapSets \subseteq SUBSET Mishaps

VARIABLES
  lock,    \* the lock file: who created it, and whether its record is written,
           \* missing, or overdue (malformedStaleAfterMs after the creation)
  alive,   \* the processes that run
  doc,     \* the runs held by the document on disk
  pc,      \* where each call is
  buf,     \* the runs each call loaded
  mishaps  \* what may go wrong in this behaviour

vars == <<lock, alive, doc, pc, buf, mishaps>>

Locks == [owner : Clients, record : {"missing", "overdue", "written"}]

\* The calls between a successful open(path, "wx") and the rm of release().
HolderPcs == {"write", "load", "save", "release", "abort"}
EndPcs    == {"resolved", "rejected", "dead"}
Pcs       == {"idle", "open", "inspect", "reclaim", "wait"} \cup HolderPcs \cup EndPcs

Holders == {c \in Clients : pc[c] \in HolderPcs}
AllAlive == alive = Procs

\* A record may be cut short by an error and its file not be removed: it then looks
\* abandoned although its owner lives, like a file left behind by a death.
Orphans == {"write", "remove"} \subseteq mishaps
-----------------------------------------------------------------------------
TypeOK ==
  /\ lock \in Locks \cup {NoLock}
  /\ alive \in SUBSET Procs
  /\ doc \in SUBSET Clients
  /\ pc \in [Clients -> Pcs]
  /\ buf \in [Clients -> SUBSET Clients]
  /\ mishaps \in MishapSets

Init ==
  /\ lock = NoLock
  /\ alive = Procs
  /\ doc = {}
  /\ pc = [c \in Clients |-> "idle"]
  /\ buf = [c \in Clients |-> {}]
  /\ mishaps \in MishapSets

Goto(c, l) == pc' = [pc EXCEPT ![c] = l]
-----------------------------------------------------------------------------
\* appendRun is called, and goes for the lock.
Begin(c) ==
  /\ pc[c] = "idle"
  /\ Goto(c, "open")
  /\ UNCHANGED <<lock, alive, doc, buf, mishaps>>

\* Mutant: the lock file is opened with "w", which truncates one that exists.
CreateLockAnyway(c) ==
  /\ pc[c] = "open"
  /\ lock' = [owner |-> c, record |-> "missing"]
  /\ Goto(c, "write")
  /\ UNCHANGED <<alive, doc, buf, mishaps>>

\* open(lockPath, "wx") creates the file: it is empty until the record is written.
CreateLock(c) ==
  /\ pc[c] = "open"
  /\ lock = NoLock
  /\ lock' = [owner |-> c, record |-> "missing"]
  /\ Goto(c, "write")
  /\ UNCHANGED <<alive, doc, buf, mishaps>>

\* open(lockPath, "wx") fails with EEXIST.
FindLock(c) ==
  /\ pc[c] = "open"
  /\ lock # NoLock
  /\ Goto(c, "inspect")
  /\ UNCHANGED <<lock, alive, doc, buf, mishaps>>

\* Mutant: only part of the record is written.
WritePartOfRecord(c) ==
  /\ pc[c] = "write"
  /\ lock' = IF lock # NoLock /\ lock.owner = c
               THEN [owner |-> c, record |-> "partial"] ELSE lock
  /\ Goto(c, "load")
  /\ UNCHANGED <<alive, doc, buf, mishaps>>

\* The record goes to the file this call opened, which is the one at lockPath
\* unless someone has removed that in the meantime.
WriteRecord(c) ==
  /\ pc[c] = "write"
  /\ lock' = IF lock # NoLock /\ lock.owner = c
               THEN [owner |-> c, record |-> "written"] ELSE lock
  /\ Goto(c, "load")
  /\ UNCHANGED <<alive, doc, buf, mishaps>>

\* The write of the record fails: the lock path is removed, unless that fails as well,
\* and the call rejects, or goes on as if the lock were taken when the error it ends
\* with is EPERM or EACCES.
FailRecord(c) ==
  /\ "write" \in mishaps
  /\ pc[c] = "write"
  /\ lock' = NoLock \/ ("remove" \in mishaps /\ lock' = lock)
  /\ \E l \in {"rejected", "inspect"} : Goto(c, l)
  /\ UNCHANGED <<alive, doc, buf, mishaps>>

\* The directory cannot be made, or the lock file not be opened or inspected: the call
\* rejects; an open that ends in EPERM or EACCES is taken for a lock that is there.
FailAccess(c) ==
  /\ "write" \in mishaps
  /\ pc[c] \in {"open", "inspect"}
  /\ Goto(c, "rejected") \/ (pc[c] = "open" /\ Goto(c, "inspect"))
  /\ UNCHANGED <<lock, alive, doc, buf, mishaps>>

\* A process the operating system no longer knows, by the pid in the record.
OwnerGone == lock # NoLock /\ lock.record = "written" /\ ProcOf[lock.owner] \notin alive

\* Mutants: a file without a record is reclaimed at once, or never.
AbandonedAtOnce == lock # NoLock /\ lock.record # "written"
NeverAbandoned  == FALSE

Abandoned == lock # NoLock /\ lock.record = "overdue"

\* inspectFileLock, and the decision taken on what it saw.
InspectStale(c) ==
  /\ pc[c] = "inspect"
  /\ OwnerGone \/ Abandoned
  /\ Goto(c, "reclaim")
  /\ UNCHANGED <<lock, alive, doc, buf, mishaps>>

InspectHeld(c) ==
  /\ pc[c] = "inspect"
  /\ ~(OwnerGone \/ Abandoned)
  /\ Goto(c, "wait")
  /\ UNCHANGED <<lock, alive, doc, buf, mishaps>>

\* Mutant: the waiting time is only looked at when the lock is stale.
TimeOutOnStale(c) ==
  /\ "timeout" \in mishaps
  /\ pc[c] = "inspect"
  /\ OwnerGone \/ Abandoned
  /\ Goto(c, "rejected")
  /\ UNCHANGED <<lock, alive, doc, buf, mishaps>>

\* The lock is held and the call has waited for timeoutMs since it began.
TimeOut(c) ==
  /\ "timeout" \in mishaps
  /\ pc[c] = "inspect"
  /\ ~(OwnerGone \/ Abandoned)
  /\ Goto(c, "rejected")
  /\ UNCHANGED <<lock, alive, doc, buf, mishaps>>

\* rm(lockPath, { force: true }): removes whatever file is there by now.
Reclaim(c) ==
  /\ pc[c] = "reclaim"
  /\ lock' = NoLock
  /\ Goto(c, "open")
  /\ UNCHANGED <<alive, doc, buf, mishaps>>

FailReclaim(c) ==
  /\ "remove" \in mishaps
  /\ pc[c] = "reclaim"
  /\ Goto(c, "rejected")
  /\ UNCHANGED <<lock, alive, doc, buf, mishaps>>

Poll(c) ==
  /\ pc[c] = "wait"
  /\ Goto(c, "open")
  /\ UNCHANGED <<lock, alive, doc, buf, mishaps>>

\* The operation under the lock: load, push and save atomically by rename.
Load(c) ==
  /\ pc[c] = "load"
  /\ buf' = [buf EXCEPT ![c] = doc]
  /\ Goto(c, "save")
  /\ UNCHANGED <<lock, alive, doc, mishaps>>

\* load() takes every failure to read or parse for a document that is not there yet.
Misload(c) ==
  /\ "read" \in mishaps
  /\ pc[c] = "load"
  /\ buf' = [buf EXCEPT ![c] = {}]
  /\ Goto(c, "save")
  /\ UNCHANGED <<lock, alive, doc, mishaps>>

Save(c) ==
  /\ pc[c] = "save"
  /\ doc' = buf[c] \cup {c}
  /\ Goto(c, "release")
  /\ UNCHANGED <<lock, alive, buf, mishaps>>

\* Mutant: the document is written in place, and the write that fails empties it.
TruncateOnFail(c) ==
  /\ "write" \in mishaps
  /\ pc[c] = "save"
  /\ doc' = {}
  /\ Goto(c, "abort")
  /\ UNCHANGED <<lock, alive, buf, mishaps>>

\* The rename keeps failing, or fails for good: the temporary file is removed.
FailSave(c) ==
  /\ "write" \in mishaps
  /\ pc[c] = "save"
  /\ Goto(c, "abort")
  /\ UNCHANGED <<lock, alive, doc, buf, mishaps>>

\* finally { await lock.release() }: removes lockPath whoever created it.
Release(c) ==
  /\ pc[c] \in {"release", "abort"}
  /\ lock' = NoLock
  /\ Goto(c, IF pc[c] = "release" THEN "resolved" ELSE "rejected")
  /\ UNCHANGED <<alive, doc, buf, mishaps>>

\* The handle cannot be closed or the file not be removed: finally rejects what the
\* operation may have saved, and the lock of a living process stays.
FailRelease(c) ==
  /\ "remove" \in mishaps
  /\ pc[c] \in {"release", "abort"}
  /\ Goto(c, "rejected")
  /\ UNCHANGED <<lock, alive, doc, buf, mishaps>>
-----------------------------------------------------------------------------
\* Time passes over a file without a record.  A live owner writes the record
\* well before malformedStaleAfterMs, a minute after creating the file.
Age ==
  /\ lock # NoLock /\ lock.record = "missing"
  /\ ProcOf[lock.owner] \notin alive \/ pc[lock.owner] # "write"
  /\ lock' = [lock EXCEPT !.record = "overdue"]
  /\ UNCHANGED <<alive, doc, pc, buf, mishaps>>

\* A process dies between any two steps; its calls end with it, its lock file stays.
Crash(p) ==
  /\ "crash" \in mishaps /\ p \in alive \cap Mortal
  /\ alive' = alive \ {p}
  /\ pc' = [c \in Clients |-> IF ProcOf[c] = p /\ pc[c] \notin EndPcs THEN "dead" ELSE pc[c]]
  /\ UNCHANGED <<lock, doc, buf, mishaps>>

Acquire(c) ==
  \/ Begin(c) \/ CreateLock(c) \/ FindLock(c) \/ WriteRecord(c)
  \/ InspectStale(c) \/ InspectHeld(c) \/ Reclaim(c) \/ Poll(c)

Operate(c) == Load(c) \/ Misload(c) \/ Save(c) \/ Release(c)

Fail(c) ==
  FailAccess(c) \/ FailRecord(c) \/ FailReclaim(c) \/ FailSave(c) \/ FailRelease(c)

Step(c) == Acquire(c) \/ Operate(c) \/ TimeOut(c) \/ Fail(c)

Next ==
  \/ \E c \in Clients : Step(c)
  \/ \E p \in Procs : Crash(p)
  \/ Age

Spec == Init /\ [][Next]_vars

\* The event loop runs every pending continuation; the clock advances, so a file
\* ages, and a call that keeps looking at a held lock has waited long enough.
Fairness ==
  /\ \A c \in Clients : WF_vars(Step(c)) /\ SF_vars(TimeOut(c))
  /\ WF_vars(Age)
FairSpec == Spec /\ Fairness
-----------------------------------------------------------------------------
\* While no process has died and no record was cut short and left there, at most one
\* call is between creating the lock and releasing it: nobody reclaims a lock that is
\* in use, not even in the window where its record is not yet written, and a lock that
\* could not be released keeps everyone out.
MutualExclusion ==
  AllAlive /\ ~Orphans => \A c, d \in Holders : c = d

\* In the same case, if the document can be read, a run whose append resolved is never
\* overwritten by a call that loaded the document before it was saved.
NoLostAppend ==
  AllAlive /\ ~Orphans /\ "read" \notin mishaps =>
    \A c \in Clients : pc[c] = "resolved" => c \in doc

\* Every surviving caller gets an answer: a lock left behind by a dead process,
\* with or without its record, does not block the others.
SurvivorsFinish ==
  \A c \in Clients : pc[c] = "open" ~> pc[c] \in EndPcs

\* The same without the way out of a timeout: unless the file system failed, the append
\* of a surviving caller is carried out.
SurvivorsResolve ==
  \A c \in Clients :
    pc[c] = "open" /\ mishaps \cap {"timeout", "write", "remove"} = {}
      ~> pc[c] \in {"resolved", "dead"}

\* The same whatever has died: an append that resolved is in the document.
NoLostAppendEver == \A c \in Clients : pc[c] = "resolved" => c \in doc

\* Seen from the callers, the locked append is the atomic one, but for the faults its
\* module names.
Outcome(c) == IF pc[c] \in EndPcs THEN pc[c] ELSE "pending"
Faults == (mishaps \cap {"read", "remove"}) \cup (IF Orphans THEN {"lock"} ELSE {})
Atomic == INSTANCE AtomicAppend WITH
  outcome <- [c \in Clients |-> Outcome(c)], faults <- Faults
RefinesAtomicAppend == Atomic!ASpec
=============================================================================
