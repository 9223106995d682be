------------------------ MODULE InterfaceRuntimeLock -------------------------
(***************************************************************************)
(* Interface runtimes starting and stopping on one machine.  Each tries to *)
(* create the lock file before it polls the chat providers; a lock whose   *)
(* owner is gone is removed, and a start that waits too long is refused.   *)
(* A process starts once: a restart is another process.                    *)
(***************************************************************************)
EXTENDS FiniteSets, Naturals

CONSTANTS
  Procs,         \* operating-system processes
  NoProc,        \* the owner of no file, and of one that cannot be read
  Errors,        \* opening, writing and removing the lock file may fail
  MayCrash       \* processes may be killed

ASSUME RuntimeType ==
  NoProc \notin Procs /\ Errors \in BOOLEAN /\ MayCrash \in BOOLEAN

VARIABLES
  pc,      \* of each process
  lock,    \* the file at lockPath: who created it, and whether its record is written
  seen,    \* the owner each start has last read in it
  late     \* the starts whose timeout has passed

vars == <<pc, lock, seen, late>>

Absent == [by |-> NoProc, state |-> "absent"]
Locks == {Absent} \cup [by : Procs, state : {"blank", "full"}]

\* barred: an error like the one for a file that is there.
Starting == {"open", "write", "undo", "barred", "read", "check", "reclaim", "sleep"}
PCs      == Starting \cup {"new", "polling", "closing", "stopped", "refused", "failed",
                          "gone", "dead"}
Over     == {"gone", "dead"}

TypeOK ==
  /\ pc \in [Procs -> PCs] /\ lock \in Locks
  /\ seen \in [Procs -> Procs \cup {NoProc}] /\ late \subseteq Procs

Init ==
  /\ pc = [p \in Procs |-> "new"] /\ lock = Absent
  /\ seen = [p \in Procs |-> NoProc] /\ late = {}
-----------------------------------------------------------------------------
Move(p, from, to) == pc[p] = from /\ pc' = [pc EXCEPT ![p] = to]
Go(p, from, to)   == Move(p, from, to) /\ UNCHANGED <<lock, seen, late>>

Start(p) == Go(p, "new", "open")

\* Mutant: the file's owner is forgotten.
CreateUnowned(p) ==
  /\ lock = Absent /\ Move(p, "open", "write")
  /\ lock' = [by |-> NoProc, state |-> "blank"] /\ UNCHANGED <<seen, late>>

Create(p) ==
  /\ lock = Absent /\ Move(p, "open", "write")
  /\ lock' = [by |-> p, state |-> "blank"] /\ UNCHANGED <<seen, late>>

FindLock(p) == lock # Absent /\ Go(p, "open", "read")

\* The directory cannot be made or the file not be opened: EPERM and EACCES are taken for
\* a file that is there, whatever else ends the start.
FailOpen(p) == Errors /\ \E to \in {"failed", "barred"} : Go(p, "open", to)

\* The handle stays open: a file removed meanwhile is written to no effect.
WriteRecord(p) ==
  /\ Move(p, "write", "polling")
  /\ lock' = IF lock.by = p THEN [lock EXCEPT !.state = "full"] ELSE lock
  /\ UNCHANGED <<seen, late>>

FailRecord(p) == Errors /\ Go(p, "write", "undo")

\* readInterfaceRuntimeLockRecord: a missing or unreadable record has no owner.
ReadRecord(p) ==
  /\ Move(p, "read", "check") \/ Move(p, "barred", "check")
  /\ seen' = [seen EXCEPT ![p] = IF lock.state = "full" THEN lock.by ELSE NoProc]
  /\ UNCHANGED <<lock, late>>

\* Mutant: a lock nobody can read is nobody's.
OwnerGoneOrUnknown(p) == seen[p] # NoProc => pc[seen[p]] \in Over

\* Mutant: the owner is taken for alive.
OwnerNeverGone(p) == FALSE

OwnerGone(p) == seen[p] # NoProc /\ pc[seen[p]] \in Over

FindOwnerGone(p) == OwnerGone(p) /\ Go(p, "check", "reclaim")
Wait(p)          == ~OwnerGone(p) /\ p \notin late /\ Go(p, "check", "sleep")
Refuse(p)        == ~OwnerGone(p) /\ p \in late /\ Go(p, "check", "refused")
Wake(p)          == Go(p, "sleep", "open")

\* Mutant: the clock starts again at every turn.
NeverLate(p) == FALSE /\ UNCHANGED vars

TimeOut(p) ==
  /\ pc[p] \in Starting /\ p \notin late /\ late' = late \cup {p}
  /\ UNCHANGED <<pc, lock, seen>>

\* rm with force: whatever file is there.
RemoveLock(p, from, to) ==
  Move(p, from, to) /\ lock' = Absent /\ UNCHANGED <<seen, late>>

Reclaim(p) == RemoveLock(p, "reclaim", "open")
FailReclaim(p) == Errors /\ Go(p, "reclaim", "failed")

\* After a record that could not be written the file is removed, unless that fails too.
Undo(p) ==
  \E to \in {"failed", "barred"} : RemoveLock(p, "undo", to) \/ Go(p, "undo", to)

Close(p)   == Go(p, "polling", "closing")
Release(p) == RemoveLock(p, "closing", "stopped")

\* The process ends after its shutdown.  (One that was refused or failed left no record.)
Exit(p) == Go(p, "stopped", "gone")

\* Killed, or ended by an error: nobody catches a release that fails.
Crash(p) ==
  /\ MayCrash /\ pc[p] \in Starting \cup {"polling", "closing"}
  /\ pc' = [pc EXCEPT ![p] = "dead"] /\ UNCHANGED <<lock, seen, late>>
-----------------------------------------------------------------------------
Step(p) ==
  \/ Create(p) \/ FindLock(p) \/ FailOpen(p) \/ WriteRecord(p) \/ FailRecord(p)
  \/ ReadRecord(p) \/ FindOwnerGone(p) \/ Wait(p) \/ Refuse(p) \/ Wake(p)
  \/ Reclaim(p) \/ FailReclaim(p) \/ Undo(p) \/ Release(p) \/ Exit(p)

Next == \E p \in Procs : Step(p) \/ TimeOut(p) \/ Start(p) \/ Close(p) \/ Crash(p)

Spec == Init /\ [][Next]_vars

\* A living process goes on and time passes; nobody has to start or stop a runtime.
FairSpec == Spec /\ \A p \in Procs : WF_vars(Step(p)) /\ WF_vars(TimeOut(p))
-----------------------------------------------------------------------------
Polling == {p \in Procs : pc[p] = "polling"}

\* While no runtime has ended, at most one polls the providers,
\* whatever starts overlap or fail (acquireInterfaceRuntimeLock).
OnePoller ==
  (\A p \in Procs : pc[p] \notin Over) => \A p, q \in Polling : p = q

\* Every start ends: it polls, is refused, fails, or is killed (the timeout of the loop).
StartEnds == \A p \in Procs : pc[p] = "open" ~> pc[p] \notin Starting

LeftAlone(p) ==
  /\ pc[p] = "open" /\ lock.state = "full" /\ pc[lock.by] = "dead"
  /\ \A q \in Procs \ {p} : pc[q] \in Over \cup {"new", "stopped", "refused", "failed"}

\* A runtime started alone takes over from one that was killed while it polled,
\* however late it is (the owner check precedes the timeout's), unless the file system
\* fails it.
TakesOver ==
  \A p \in Procs :
    LeftAlone(p) ~> \/ pc[p] \in {"polling", "dead", "undo", "barred", "failed"}
                    \/ \E q \in Procs \ {p} : pc[q] \in Starting
=============================================================================
