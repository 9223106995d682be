--------------------------- MODULE FederatedServer ---------------------------
(***************************************************************************)
(* The agent that takes tasks over HTTP: FederatedHttpServer, its table of *)
(* results and the file that is to outlive the process, under the runtime  *)
(* that hands each accepted task to the orchestrator and stops in order.   *)
(*                                                                         *)
(* An action is the code between two awaits.  A write of the file takes    *)
(* the table's entries when it begins, and what they say once the file's   *)
(* directory is there; changes made meanwhile ask for one more write.      *)
(***************************************************************************)
EXTENDS Naturals

CONSTANTS
  Tasks,     \* ids are never used twice (makeId)
  MaxFaults  \* bound: kills of the server's process and failed writes of its file

ASSUME ServerType == MaxFaults \in Nat

Terminal == {"completed", "failed"}
Statuses == {"none", "pending"} \cup Terminal      \* none: no entry
Ran      == {"ok", "dropped", "threw"}
RunState == {"no", "running", "killed"} \cup Ran

VARIABLES
  srv,        \* "down", "up", or how far stop() has come
  results,    \* the table
  file,       \* what the file holds
  persist,    \* persistInFlight: making the directory ("opening"), then "writing"
  snap,       \* the document to be written, Empty without a write
  requested,  \* persistRequested
  failed,     \* the last write failed
  run,        \* the orchestrator's run of each task; dropped: its result was
  faults

table   == <<results, persist, snap, requested>>
disk    == <<file, failed>>
svars   == <<srv, table, disk, run, faults>>

Stopping  == {"closing", "draining", "flushing"}
Empty == [t \in Tasks |-> "none"]
Documents == [Tasks -> Statuses]

ServerTypeOK ==
  /\ srv \in {"down", "up"} \cup Stopping
  /\ results \in Documents /\ file \in Documents /\ snap \in Documents
  /\ persist \in {"idle", "opening", "writing"} /\ requested \in BOOLEAN /\ failed \in BOOLEAN
  /\ run \in [Tasks -> RunState] /\ faults \in 0 .. MaxFaults

ServerInit ==
  /\ srv = "down" /\ results = Empty /\ file = Empty /\ snap = Empty
  /\ persist = "idle" /\ requested = FALSE /\ failed = FALSE
  /\ run = [t \in Tasks |-> "no"] /\ faults = 0
-----------------------------------------------------------------------------
(* The file.                                                               *)

\* Mutant: a change during a write is left to the write under way.
AssumeCovered(new) ==
  /\ results' = new
  /\ IF persist # "idle" THEN UNCHANGED <<persist, snap, requested>>
     ELSE persist' = "opening" /\ snap' = new /\ UNCHANGED requested

\* The table becomes `new' and a write is scheduled.
schedulePersist(new) ==
  /\ results' = new
  /\ IF persist # "idle"
       THEN requested' = TRUE /\ UNCHANGED <<persist, snap>>
       ELSE persist' = "opening" /\ snap' = new /\ UNCHANGED requested

\* An entry is updated in place: a document that has it, and is not yet made into
\* text, has the update too.
submitResult(t, status) ==
  IF persist = "opening" /\ snap[t] # "none" THEN
    /\ results' = [results EXCEPT ![t] = status] /\ snap' = [snap EXCEPT ![t] = status]
    /\ requested' = TRUE /\ UNCHANGED persist
  ELSE schedulePersist([results EXCEPT ![t] = status])

\* mkdir is done and the document is text.
PersistWrites ==
  /\ persist = "opening" /\ persist' = "writing"
  /\ UNCHANGED <<srv, results, snap, requested, disk, run, faults>>

\* Mutant: the request for one more write is never withdrawn.
KeepRequest(ok) ==
  /\ IF ok THEN persist = "writing" ELSE persist # "idle" /\ faults < MaxFaults
  /\ file' = (IF ok THEN snap ELSE file) /\ failed' = ~ok
  /\ faults' = (IF ok THEN faults ELSE faults + 1)
  /\ IF requested THEN persist' = "opening" /\ snap' = results
     ELSE persist' = "idle" /\ snap' = Empty
  /\ UNCHANGED <<srv, results, requested, run>>

\* writeFileAtomic ends, or mkdir or it fails; a failure is dropped, whoever waits.
PersistEnds(ok) ==
  /\ IF ok THEN persist = "writing" ELSE persist # "idle" /\ faults < MaxFaults
  /\ file' = (IF ok THEN snap ELSE file) /\ failed' = ~ok
  /\ faults' = (IF ok THEN faults ELSE faults + 1)
  /\ requested' = FALSE
  /\ IF requested THEN persist' = "opening" /\ snap' = results
     ELSE persist' = "idle" /\ snap' = Empty
  /\ UNCHANGED <<srv, results, run>>

Without(doc, S) == [t \in Tasks |-> IF t \in S THEN "none" ELSE doc[t]]
Ended(doc)      == {t \in Tasks : doc[t] \in Terminal}

\* The sweep finds some ended results older than their time to live.
evictExpiredResults ==
  /\ srv = "up"
  /\ \E S \in SUBSET Ended(results) : S # {} /\ schedulePersist(Without(results, S))
  /\ UNCHANGED <<srv, disk, run, faults>>
-----------------------------------------------------------------------------
(* Start, stop and death.                                                  *)

\* loadPersistedState, which evicts what has expired meanwhile, and listen.  A file that
\* cannot be read makes start throw, and the server stays down.
Start ==
  /\ srv = "down" /\ srv' = "up"
  /\ \E S \in SUBSET Ended(file) :
       IF S = {} THEN results' = file /\ UNCHANGED <<persist, snap, requested>>
       ELSE schedulePersist(Without(file, S))
  /\ failed' = FALSE
  /\ UNCHANGED <<file, run, faults>>

\* The runtime lets go of the server before it stops it.
Stop ==
  /\ srv = "up" /\ srv' = "closing"
  /\ UNCHANGED <<table, disk, run, faults>>

\* Mutant: the runs of accepted tasks are not waited for.
DrainedAtOnce ==
  /\ srv = "draining" /\ srv' = "flushing"
  /\ UNCHANGED <<table, disk, run, faults>>

waitForAcceptedTasksToSettle ==
  /\ srv = "draining" /\ \A t \in Tasks : run[t] # "running"
  /\ srv' = "flushing"
  /\ UNCHANGED <<table, disk, run, faults>>

\* flushPersistIfNeeded has come to its end, and the process exits.
Stopped ==
  /\ srv = "flushing" /\ persist = "idle" /\ ~requested
  /\ srv' = "down" /\ results' = Empty /\ snap' = Empty
  /\ run' = [t \in Tasks |-> IF run[t] = "running" THEN "killed" ELSE run[t]]
  /\ UNCHANGED <<persist, requested, disk, faults>>

\* A kill; a write under way has replaced the file or has not.
Die ==
  /\ srv # "down" /\ faults < MaxFaults /\ faults' = faults + 1
  /\ srv' = "down" /\ results' = Empty /\ snap' = Empty
  /\ persist' = "idle" /\ requested' = FALSE
  /\ file' \in {file} \cup (IF persist = "writing" THEN {snap} ELSE {})
  /\ failed' = FALSE
  /\ run' = [t \in Tasks |-> IF run[t] = "running" THEN "killed" ELSE run[t]]
-----------------------------------------------------------------------------
(* Tasks.                                                                  *)

\* handleDelegate, when the gateway accepts: the entry is made, the run begins.
AcceptTask(t) ==
  /\ run[t] = "no" /\ run' = [run EXCEPT ![t] = "running"]
  /\ schedulePersist([results EXCEPT ![t] = "pending"])

\* runTask returns or throws.  The runtime submits what came of it to the server it
\* still has; an entry that is pending after that is closed as failed.
TaskEnds(t, ok) ==
  /\ run[t] = "running"
  /\ run' = [run EXCEPT ![t] = IF ~ok THEN "threw" ELSE IF srv = "up" THEN "ok" ELSE "dropped"]
  /\ submitResult(t, IF ok /\ srv = "up" THEN "completed" ELSE "failed")
  /\ UNCHANGED <<srv, disk, faults>>

ServerStep ==
  \/ Start \/ Stop \/ waitForAcceptedTasksToSettle \/ Stopped \/ evictExpiredResults
  \/ PersistWrites \/ \E ok \in BOOLEAN : PersistEnds(ok)
  \/ \E t \in Tasks, ok \in BOOLEAN : TaskEnds(t, ok)
=============================================================================
