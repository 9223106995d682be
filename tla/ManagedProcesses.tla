-------------------------- MODULE ManagedProcesses ---------------------------
(***************************************************************************)
(* Long-running processes started for the user: start_process,             *)
(* check_process and stop_process over ManagedProcessRegistry, the leases  *)
(* it keeps and writes down, the abort signal bound to each start, and the *)
(* processes themselves, which outlive the runtime.                        *)
(*                                                                         *)
(* A start spawns a wrapper (a shell), which may fork the server that does *)
(* the work.  Every workspace is the same: any process may turn out to     *)
(* hold the preview another start asks for.  A pid is never used again.    *)
(***************************************************************************)
EXTENDS Naturals

CONSTANTS
  Starts,     \* start_process calls, and the leases they make
  Others,     \* processes nobody here started, which may hold a preview too
  Checks,     \* check_process calls that may overlap
  MaxCrashes  \* bound: deaths of the runtime

ASSUME ProcessesType == MaxCrashes \in Nat

Pids == (Starts \X {"wrapper", "server"}) \cup (Others \X {"other"})
Wrapper(s) == <<s, "wrapper">>
Server(s) == <<s, "server">>

Live == {"STARTED", "STILL_RUNNING"}
Steps == {"idle", "resolving", "probing", "occupied", "launching", "spawning",
          "grace", "inspecting", "done"}

VARIABLES
  win32,    \* the platform, which never changes
  up,       \* the runtime runs
  proc,     \* the processes
  term,     \* those sent SIGTERM
  lease,    \* the registry; while the runtime is down, what the file holds
  file,     \* the leases in the file, which may be older than the registry's
  handle,   \* a start's child object: its close is to come, or was seen; lost: the
            \* registry listens neither for its close nor for an abort
  start,    \* how far a start has come; launching: a command without a known port
  found,    \* the preview holder it found
  aborted,  \* its abort signal
  check,    \* what a check_process has in hand over its awaits
  stop,     \* and a stop_process
  kills,    \* wrappers an abort's taskkill is working on
  loose,    \* history: starts of which an abort does not reach every process
  unleased, \* history: starts whose child got no lease, or whose lease was lost
  crashes

calls == <<start, found, aborted, check, stop>>
world == <<proc, term, handle>>
books == <<lease, file>>
ghost == <<loose, unleased>>
vars  == <<win32, up, world, books, calls, kills, ghost, crashes>>

NoLease(s) == [status |-> "none", pid |-> Wrapper(s), child |-> "no", ground |-> "no"]
NoStop(s) == [step |-> "no", pid |-> Wrapper(s), child |-> "no"]

\* History: a stop rests on the exit of the process the lease names, on a signal sent to
\* it, or on what was done to, or seen of, another process.
Grounds == {"no", "exit", "signal", "other"}
Leases == [status : Live \cup {"none", "STOPPED"}, pid : Pids, child : {"yes", "no"},
           ground : Grounds]
Handles == {"none", "live", "lost", "closed"}
States == {"none", "runs", "gone"}

\* Only a live lease of the wrapper itself holds its child object.
OwnChild(s, l) == l.child = "yes" => l.status \in Live /\ l.pid = Wrapper(s)
LeaseOK == lease \in [Starts -> Leases] /\ \A s \in Starts : OwnChild(s, lease[s])
OnFile(f) == f \in [Starts -> Leases] /\ \A s \in Starts : f[s].child = "no"

TypeOK ==
  /\ win32 \in BOOLEAN /\ up \in BOOLEAN /\ crashes \in 0 .. MaxCrashes
  /\ proc \in [Pids -> States] /\ term \subseteq Pids
  /\ handle \in [Starts -> Handles]
  /\ LeaseOK /\ OnFile(file)
  /\ start \in [Starts -> Steps] /\ found \in [Starts -> Pids]
  /\ aborted \in [Starts -> {"no", "yes"}]
  /\ check \subseteq [by : Checks, on : Starts, status : Live \cup {"STOPPED"}, pid : Pids]
  /\ stop \in [Starts -> [step : {"no", "killing"}, pid : Pids, child : {"yes", "no"}]]
  /\ kills \subseteq Starts /\ loose \subseteq Starts /\ unleased \subseteq Starts

Init ==
  /\ win32 \in BOOLEAN /\ up = TRUE /\ crashes = 0
  /\ proc = [p \in Pids |-> IF p[2] = "other" THEN "runs" ELSE "none"] /\ term = {}
  /\ lease = [s \in Starts |-> NoLease(s)] /\ file = lease
  /\ handle = [s \in Starts |-> "none"]
  /\ start = [s \in Starts |-> "idle"] /\ found = [s \in Starts |-> Wrapper(s)]
  /\ aborted = [s \in Starts |-> "no"]
  /\ check = {}
  /\ stop = [s \in Starts |-> NoStop(s)]
  /\ kills = {} /\ loose = {} /\ unleased = {}
-----------------------------------------------------------------------------
(* The processes.                                                          *)

Running == {p \in Pids : proc[p] = "runs"}
Alive(p) == proc[p] = "runs"
Family(p) == IF p[2] = "wrapper" THEN {p, Server(p[1])} \cap Running ELSE {p} \cap Running

\* What a forced kill of p takes with it: the tree is found from p, while p runs.
Tree(p) == IF Alive(p) THEN Family(p) ELSE {}
Without(S) == [p \in Pids |-> IF p \in S THEN "gone" ELSE proc[p]]

\* A process ends, by itself or by a signal.
Exit(p) ==
  /\ Alive(p) /\ proc' = Without({p})
  /\ UNCHANGED <<win32, up, term, handle, books, calls, kills, ghost, crashes>>

\* A wrapper starts its server, in its process group; so may one that ignores SIGTERM,
\* and an abort that came before does not reach the server.
Fork(s) ==
  /\ Alive(Wrapper(s)) /\ proc[Server(s)] = "none"
  /\ proc' = [proc EXCEPT ![Server(s)] = "runs"]
  /\ loose' = (IF Wrapper(s) \in term /\ aborted[s] = "yes" THEN loose \cup {s} ELSE loose)
  /\ UNCHANGED <<win32, up, term, handle, books, calls, kills, unleased, crashes>>
-----------------------------------------------------------------------------
(* The registry.                                                           *)

Stopped(l, ground) == [l EXCEPT !.status = "STOPPED", !.child = "no", !.ground = ground]

\* Mutant: a lease without its child object is closed with the rest.
markClosedAnyway(s) ==
  IF lease[s].status = "STOPPED" THEN lease[s] ELSE Stopped(lease[s], "exit")

\* A child is done: a lease that has let go of it for another process stays.
markClosed(s) ==
  IF lease[s].status \in Live /\ lease[s].child = "yes"
    THEN Stopped(lease[s], "exit") ELSE lease[s]

\* By a handler that has p in hand, and saw p exit or sent it the signal.
markRecoveredStopped(s, p, ground) ==
  IF lease[s].status \in Live
    THEN Stopped(lease[s], IF p = lease[s].pid THEN ground ELSE "other") ELSE lease[s]

\* Mutant: the child object of the wrapper is kept.
markRecoveredButHeld(s, p) ==
  [lease[s] EXCEPT !.status = "STILL_RUNNING", !.pid = p, !.ground = "no"]
markRecoveredRunning(s, p) ==
  [status |-> "STILL_RUNNING", pid |-> p, child |-> "no", ground |-> "no"]
markObservedRunning(l) == IF l.status = "STARTED" THEN [l EXCEPT !.status = "STILL_RUNNING"] ELSE l

\* A lease without a child object whose process is gone is stopped.
reconcile(l) ==
  IF l.status \in Live /\ l.child = "no" /\ ~Alive(l.pid) THEN Stopped(l, "exit") ELSE l

\* persistSnapshots: the whole registry is written over the file.  Where that fails it
\* throws, with the registry changed, and the file old, or cut short and worth nothing.
Written(l) == [s \in Starts |-> [l[s] EXCEPT !.child = "no"]]
Torn == [s \in Starts |-> NoLease(s)]
Persist(old) == file' \in {Written(lease'), old, Torn}

Lease(s, l) == lease' = [lease EXCEPT ![s] = l]
PersistChange(old) == IF lease' = lease THEN file' = old ELSE Persist(old)

Judge(s, p, ground) == Lease(s, markRecoveredStopped(s, p, ground))
Recover(s, p) == Lease(s, markRecoveredRunning(s, p)) /\ Persist(file)

\* getSnapshot of one lease, listSnapshots of all.
Reconcile(S) ==
  /\ up /\ \E s \in S : reconcile(lease[s]) # lease[s]
  /\ lease' = [s \in Starts |-> IF s \in S THEN reconcile(lease[s]) ELSE lease[s]]
  /\ Persist(file)
  /\ UNCHANGED <<win32, up, world, calls, kills, ghost, crashes>>

\* The close event: the wrapper is gone and nobody holds its pipes any more.  Nobody
\* catches what markClosed throws: a write that fails here is a Crash.
Close(s) ==
  /\ handle[s] = "live" /\ start[s] \notin {"launching", "spawning"}
  /\ proc[Wrapper(s)] = "gone"
  /\ handle' = [handle EXCEPT ![s] = "closed"]
  /\ Lease(s, markClosed(s))
  /\ file' = (IF lease' = lease THEN file ELSE Written(lease'))
  /\ UNCHANGED <<win32, up, proc, term, calls, kills, ghost, crashes>>
-----------------------------------------------------------------------------
(* start_process.                                                          *)

To(s, step) == start' = [start EXCEPT ![s] = step]

StartProcess(s) ==
  /\ up /\ start[s] = "idle" /\ To(s, "resolving")
  /\ UNCHANGED <<win32, up, world, books, found, aborted, check, stop, kills, ghost, crashes>>

\* The child runs; an abort that came before is noticed only now, with no listener yet,
\* and no lease to come.
Spawn(s, step) ==
  /\ proc' = [proc EXCEPT ![Wrapper(s)] = "runs"]
  /\ handle' = [handle EXCEPT ![s] = "live"]
  /\ IF aborted[s] = "yes"
       THEN To(s, "done") /\ loose' = loose \cup {s} /\ unleased' = unleased \cup {s}
       ELSE To(s, step) /\ UNCHANGED ghost

GiveUp(s) == To(s, "done") /\ UNCHANGED <<proc, handle, ghost>>

\* The command's port is known, and then probed, or not.
Resolved(s) ==
  /\ start[s] = "resolving"
  /\ \/ To(s, IF aborted[s] = "yes" THEN "done" ELSE "probing")
        /\ UNCHANGED <<proc, handle, ghost>>
     \/ Spawn(s, "launching")
     \/ GiveUp(s)
  /\ UNCHANGED <<win32, up, term, books, found, aborted, check, stop, kills, crashes>>

Probed(s) ==
  /\ start[s] = "probing"
  /\ \/ To(s, "occupied") /\ UNCHANGED <<proc, handle, ghost>>
     \/ Spawn(s, "spawning")
     \/ GiveUp(s)
  /\ UNCHANGED <<win32, up, term, books, found, aborted, check, stop, kills, crashes>>

\* The port is taken by a preview of this workspace that answers: it is adopted.
Adopt(s) ==
  /\ start[s] = "occupied" /\ win32
  /\ \E p \in Running : Recover(s, p)
  /\ To(s, "done")
  /\ UNCHANGED <<win32, up, world, found, aborted, check, stop, kills, ghost, crashes>>

\* It is not: the command is started on another port, or turned down.
Rebind(s) ==
  /\ start[s] = "occupied"
  /\ \/ aborted[s] = "no" /\ Spawn(s, "spawning")
     \/ GiveUp(s)
  /\ UNCHANGED <<win32, up, term, books, found, aborted, check, stop, kills, crashes>>

\* registerStarted, and the listener for an abort; a framework's command is then given
\* time to start its server.
Register(s) == Lease(s, [status |-> "STARTED", pid |-> Wrapper(s), child |-> "yes", ground |-> "no"])

Spawned(s) ==
  /\ start[s] \in {"launching", "spawning"}
  /\ Register(s) /\ file' = Written(lease')
  /\ \E step \in {"grace", "done"} : (step = "grace" => start[s] = "spawning") /\ To(s, step)
  /\ UNCHANGED <<win32, up, world, found, aborted, check, stop, kills, ghost, crashes>>

\* registerStarted cannot write the lease: the start is reported as failed, and the child
\* runs on with a lease in the registry that no close ends and no abort is bound to.
SpawnedUnsaved(s) ==
  /\ start[s] \in {"launching", "spawning"}
  /\ Register(s) /\ file' \in {file, Torn} /\ To(s, "done")
  /\ handle' = [handle EXCEPT ![s] = "lost"] /\ loose' = loose \cup {s}
  /\ UNCHANGED <<win32, up, proc, term, found, aborted, check, stop, kills, unleased, crashes>>

\* After the grace the holder of the port is looked for, unless the start was aborted.
GraceEnds(s) ==
  /\ start[s] = "grace"
  /\ \/ /\ win32 /\ aborted[s] = "no"
        /\ \E p \in Running \ {lease[s].pid} : found' = [found EXCEPT ![s] = p]
        /\ To(s, "inspecting")
     \/ To(s, "done") /\ UNCHANGED found
  /\ UNCHANGED <<win32, up, world, books, aborted, check, stop, kills, ghost, crashes>>

\* The lease is promoted to the holder found, with what happened meanwhile unread.
Promote(s) ==
  /\ start[s] = "inspecting" /\ Recover(s, found[s]) /\ To(s, "done")
  /\ found' = [found EXCEPT ![s] = Wrapper(s)]
  /\ UNCHANGED <<win32, up, world, aborted, check, stop, kills, ghost, crashes>>

\* Mutant: the abort goes to the child object of the lease, which promotion lets go of.
AbortReachesLease(s) == handle[s] = "live" /\ lease[s].child = "yes"

\* An abort listener is bound from the spawn to the close.
AbortReaches(s) == handle[s] = "live"

\* Of a start that has its lease, markStopRequested writes the leases before the signal.
Abort(s) ==
  /\ up /\ start[s] # "idle" /\ aborted[s] = "no"
  /\ aborted' = [aborted EXCEPT ![s] = "yes"]
  /\ IF start[s] \in {"probing", "launching", "spawning"} THEN To(s, "done") ELSE UNCHANGED start
  /\ IF start[s] \in {"launching", "spawning"}
       THEN unleased' = unleased \cup {s} /\ UNCHANGED file
       ELSE /\ file' = (IF AbortReaches(s) THEN Written(lease) ELSE file)
            /\ UNCHANGED unleased
  /\ IF AbortReaches(s) /\ win32
       THEN kills' = kills \cup {s} /\ UNCHANGED term
       ELSE /\ term' = term \cup (IF AbortReaches(s) THEN Family(Wrapper(s)) ELSE {})
            /\ UNCHANGED kills
  /\ UNCHANGED <<win32, up, proc, lease, handle, found, check, stop, loose, crashes>>

\* How a taskkill ends: the tree is gone, or it failed and the child object's own kill
\* took the wrapper alone, or nothing did.
Outcomes == {"tree", "handle", "failed"}
Victims(p, how) ==
  CASE how = "tree" -> Tree(p) [] how = "handle" -> {p} \cap Running [] OTHER -> {}

\* Of a start whose wrapper is gone, taskkill finds no tree: its server runs on.
AbortKilled(s) ==
  /\ up /\ s \in kills /\ kills' = kills \ {s}
  /\ \E how \in Outcomes :
       LET dead == Victims(Wrapper(s), how) IN
       /\ proc' = Without(dead)
       /\ loose' = (IF Family(Wrapper(s)) \subseteq dead THEN loose ELSE loose \cup {s})
  /\ UNCHANGED <<win32, up, term, handle, books, calls, unleased, crashes>>
-----------------------------------------------------------------------------
(* check_process.                                                          *)

\* The child is there, or the pid is alive.
CheckHere(s) ==
  /\ up /\ lease[s].status # "none" /\ (lease[s].child = "no" => Alive(lease[s].pid))
  /\ Lease(s, markObservedRunning(lease[s])) /\ PersistChange(file)
  /\ UNCHANGED <<win32, up, world, calls, kills, ghost, crashes>>

\* Neither is: another holder of the workspace is looked for.
CheckBegins(c, s) ==
  /\ up /\ (\A h \in check : h.by # c) /\ lease[s].status # "none"
  /\ lease[s].child = "no" /\ ~Alive(lease[s].pid)
  /\ check' = check \cup {[by |-> c, on |-> s, status |-> lease[s].status, pid |-> lease[s].pid]}
  /\ UNCHANGED <<win32, up, world, books, start, found, aborted, stop, kills, ghost, crashes>>

\* The lease goes to a holder that answers; without one it is stopped, on what was read
\* before the search.
CheckEnds(c) ==
  \E h \in check :
    /\ h.by = c /\ check' = check \ {h}
    /\ \/ win32 /\ \E p \in Running \ {h.pid} : Recover(h.on, p)
       \/ /\ IF h.status # "STOPPED" /\ lease[h.on].child = "no" /\ ~Alive(h.pid)
               THEN Judge(h.on, h.pid, "exit")
               ELSE Lease(h.on, markObservedRunning(lease[h.on]))
          /\ PersistChange(file)
    /\ UNCHANGED <<win32, up, world, start, found, aborted, stop, kills, ghost, crashes>>
-----------------------------------------------------------------------------
(* stop_process.                                                           *)

\* What is killed: the child, or the pid given, whatever that is, or the lease's.
StopTargets(s) ==
  IF lease[s].child = "yes" THEN {Wrapper(s)}
  ELSE Running \cup (IF lease[s].status \in Live THEN {lease[s].pid} ELSE {})

\* The request is written first; a write that fails rejects the call, with nothing sent.
StopRejected(s) ==
  /\ up /\ lease[s].status # "none" /\ file' = Torn
  /\ UNCHANGED <<win32, up, world, lease, calls, kills, ghost, crashes>>

\* On POSIX the signal is sent at once, to the group or the process; without a child
\* object the lease is stopped with it, and with one the close event is waited for.
StopBySignal(s) ==
  /\ up /\ ~win32 /\ lease[s].status # "none"
  /\ \E p \in StopTargets(s) :
       /\ Family(p) # {} /\ term' = term \cup Family(p)
       /\ IF lease[s].child = "no" THEN Judge(s, p, "signal") ELSE UNCHANGED lease
  /\ PersistChange(Written(lease))
  /\ UNCHANGED <<win32, up, proc, handle, calls, kills, ghost, crashes>>

StopBegins(s) ==
  /\ up /\ win32 /\ lease[s].status # "none" /\ stop[s].step = "no"
  /\ \E p \in StopTargets(s) :
       stop' = [stop EXCEPT ![s] = [step |-> "killing", pid |-> p, child |-> lease[s].child]]
  /\ file' = Written(lease)
  /\ UNCHANGED <<win32, up, world, lease, start, found, aborted, check, kills, ghost, crashes>>

StopKilled(s) ==
  /\ stop[s].step = "killing"
  /\ stop' = [stop EXCEPT ![s] = NoStop(s)]
  /\ \E how \in Outcomes :
       /\ how = "handle" => stop[s].child = "yes"
       /\ proc' = Without(Victims(stop[s].pid, how))
       /\ IF stop[s].child = "no" /\ how # "failed"
            THEN Judge(s, stop[s].pid, "exit") ELSE UNCHANGED lease
  /\ PersistChange(file)
  /\ UNCHANGED <<win32, up, term, handle, start, found, aborted, check, kills, ghost, crashes>>
-----------------------------------------------------------------------------
(* The runtime dies and comes back.                                        *)

\* From now on there are the leases of f, which is what the file holds.
Forget(f) ==
  /\ file' = f /\ lease' = f
  /\ unleased' = unleased \cup
       {s \in Starts : \/ lease[s].status # "none" /\ f[s].status = "none"
                       \/ start[s] \in {"launching", "spawning"}}

\* The death may cut a write of the leases short.
Down ==
  /\ up /\ crashes < MaxCrashes /\ up' = FALSE /\ crashes' = crashes + 1
  /\ \E f \in {file, Torn} : Forget(f)
  /\ handle' = [s \in Starts |-> "none"]
  /\ start' = [s \in Starts |-> IF start[s] = "idle" THEN "idle" ELSE "done"]
  /\ found' = [s \in Starts |-> Wrapper(s)]
  /\ check' = {}
  /\ stop' = [s \in Starts |-> NoStop(s)] /\ kills' = {}
  /\ UNCHANGED <<win32, proc, term, loose>>

Crash == Down /\ UNCHANGED aborted

\* markStopRequested, called by the abort's listener, cannot write the leases: nobody
\* catches what it throws, and the runtime ends before the child is sent anything.
AbortFails(s) ==
  /\ AbortReaches(s) /\ start[s] \notin {"launching", "spawning"} /\ aborted[s] = "no"
  /\ aborted' = [aborted EXCEPT ![s] = "yes"] /\ Down

\* Mutant: whatever is left from another runtime is taken for stopped.
hydrateStopped ==
  [s \in Starts |-> IF lease[s].status \in Live THEN Stopped(lease[s], "exit") ELSE lease[s]]
hydratePersistedSnapshots == [s \in Starts |-> reconcile(lease[s])]

Restart ==
  /\ ~up /\ up' = TRUE /\ lease' = hydratePersistedSnapshots /\ file' = Written(lease')
  /\ UNCHANGED <<win32, world, calls, kills, ghost, crashes>>

\* The registry cannot write what it found changed: the runtime does not come up.
RestartFails ==
  /\ ~up /\ hydratePersistedSnapshots # lease /\ Forget(Torn)
  /\ UNCHANGED <<win32, up, world, calls, kills, loose, crashes>>

Next ==
  \/ \E p \in Pids : Exit(p)
  \/ \E s \in Starts :
       \/ Fork(s) \/ Close(s) \/ Reconcile({s})
       \/ StartProcess(s) \/ Resolved(s) \/ Probed(s) \/ Adopt(s) \/ Rebind(s)
       \/ Spawned(s) \/ SpawnedUnsaved(s) \/ GraceEnds(s) \/ Promote(s)
       \/ Abort(s) \/ AbortKilled(s) \/ AbortFails(s)
       \/ CheckHere(s) \/ StopRejected(s) \/ StopBySignal(s) \/ StopBegins(s) \/ StopKilled(s)
       \/ \E c \in Checks : CheckBegins(c, s)
  \/ \E c \in Checks : CheckEnds(c)
  \/ Reconcile(Starts) \/ Crash \/ Restart \/ RestartFails

Spec == Init /\ [][Next]_vars
-----------------------------------------------------------------------------
\* A lease says stopped only of a process that is gone, through closes, kills, failed
\* writes, restarts and recoveries in any order, but for two ways to stop it without
\* having seen the exit, for which nothing is claimed beyond what was done: a stop_process
\* on POSIX that sent the very process the signal, which it may ignore, and a handler that
\* acted on another pid, because the caller gave one or because the lease was given
\* another process while a check or a stop was under way.  (The comment of
\* markRecoveredStopped speaks of an exit that was proved, which neither way does.)
StoppedIsTrue ==
  \A s \in Starts : lease[s].status = "STOPPED" =>
    \/ ~Alive(lease[s].pid)
    \/ lease[s].ground = "signal" /\ lease[s].pid \in term
    \/ lease[s].ground = "other"

\* While the runtime lives, the abort of a start reaches all that still runs of its child
\* and what that has forked, whatever the lease names by then.  Excepted (`loose`) are an
\* abort noticed after the spawn, a start whose lease could not be written, what taskkill
\* did not get, and a server forked after the signal.
AbortStops ==
  \A s \in Starts : aborted[s] = "yes" /\ handle[s] \in {"live", "lost"} /\ s \notin loose =>
    \A p \in Family(Wrapper(s)) : p \in term \/ s \in kills

\* The child of a start and the server it forked can be found again, also by the next
\* runtime: as long as one runs, its start has a lease, and one that names it does not
\* say stopped, unless it was sent the signal or another pid was acted on.  Excepted
\* (`unleased`) are starts aborted or cut off by a death before they had a lease, and
\* leases that had not reached the file, or were lost with it, when the runtime died.
RunningIsLeased ==
  \A s \in Starts : \A p \in {Wrapper(s), Server(s)} :
    Alive(p) /\ start[s] \notin {"launching", "spawning"} /\ s \notin unleased =>
    /\ lease[s].status # "none"
    /\ p = lease[s].pid /\ lease[s].status = "STOPPED" =>
         p \in term \/ lease[s].ground = "other"
=============================================================================
