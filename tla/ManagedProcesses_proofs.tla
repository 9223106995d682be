----------------------- MODULE ManagedProcesses_proofs -----------------------
(***************************************************************************)
(* Theorems about ManagedProcesses, for any number of starts, of other     *)
(* processes and of overlapping checks, and any number of deaths.          *)
(***************************************************************************)
EXTENDS ManagedProcesses, TLAPS

Unborn == {"idle", "resolving", "probing", "occupied"}
Launched == {"launching", "spawning"}

\* What a lease names has been a process, and what it says of its end is true, among
\* processes P of which those in T were sent SIGTERM.
Sound(l, P, T) ==
  /\ l.status # "none" => P[l.pid] # "none"
  /\ l.status = "STOPPED" => \/ P[l.pid] # "runs"
                             \/ l.ground = "signal" /\ l.pid \in T
                             \/ l.ground = "other"

\* The file must be as sound as the registry: after a death it is all there is.
SoundBooks == \A s \in Starts : Sound(lease[s], proc, term) /\ Sound(file[s], proc, term)

\* A start is spawned once, what it found has been a process, and of a child object the
\* registry does not listen to it is known that no abort reaches it.
Known ==
  /\ \A s \in Starts : start[s] = "inspecting" => proc[found[s]] # "none"
  /\ \A s \in Starts : start[s] \in Unborn => proc[Wrapper(s)] = "none"
  /\ \A s \in Starts : start[s] \in Launched => proc[Wrapper(s)] # "none"
  /\ \A s \in Starts : handle[s] = "lost" => s \in loose

Inv == TypeOK /\ Known /\ SoundBooks /\ AbortStops /\ RunningIsLeased
-----------------------------------------------------------------------------
(* Types.                                                                  *)

\* What is known of pids.
LEMMA PidFacts ==
  /\ \A s \in Starts : Wrapper(s) \in Pids /\ Server(s) \in Pids
  /\ \A s, t \in Starts : Wrapper(s) # Server(t) /\ (s # t => Wrapper(s) # Wrapper(t) /\ Server(s) # Server(t))
BY DEF Pids, Wrapper, Server

\* A family is the running part of a wrapper and its server, or of one process.
LEMMA FamilyFacts ==
  /\ Running \subseteq Pids
  /\ \A p \in Pids : Family(p) \subseteq Running /\ (Alive(p) => p \in Family(p) /\ p \in Tree(p))
  /\ \A s \in Starts : Family(Wrapper(s)) = {Wrapper(s), Server(s)} \cap Running
BY DEF Family, Tree, Running, Alive, Wrapper, Server, Pids

\* Every way the registry rewrites a lease gives a lease.
LEMMA Rewritten ==
  ASSUME LeaseOK, NEW s \in Starts
  PROVE  /\ \A l \in {lease[s], markClosed(s), markObservedRunning(lease[s]), reconcile(lease[s])} :
              l \in Leases /\ OwnChild(s, l)
         /\ \A p \in Pids : \A g \in Grounds :
              LET l == markRecoveredStopped(s, p, g) IN l \in Leases /\ OwnChild(s, l)
         /\ \A p \in Pids : LET l == markRecoveredRunning(s, p) IN l \in Leases /\ OwnChild(s, l)
<1>1. lease[s] \in Leases /\ OwnChild(s, lease[s])
  BY DEF LeaseOK
<1>2. \A g \in Grounds : Stopped(lease[s], g) \in Leases /\ OwnChild(s, Stopped(lease[s], g))
  BY <1>1 DEF Leases, OwnChild, Stopped
<1>3. markObservedRunning(lease[s]) \in Leases /\ OwnChild(s, markObservedRunning(lease[s]))
  BY <1>1 DEF Leases, OwnChild, markObservedRunning, Live
<1>4. \A p \in Pids : LET l == markRecoveredRunning(s, p) IN l \in Leases /\ OwnChild(s, l)
  BY DEF Leases, OwnChild, markRecoveredRunning, Live, Grounds
<1>5. {markClosed(s), reconcile(lease[s])} \subseteq {lease[s], Stopped(lease[s], "exit")}
  BY DEF markClosed, reconcile
<1>6. \A p \in Pids : \A g \in Grounds :
        markRecoveredStopped(s, p, g) \in {lease[s], Stopped(lease[s], g), Stopped(lease[s], "other")}
  BY DEF markRecoveredStopped
<1>7. "exit" \in Grounds /\ "other" \in Grounds
  BY DEF Grounds
<1>. QED
  BY <1>1, <1>2, <1>3, <1>4, <1>5, <1>6, <1>7

\* A registry in which one lease is rewritten is a registry.
LEMMA OneLease ==
  ASSUME LeaseOK, NEW s \in Starts, NEW l \in Leases, OwnChild(s, l), Lease(s, l)
  PROVE  LeaseOK'
BY DEF Lease, LeaseOK, OwnChild

\* What is written to the file, whole or not at all, is a file of leases.
LEMMA WrittenType ==
  /\ \A l \in [Starts -> Leases] : OnFile(Written(l))
  /\ OnFile(Torn)
<1>1. ASSUME NEW l \in [Starts -> Leases] PROVE OnFile(Written(l))
  BY <1>1 DEF OnFile, Written, Leases
<1>2. OnFile(Torn)
  BY PidFacts DEF OnFile, Torn, NoLease, Leases, Grounds
<1>. QED
  BY <1>1, <1>2

\* So is the file after a write that may fail.
LEMMA PersistType ==
  ASSUME LeaseOK, LeaseOK', NEW old, OnFile(old), Persist(old) \/ PersistChange(old)
  PROVE  OnFile(file')
<1>1. OnFile(Written(lease')) /\ OnFile(Torn)
  BY WrittenType DEF LeaseOK
<1>. QED
  BY <1>1 DEF Persist, PersistChange

\* A lease given another process is a lease, and so it is in the file.
LEMMA RecoverType ==
  ASSUME LeaseOK, OnFile(file), NEW s \in Starts, NEW p \in Pids, Recover(s, p)
  PROVE  LeaseOK' /\ OnFile(file')
<1>1. LeaseOK'
  BY Rewritten, OneLease DEF Recover
<1>. QED
  BY <1>1, PersistType DEF Recover

\* A start that spawns its child, or gives up, keeps types.
LEMMA SpawnType ==
  ASSUME TypeOK, NEW s \in Starts, NEW step \in Steps, Spawn(s, step) \/ GiveUp(s)
  PROVE  /\ proc' \in [Pids -> States] /\ handle' \in [Starts -> Handles]
         /\ start' \in [Starts -> Steps] /\ loose' \subseteq Starts /\ unleased' \subseteq Starts
<1>1. CASE GiveUp(s)
  BY <1>1 DEF TypeOK, GiveUp, To, Steps, States, Handles, ghost
<1>2. CASE Spawn(s, step)
  BY <1>2, PidFacts DEF TypeOK, Spawn, To, Steps, States, Handles, ghost
<1>. QED
  BY <1>1, <1>2

\* Ending processes keeps types.
LEMMA WithoutType == ASSUME TypeOK, NEW S PROVE Without(S) \in [Pids -> States]
BY DEF Without, TypeOK, States

\* Types and the right of a child object to its lease are kept by every step.
LEMMA TypeStep == TypeOK /\ [Next]_vars => TypeOK'
<1> SUFFICES ASSUME TypeOK, [Next]_vars PROVE TypeOK'
  OBVIOUS
<1> USE PidFacts, FamilyFacts, ProcessesType
<1>a. LeaseOK /\ OnFile(file) /\ OnFile(Written(lease)) /\ OnFile(Torn)
  BY WrittenType DEF TypeOK, LeaseOK
<1>b. ASSUME UNCHANGED books PROVE LeaseOK' /\ OnFile(file')
  BY <1>a, <1>b DEF books, LeaseOK
<1>1. ASSUME NEW p \in Pids, Exit(p) PROVE TypeOK'
  BY <1>1, <1>b, WithoutType DEF Exit, TypeOK, calls, ghost
<1>2. ASSUME NEW s \in Starts, Fork(s) PROVE TypeOK'
  BY <1>2, <1>b DEF Fork, TypeOK, calls, States
<1>3. ASSUME NEW s \in Starts, Close(s) PROVE TypeOK'
  <2>1. LeaseOK'
    BY <1>3, <1>a, Rewritten, OneLease DEF Close
  <2>2. OnFile(file')
    BY <1>3, <1>a, <2>1, WrittenType DEF Close, LeaseOK
  <2>. QED
    BY <1>3, <2>1, <2>2 DEF Close, TypeOK, calls, ghost, Handles
<1>4. ASSUME NEW S \in SUBSET Starts, Reconcile(S) PROVE TypeOK'
  <2>1. LeaseOK'
    BY <1>4, <1>a, Rewritten DEF Reconcile, LeaseOK, OwnChild
  <2>2. OnFile(file')
    BY <1>4, <1>a, <2>1, PersistType DEF Reconcile
  <2>. QED
    BY <1>4, <2>1, <2>2 DEF Reconcile, TypeOK, calls, world, ghost
<1>5. ASSUME NEW s \in Starts, StartProcess(s) PROVE TypeOK'
  BY <1>5, <1>b DEF StartProcess, To, TypeOK, world, ghost, Steps
<1>6. ASSUME NEW s \in Starts, Resolved(s) PROVE TypeOK'
  <2>1. CASE Spawn(s, "launching") \/ GiveUp(s)
    BY <1>6, <1>b, <2>1, SpawnType DEF Resolved, TypeOK, Steps
  <2>2. CASE ~(Spawn(s, "launching") \/ GiveUp(s))
    BY <1>6, <1>b, <2>2 DEF Resolved, To, TypeOK, Steps, ghost
  <2>. QED
    BY <2>1, <2>2
<1>7. ASSUME NEW s \in Starts, Probed(s) PROVE TypeOK'
  <2>1. CASE Spawn(s, "spawning") \/ GiveUp(s)
    BY <1>7, <1>b, <2>1, SpawnType DEF Probed, TypeOK, Steps
  <2>2. CASE ~(Spawn(s, "spawning") \/ GiveUp(s))
    BY <1>7, <1>b, <2>2 DEF Probed, To, TypeOK, Steps, ghost
  <2>. QED
    BY <2>1, <2>2
<1>8. ASSUME NEW s \in Starts, Adopt(s) PROVE TypeOK'
  <2>1. LeaseOK' /\ OnFile(file')
    BY <1>8, <1>a, RecoverType DEF Adopt
  <2>. QED
    BY <1>8, <2>1 DEF Adopt, To, TypeOK, world, Steps, ghost
<1>9. ASSUME NEW s \in Starts, Rebind(s) PROVE TypeOK'
  BY <1>9, <1>b, SpawnType DEF Rebind, TypeOK, Steps
<1>c. ASSUME NEW s \in Starts, Register(s) PROVE LeaseOK' /\ OnFile(Written(lease'))
  <2>1. LeaseOK'
    BY <1>a, <1>c DEF Register, Lease, LeaseOK, OwnChild, Leases, Live, Grounds
  <2>. QED
    BY <2>1, WrittenType DEF LeaseOK
<1>10. ASSUME NEW s \in Starts, Spawned(s) \/ SpawnedUnsaved(s) PROVE TypeOK'
  <2>1. LeaseOK' /\ OnFile(file')
    BY <1>10, <1>a, <1>c DEF Spawned, SpawnedUnsaved
  <2>. QED
    BY <1>10, <2>1 DEF Spawned, SpawnedUnsaved, To, TypeOK, world, ghost, Steps, Handles
<1>11. ASSUME NEW s \in Starts, GraceEnds(s) PROVE TypeOK'
  BY <1>11, <1>b DEF GraceEnds, To, TypeOK, world, ghost, Steps
<1>12. ASSUME NEW s \in Starts, Promote(s) PROVE TypeOK'
  <2>1. LeaseOK' /\ OnFile(file')
    BY <1>12, <1>a, RecoverType DEF Promote, TypeOK
  <2>. QED
    BY <1>12, <2>1 DEF Promote, To, TypeOK, world, Steps, ghost
<1>13. ASSUME NEW s \in Starts, Abort(s) PROVE TypeOK'
  <2>1. start' \in [Starts -> Steps]
    BY <1>13 DEF Abort, To, TypeOK, Steps
  <2>2. LeaseOK' /\ OnFile(file') /\ unleased' \subseteq Starts
    BY <1>13, <1>a DEF Abort, TypeOK, LeaseOK
  <2>. QED
    BY <1>13, <2>1, <2>2 DEF Abort, TypeOK
<1>14. ASSUME NEW s \in Starts, AbortKilled(s) PROVE TypeOK'
  BY <1>14, <1>b, WithoutType DEF AbortKilled, TypeOK, calls
<1>15. ASSUME NEW s \in Starts, CheckHere(s) PROVE TypeOK'
  <2>1. LeaseOK'
    BY <1>15, <1>a, Rewritten, OneLease DEF CheckHere
  <2>2. OnFile(file')
    BY <1>15, <1>a, <2>1, PersistType DEF CheckHere
  <2>. QED
    BY <1>15, <2>1, <2>2 DEF CheckHere, TypeOK, calls, world, ghost
<1>16. ASSUME NEW s \in Starts, StopBySignal(s) PROVE TypeOK'
  <2> PICK p \in StopTargets(s) :
        /\ term' = term \cup Family(p)
        /\ IF lease[s].child = "no" THEN Judge(s, p, "signal") ELSE UNCHANGED lease
    BY <1>16 DEF StopBySignal
  <2>1. p \in Pids
    BY DEF StopTargets, TypeOK, LeaseOK, Leases
  <2>2. LeaseOK'
    BY <1>a, <2>1, Rewritten, OneLease DEF Judge, LeaseOK, Grounds
  <2>3. OnFile(file')
    BY <1>16, <1>a, <2>2, PersistType DEF StopBySignal
  <2>. QED
    BY <1>16, <2>1, <2>2, <2>3 DEF StopBySignal, TypeOK, calls, ghost
<1>17. ASSUME NEW s \in Starts, StopBegins(s) \/ StopRejected(s) PROVE TypeOK'
  <2>1. StopTargets(s) \subseteq Pids /\ lease[s].child \in {"yes", "no"}
    BY DEF StopTargets, TypeOK, LeaseOK, Leases
  <2>2. LeaseOK' /\ OnFile(file')
    BY <1>17, <1>a DEF StopBegins, StopRejected, LeaseOK
  <2>. QED
    BY <1>17, <2>1, <2>2 DEF StopBegins, StopRejected, TypeOK, world, ghost, calls
<1>18. ASSUME NEW s \in Starts, StopKilled(s) PROVE TypeOK'
  <2>1. LeaseOK'
    <3>1. stop[s].pid \in Pids
      BY DEF TypeOK
    <3>. QED
      BY <1>18, <1>a, <3>1, Rewritten, OneLease DEF StopKilled, Judge, LeaseOK, Grounds
  <2>2. OnFile(file')
    BY <1>18, <1>a, <2>1, PersistType DEF StopKilled
  <2>3. stop' \in [Starts -> [step : {"no", "killing"}, pid : Pids, child : {"yes", "no"}]]
    BY <1>18 DEF StopKilled, TypeOK, NoStop
  <2>. QED
    BY <1>18, <2>1, <2>2, <2>3, WithoutType DEF StopKilled, TypeOK, ghost
<1>19. ASSUME NEW s \in Starts, NEW c \in Checks, CheckBegins(c, s) PROVE TypeOK'
  BY <1>19, <1>b DEF CheckBegins, TypeOK, world, ghost, LeaseOK, Leases
<1>20. ASSUME NEW c \in Checks, CheckEnds(c) PROVE TypeOK'
  <2> PICK h \in check : CheckEnds(c)!(h)
    BY <1>20 DEF CheckEnds
  <2>1. h.on \in Starts /\ h.pid \in Pids
    BY DEF TypeOK
  <2>2. LeaseOK' /\ OnFile(file')
    <3>1. CASE \E p \in Running \ {h.pid} : Recover(h.on, p)
      BY <1>a, <2>1, <3>1, RecoverType
    <3>2. CASE Judge(h.on, h.pid, "exit") /\ PersistChange(file)
      <4>1. LeaseOK'
        BY <1>a, <2>1, <3>2, Rewritten, OneLease DEF Judge, Grounds
      <4>. QED
        BY <1>a, <3>2, <4>1, PersistType
    <3>3. CASE Lease(h.on, markObservedRunning(lease[h.on])) /\ PersistChange(file)
      <4>1. LeaseOK'
        BY <1>a, <2>1, <3>3, Rewritten, OneLease
      <4>. QED
        BY <1>a, <3>3, <4>1, PersistType
    <3>. QED
      BY <3>1, <3>2, <3>3
  <2>. QED
    BY <2>2 DEF TypeOK, world, ghost
<1>d. ASSUME NEW f \in {file, Torn}, Forget(f)
      PROVE  LeaseOK' /\ OnFile(file') /\ unleased' \subseteq Starts
  <2>1. OnFile(f) /\ lease' = f /\ file' = f
    BY <1>a, <1>d DEF Forget
  <2>2. LeaseOK'
    BY <2>1 DEF OnFile, LeaseOK, OwnChild
  <2>. QED
    BY <1>d, <2>1, <2>2 DEF Forget, TypeOK
<1>21. CASE Down /\ aborted' \in [Starts -> {"no", "yes"}]
  <2>1. LeaseOK' /\ OnFile(file') /\ unleased' \subseteq Starts
    BY <1>21, <1>d DEF Down
  <2>2. /\ handle' \in [Starts -> Handles] /\ start' \in [Starts -> Steps]
        /\ found' \in [Starts -> Pids] /\ check' = {} /\ kills' = {}
    BY <1>21 DEF Down, TypeOK, Handles, Steps
  <2>3. stop' \in [Starts -> [step : {"no", "killing"}, pid : Pids, child : {"yes", "no"}]]
    BY <1>21 DEF Down, NoStop
  <2>4. up' \in BOOLEAN /\ crashes' \in 0 .. MaxCrashes
    <3>1. up' = FALSE /\ crashes' = crashes + 1 /\ crashes < MaxCrashes
      BY <1>21 DEF Down
    <3>2. crashes \in 0 .. MaxCrashes
      BY DEF TypeOK
    <3>3. crashes' \in 0 .. MaxCrashes
      BY <3>1, <3>2, ProcessesType
    <3>. QED
      BY <3>1, <3>3
  <2>5. /\ proc' \in [Pids -> States] /\ term' \subseteq Pids /\ win32' \in BOOLEAN
        /\ loose' \subseteq Starts
    BY <1>21 DEF Down, TypeOK
  <2>. QED
    BY <1>21, <2>1, <2>2, <2>3, <2>4, <2>5 DEF TypeOK
<1>22. CASE Crash
  BY <1>21, <1>22 DEF Crash, TypeOK
<1>23. ASSUME NEW s \in Starts, AbortFails(s) PROVE TypeOK'
  BY <1>21, <1>23 DEF AbortFails, TypeOK
<1>24. CASE Restart
  <2>1. LeaseOK'
    BY <1>24, <1>a, Rewritten DEF Restart, hydratePersistedSnapshots, LeaseOK, OwnChild
  <2>2. OnFile(file')
    BY <1>24, <2>1, WrittenType DEF Restart, LeaseOK
  <2>. QED
    BY <1>24, <2>1, <2>2 DEF Restart, TypeOK, calls, world, ghost
<1>25. CASE RestartFails
  BY <1>25, <1>d DEF RestartFails, TypeOK, calls, world
<1>26. CASE UNCHANGED vars
  BY <1>26, <1>b DEF vars, TypeOK, calls, world, ghost
<1>. QED
  BY <1>1, <1>2, <1>3, <1>4, <1>5, <1>6, <1>7, <1>8, <1>9, <1>10, <1>11, <1>12, <1>13, <1>14,
     <1>15, <1>16, <1>17, <1>18, <1>19, <1>20, <1>22, <1>23, <1>24, <1>25, <1>26 DEF Next
-----------------------------------------------------------------------------
(* What a step does to the processes.                                      *)

\* A pid once in use is never unused again, and only an unused one comes to life.
LEMMA Births ==
  ASSUME TypeOK, Known, [Next]_vars
  PROVE  /\ \A p \in Pids : proc[p] # "none" => proc'[p] # "none"
         /\ \A p \in Pids : proc'[p] = "runs" => proc[p] \in {"runs", "none"}
<1> USE PidFacts DEF TypeOK, States
<1>1. ASSUME NEW p \in Pids, Exit(p) PROVE \A q \in Pids : proc'[q] = (IF q = p THEN "gone" ELSE proc[q])
  BY <1>1 DEF Exit, Without
<1>2. ASSUME NEW s \in Starts, Fork(s)
      PROVE  \A q \in Pids : proc'[q] = proc[q] \/ (proc[q] = "none" /\ proc'[q] = "runs")
  BY <1>2 DEF Fork
<1>3. ASSUME NEW s \in Starts, NEW step \in Steps, Spawn(s, step), start[s] \in Unborn
      PROVE  \A q \in Pids : proc'[q] = proc[q] \/ (proc[q] = "none" /\ proc'[q] = "runs")
  BY <1>3 DEF Spawn, Known
<1>4. ASSUME NEW s \in Starts, Resolved(s) \/ Probed(s) \/ Rebind(s)
      PROVE  \A q \in Pids : proc'[q] = proc[q] \/ (proc[q] = "none" /\ proc'[q] = "runs")
  BY <1>3, <1>4 DEF Resolved, Probed, Rebind, GiveUp, Unborn, Steps
<1>5. ASSUME NEW s \in Starts, AbortKilled(s) \/ StopKilled(s)
      PROVE  \A q \in Pids : proc'[q] \in {proc[q], "gone"}
  BY <1>5 DEF AbortKilled, StopKilled, Without
<1>6. CASE UNCHANGED proc
  BY <1>6
<1>. QED
  BY <1>1, <1>2, <1>4, <1>5, <1>6
     DEF Next, vars, world, Close, Reconcile, StartProcess, Adopt, Spawned, SpawnedUnsaved, GraceEnds,
         Promote, Abort, CheckHere, StopRejected, StopBySignal, StopBegins, CheckBegins, CheckEnds,
         AbortFails, Crash, Down, Restart, RestartFails

\* A signal sent stays sent.
LEMMA Signals == [Next]_vars => term \subseteq term'
BY DEF Next, vars, world, Exit, Fork, Close, Reconcile, StartProcess, Resolved, Probed, Adopt,
       Rebind, Spawned, SpawnedUnsaved, GraceEnds, Promote, Abort, AbortKilled, AbortFails, CheckHere,
       StopRejected, StopBySignal, StopBegins, StopKilled, CheckBegins, CheckEnds, Crash, Down,
       Restart, RestartFails

\* What is sound stays so, in the registry and in the file.
LEMMA SoundStays ==
  ASSUME TypeOK, Known, [Next]_vars, NEW l \in Leases, Sound(l, proc, term)
  PROVE  Sound(l, proc', term')
<1>1. l.pid \in Pids
  BY DEF Leases
<1>2. CASE l.status = "none"
  BY <1>2 DEF Sound
<1>3. CASE l.status # "none"
  BY <1>1, <1>3, Births, Signals DEF Sound, TypeOK
<1>. QED
  BY <1>2, <1>3
-----------------------------------------------------------------------------
(* The registry and its file.                                              *)

\* A write that may fail leaves a sound file.
LEMMA PersistSound ==
  ASSUME LeaseOK', NEW old, OnFile(old), Persist(old) \/ PersistChange(old),
         \A s \in Starts : Sound(lease'[s], proc', term') /\ Sound(old[s], proc', term')
  PROVE  \A s \in Starts : Sound(file'[s], proc', term')
<1> SUFFICES ASSUME NEW s \in Starts PROVE Sound(file'[s], proc', term')
  OBVIOUS
<1>1. Sound(Written(lease')[s], proc', term')
  <2>1. /\ Written(lease')[s].pid = lease'[s].pid /\ Written(lease')[s].status = lease'[s].status
        /\ Written(lease')[s].ground = lease'[s].ground
    BY DEF Written, LeaseOK, Leases
  <2>. QED
    BY <2>1 DEF Sound
<1>2. Sound(Torn[s], proc', term')
  BY DEF Torn, NoLease, Sound
<1>3. file' \in {Written(lease'), old, Torn}
  BY DEF Persist, PersistChange
<1>. QED
  BY <1>1, <1>2, <1>3

\* A lease rewritten in a sound way leaves the registry sound.
LEMMA LeaseSound ==
  ASSUME LeaseOK, NEW t \in Starts, NEW l, Lease(t, l), Sound(l, proc', term'),
         \A s \in Starts : Sound(lease[s], proc', term')
  PROVE  \A s \in Starts : Sound(lease'[s], proc', term')
BY DEF Lease, LeaseOK

\* A handler that stops a lease saw p exit or sent p the signal; if p is not the process
\* the lease names, the lease says so.
LEMMA JudgeSound ==
  ASSUME LeaseOK, NEW t \in Starts, NEW p \in Pids, NEW g \in {"exit", "signal"},
         g = "exit" => proc'[p] # "runs", g = "signal" => p \in term',
         Sound(lease[t], proc', term')
  PROVE  Sound(markRecoveredStopped(t, p, g), proc', term')
<1>1. CASE lease[t].status \notin Live
  BY <1>1 DEF markRecoveredStopped
<1>2. CASE lease[t].status \in Live
  <2>1. lease[t] \in Leases
    BY DEF LeaseOK
  <2>2. CASE p = lease[t].pid
    BY <1>2, <2>1, <2>2 DEF markRecoveredStopped, Stopped, Leases, Sound, Live
  <2>3. CASE p # lease[t].pid
    BY <1>2, <2>1, <2>3 DEF markRecoveredStopped, Stopped, Leases, Sound, Live
  <2>. QED
    BY <2>2, <2>3
<1>. QED
  BY <1>1, <1>2

\* A lease seen running says no more than it did.
LEMMA ObservedSound ==
  ASSUME NEW l \in Leases, NEW P, NEW T, Sound(l, P, T)
  PROVE  Sound(markObservedRunning(l), P, T)
BY DEF markObservedRunning, Leases, Sound

\* A lease given a process that is or was there is sound.
LEMMA RecoverSound ==
  ASSUME NEW t \in Starts, NEW p \in Pids, proc'[p] # "none"
  PROVE  Sound(markRecoveredRunning(t, p), proc', term')
BY DEF markRecoveredRunning, Sound

\* Registry and file stay sound over every step.
LEMMA BooksStep == ASSUME TypeOK, Known, SoundBooks, [Next]_vars PROVE SoundBooks'
<1> LeaseOK /\ LeaseOK' /\ OnFile(file)
  BY TypeStep DEF TypeOK
<1> DEFINE Reg == \A s \in Starts : Sound(lease'[s], proc', term')
           Disk == \A s \in Starts : Sound(file'[s], proc', term')
<1>1. SUFFICES Reg /\ Disk
  BY DEF SoundBooks
<1>a. \A s \in Starts : Sound(lease[s], proc', term') /\ Sound(file[s], proc', term')
  BY SoundStays DEF SoundBooks, LeaseOK, OnFile
<1>b. \A s \in Starts : Sound(Written(lease)[s], proc', term')
  <2> SUFFICES ASSUME NEW s \in Starts PROVE Sound(Written(lease)[s], proc', term')
    OBVIOUS
  <2>1. /\ Written(lease)[s].pid = lease[s].pid /\ Written(lease)[s].status = lease[s].status
        /\ Written(lease)[s].ground = lease[s].ground
    BY DEF Written, LeaseOK, Leases
  <2>. QED
    BY <1>a, <2>1 DEF Sound
<1>c. OnFile(Written(lease)) /\ \A s \in Starts : Sound(Torn[s], proc', term')
  BY WrittenType DEF LeaseOK, Torn, NoLease, Sound
<1>d. ASSUME Reg, Persist(file) \/ PersistChange(file) \/ PersistChange(Written(lease)) PROVE Disk
  <2>1. CASE Persist(file) \/ PersistChange(file)
    BY <1>a, <1>d, <2>1, PersistSound
  <2>2. CASE PersistChange(Written(lease))
    BY <1>b, <1>c, <1>d, <2>2, PersistSound
  <2>. QED
    BY <1>d, <2>1, <2>2
<1>e. ASSUME Reg, file' = Written(lease') PROVE Disk
  BY <1>a, <1>e, PersistSound DEF Persist
<1>2. ASSUME NEW t \in Starts, Close(t) PROVE Reg /\ Disk
  <2>1. Sound(markClosed(t), proc', term')
    <3>1. CASE lease[t].status \in Live /\ lease[t].child = "yes"
      <4>1. lease[t].pid = Wrapper(t) /\ proc' = proc /\ proc[Wrapper(t)] = "gone"
        BY <1>2, <3>1 DEF Close, LeaseOK, OwnChild
      <4>. QED
        BY <3>1, <4>1 DEF markClosed, Stopped, Sound, LeaseOK, Leases
    <3>2. CASE ~(lease[t].status \in Live /\ lease[t].child = "yes")
      BY <1>a, <3>2 DEF markClosed
    <3>. QED
      BY <3>1, <3>2
  <2>2. Reg
    BY <1>2, <1>a, <2>1, LeaseSound DEF Close
  <2>. QED
    BY <1>2, <1>a, <1>e, <2>2 DEF Close
<1>f. ASSUME proc' = proc, NEW s \in Starts PROVE Sound(reconcile(lease[s]), proc', term')
  <2>1. CASE lease[s].status \in Live /\ ~Alive(lease[s].pid)
    <3>1. proc'[lease[s].pid] # "none" /\ proc'[lease[s].pid] # "runs"
      BY <1>a, <1>f, <2>1 DEF Sound, Live, Alive
    <3>. QED
      BY <2>1, <3>1 DEF reconcile, Stopped, Sound, LeaseOK, Leases
  <2>2. CASE ~(lease[s].status \in Live /\ ~Alive(lease[s].pid))
    BY <1>a, <2>2 DEF reconcile
  <2>. QED
    BY <2>1, <2>2
<1>3. ASSUME NEW S \in SUBSET Starts, Reconcile(S) PROVE Reg /\ Disk
  <2>1. Reg
    BY <1>3, <1>a, <1>f DEF Reconcile, world
  <2>. QED
    BY <1>3, <1>d, <2>1 DEF Reconcile
<1>4. ASSUME NEW t \in Starts, NEW p \in Pids, Recover(t, p), proc[p] # "none" PROVE Reg /\ Disk
  <2>1. Sound(markRecoveredRunning(t, p), proc', term')
    BY <1>4, Births, RecoverSound
  <2>2. Reg
    BY <1>4, <1>a, <2>1, LeaseSound DEF Recover
  <2>. QED
    BY <1>4, <1>d, <2>2 DEF Recover
<1>5. ASSUME NEW t \in Starts, Adopt(t) PROVE Reg /\ Disk
  BY <1>4, <1>5 DEF Adopt, Running
<1>6. ASSUME NEW t \in Starts, Promote(t) PROVE Reg /\ Disk
  BY <1>4, <1>6 DEF Promote, Known, TypeOK
<1>7. ASSUME NEW t \in Starts, Spawned(t) \/ SpawnedUnsaved(t) PROVE Reg /\ Disk
  <2> DEFINE l == [status |-> "STARTED", pid |-> Wrapper(t), child |-> "yes", ground |-> "no"]
  <2>1. Sound(l, proc', term')
    BY <1>7, PidFacts, Births DEF Spawned, SpawnedUnsaved, Known, Launched, Sound
  <2>2. Lease(t, l)
    BY <1>7 DEF Spawned, SpawnedUnsaved, Register
  <2>3. Reg
    BY <1>a, <2>1, <2>2, LeaseSound
  <2>. QED
    BY <1>7, <1>a, <1>c, <1>e, <2>3 DEF Spawned, SpawnedUnsaved
<1>8. ASSUME NEW t \in Starts, CheckHere(t) PROVE Reg /\ Disk
  <2>1. Reg
    BY <1>8, <1>a, ObservedSound, LeaseSound DEF CheckHere, LeaseOK
  <2>. QED
    BY <1>8, <1>d, <2>1 DEF CheckHere
<1>9. ASSUME NEW t \in Starts, StopBySignal(t) PROVE Reg /\ Disk
  <2> PICK p \in StopTargets(t) :
        /\ Family(p) # {} /\ term' = term \cup Family(p)
        /\ IF lease[t].child = "no" THEN Judge(t, p, "signal") ELSE UNCHANGED lease
    BY <1>9 DEF StopBySignal
  <2>1. p \in Pids
    BY PidFacts, FamilyFacts DEF StopTargets, LeaseOK, Leases
  <2>2. Reg
    <3>1. CASE lease[t].child = "no" /\ Alive(p)
      <4>1. p \in term'
        BY <2>1, <3>1, FamilyFacts
      <4>2. Sound(markRecoveredStopped(t, p, "signal"), proc', term')
        BY <1>a, <2>1, <4>1, JudgeSound
      <4>. QED
        BY <1>a, <3>1, <4>2, LeaseSound DEF Judge
    <3>2. CASE lease[t].child = "no" /\ ~Alive(p)
      \* The group of a wrapper that is gone took the signal.
      <4>1. proc'[p] # "runs"
        BY <1>9, <3>2 DEF StopBySignal, Alive
      <4>2. Sound(markRecoveredStopped(t, p, "signal"), proc', term')
        <5>1. CASE lease[t].status \in Live
          BY <1>a, <4>1, <5>1 DEF markRecoveredStopped, Stopped, Sound, LeaseOK, Leases, Live
        <5>2. CASE lease[t].status \notin Live
          BY <1>a, <5>2 DEF markRecoveredStopped
        <5>. QED
          BY <5>1, <5>2
      <4>. QED
        BY <1>a, <3>2, <4>2, LeaseSound DEF Judge
    <3>3. CASE lease[t].child # "no"
      BY <1>a, <3>3
    <3>. QED
      BY <3>1, <3>2, <3>3
  <2>. QED
    BY <1>9, <1>d, <2>2 DEF StopBySignal
<1>10. ASSUME NEW t \in Starts, StopBegins(t) \/ StopRejected(t) \/ Abort(t) PROVE Reg /\ Disk
  <2>1. lease' = lease /\ file' \in {Written(lease), file, Torn}
    BY <1>10 DEF StopBegins, StopRejected, Abort
  <2>. QED
    BY <1>a, <1>b, <1>c, <2>1
<1>11. ASSUME NEW t \in Starts, StopKilled(t) PROVE Reg /\ Disk
  <2> PICK how \in Outcomes :
        /\ how = "handle" => stop[t].child = "yes"
        /\ proc' = Without(Victims(stop[t].pid, how))
        /\ IF stop[t].child = "no" /\ how # "failed" THEN Judge(t, stop[t].pid, "exit")
           ELSE UNCHANGED lease
    BY <1>11 DEF StopKilled
  <2>1. stop[t].pid \in Pids
    BY DEF TypeOK
  <2>2. Reg
    <3>1. CASE stop[t].child = "no" /\ how # "failed"
      <4>1. how = "tree"
        BY <3>1 DEF Outcomes
      <4>2. proc'[stop[t].pid] # "runs"
        BY <2>1, <4>1, FamilyFacts DEF Victims, Without, Alive
      <4>3. Sound(markRecoveredStopped(t, stop[t].pid, "exit"), proc', term')
        BY <1>a, <2>1, <4>2, JudgeSound
      <4>. QED
        BY <1>a, <3>1, <4>3, LeaseSound DEF Judge
    <3>2. CASE ~(stop[t].child = "no" /\ how # "failed")
      BY <1>a, <3>2
    <3>. QED
      BY <3>1, <3>2
  <2>. QED
    BY <1>11, <1>d, <2>2 DEF StopKilled
<1>12. ASSUME NEW c \in Checks, CheckEnds(c) PROVE Reg /\ Disk
  <2> PICK h \in check : CheckEnds(c)!(h)
    BY <1>12 DEF CheckEnds
  <2>1. h.on \in Starts /\ h.pid \in Pids
    BY DEF TypeOK
  <2>2. CASE \E p \in Running \ {h.pid} : Recover(h.on, p)
    BY <1>4, <2>1, <2>2 DEF Running
  <2>3. CASE Judge(h.on, h.pid, "exit") /\ ~Alive(h.pid) /\ PersistChange(file)
    <3>1. proc'[h.pid] # "runs"
      BY <2>3 DEF Alive, world
    <3>2. Sound(markRecoveredStopped(h.on, h.pid, "exit"), proc', term')
      BY <1>a, <2>1, <3>1, JudgeSound
    <3>3. Reg
      BY <1>a, <2>1, <2>3, <3>2, LeaseSound DEF Judge
    <3>. QED
      BY <1>d, <2>3, <3>3
  <2>4. CASE Lease(h.on, markObservedRunning(lease[h.on])) /\ PersistChange(file)
    <3>1. Reg
      BY <1>a, <2>1, <2>4, ObservedSound, LeaseSound DEF LeaseOK
    <3>. QED
      BY <1>d, <2>4, <3>1
  <2>. QED
    BY <2>2, <2>3, <2>4
<1>13. CASE Down \/ RestartFails
  <2>1. lease' = file' /\ file' \in {file, Torn}
    BY <1>13 DEF Down, RestartFails, Forget
  <2>. QED
    BY <1>a, <1>c, <2>1
<1>14. CASE Restart
  <2>1. Reg
    BY <1>14, <1>f DEF Restart, hydratePersistedSnapshots, world
  <2>. QED
    BY <1>14, <1>e, <2>1 DEF Restart
<1>15. CASE UNCHANGED books
  BY <1>15, <1>a DEF books
<1>. QED
  BY <1>2, <1>3, <1>5, <1>6, <1>7, <1>8, <1>9, <1>10, <1>11, <1>12, <1>13, <1>14, <1>15
     DEF Next, vars, Crash, AbortFails, Exit, Fork, StartProcess, Resolved, Probed, Rebind, GraceEnds,
         AbortKilled, CheckBegins

\* A registry that is sound says stopped only of what the property allows.
LEMMA SoundIsTrue == SoundBooks => StoppedIsTrue
BY DEF SoundBooks, Sound, StoppedIsTrue, Alive
-----------------------------------------------------------------------------
(* What is known, what an abort reaches, and what has a lease.             *)

\* What Known says is kept by every step.
LEMMA KnownStep == ASSUME TypeOK, Known, [Next]_vars PROVE Known'
<1> USE PidFacts
<1>1. ASSUME NEW s \in Starts
      PROVE  /\ start'[s] = "inspecting" => proc[found'[s]] # "none"
             /\ start'[s] \in Unborn => start[s] \in Unborn
             /\ start'[s] \in Launched => start[s] \in Launched \/ proc'[Wrapper(s)] # "none"
             /\ handle'[s] = "lost" => s \in loose'
  <2> USE DEF Unborn, Launched, TypeOK, Known
  <2>1. ASSUME NEW t \in Starts, StartProcess(t) \/ Adopt(t) \/ Promote(t) PROVE <1>1!2
    BY <2>1 DEF StartProcess, Adopt, Promote, To, world, ghost
  <2>2. ASSUME NEW t \in Starts, Resolved(t) \/ Probed(t) \/ Rebind(t) PROVE <1>1!2
    BY <2>2 DEF Resolved, Probed, Rebind, To, Spawn, GiveUp, ghost
  <2>3. ASSUME NEW t \in Starts, Spawned(t) \/ SpawnedUnsaved(t) PROVE <1>1!2
    BY <2>3 DEF Spawned, SpawnedUnsaved, To, world, ghost
  <2>4. ASSUME NEW t \in Starts, GraceEnds(t) PROVE <1>1!2
    BY <2>4 DEF GraceEnds, To, Running, world, ghost
  <2>5. ASSUME NEW t \in Starts, Abort(t) PROVE <1>1!2
    BY <2>5 DEF Abort, To
  <2>6. CASE Down
    BY <2>6 DEF Down
  <2>7. ASSUME NEW t \in Starts, Close(t) PROVE <1>1!2
    BY <2>7 DEF Close, calls, ghost
  <2>8. CASE UNCHANGED <<start, found, handle>> /\ loose \subseteq loose'
    BY <2>8
  <2>. QED
    BY <2>1, <2>2, <2>3, <2>4, <2>5, <2>6, <2>7, <2>8
       DEF Next, vars, calls, world, ghost, Exit, Fork, Reconcile, AbortKilled, AbortFails, CheckHere,
           StopRejected, StopBySignal, StopBegins, StopKilled, CheckBegins, CheckEnds, Crash, Restart,
           RestartFails
<1>2. ASSUME NEW s \in Starts, start'[s] \in Unborn PROVE proc'[Wrapper(s)] = "none"
  <2> start[s] \in Unborn /\ proc[Wrapper(s)] = "none"
    BY <1>1, <1>2 DEF Known
  <2> USE DEF TypeOK, States
  <2>1. ASSUME NEW p \in Pids, Exit(p) PROVE proc'[Wrapper(s)] = "none"
    BY <2>1 DEF Exit, Without, Alive
  <2>2. ASSUME NEW t \in Starts, Fork(t) PROVE proc'[Wrapper(s)] = "none"
    BY <2>2 DEF Fork
  <2>3. ASSUME NEW t \in Starts, Resolved(t) \/ Probed(t) \/ Rebind(t) PROVE proc'[Wrapper(s)] = "none"
    BY <1>2, <2>3 DEF Resolved, Probed, Rebind, Spawn, GiveUp, To, Unborn
  <2>4. ASSUME NEW t \in Starts, AbortKilled(t) \/ StopKilled(t) PROVE proc'[Wrapper(s)] = "none"
    <3>1. \A p \in Pids, how \in Outcomes : Victims(p, how) \subseteq Running
      BY FamilyFacts DEF Victims, Tree
    <3>. QED
      BY <2>4, <3>1 DEF AbortKilled, StopKilled, Without, Running
  <2>5. CASE UNCHANGED proc
    BY <2>5
  <2>. QED
    BY <2>1, <2>2, <2>3, <2>4, <2>5
       DEF Next, vars, world, Close, Reconcile, StartProcess, Adopt, Spawned, SpawnedUnsaved, GraceEnds,
           Promote, Abort, AbortFails, CheckHere, StopRejected, StopBySignal, StopBegins, CheckBegins,
           CheckEnds, Crash, Down, Restart, RestartFails
<1>3. ASSUME NEW s \in Starts
      PROVE  /\ start'[s] = "inspecting" => proc'[found'[s]] # "none"
             /\ start'[s] \in Launched => proc'[Wrapper(s)] # "none"
             /\ handle'[s] = "lost" => s \in loose'
  <2>1. found'[s] \in Pids
    BY TypeStep DEF TypeOK
  <2>. QED
    BY <1>1, <2>1, Births DEF Known
<1>. QED
  BY <1>2, <1>3 DEF Known

\* An abort reaches the wrapper and its server: what runs of them later was signalled, is
\* being killed, or is known to be out of reach.
LEMMA AbortStep == ASSUME TypeOK, Known, AbortStops, [Next]_vars PROVE AbortStops'
<1> USE PidFacts
<1> SUFFICES ASSUME NEW s \in Starts, aborted'[s] = "yes", handle'[s] \in {"live", "lost"},
                    s \notin loose', NEW p \in {Wrapper(s), Server(s)}, proc'[p] = "runs"
             PROVE  p \in term' \/ s \in kills'
  <2>1. \A s \in Starts : Family(Wrapper(s))' = {Wrapper(s), Server(s)} \cap Running'
    BY DEF Family, Running, Wrapper, Server
  <2>. QED
    BY <2>1 DEF AbortStops, Running
<1>0. p \in Pids
  OBVIOUS
<1> DEFINE Goal == p \in term' \/ s \in kills'
<1>1. aborted[s] = "yes" /\ handle[s] \in {"live", "lost"} /\ s \notin loose /\ proc[p] = "runs"
        => p \in term \/ s \in kills
  BY <1>0, FamilyFacts DEF AbortStops, Running
<1>2. ASSUME NEW q \in Pids, Exit(q) PROVE Goal
  BY <1>0, <1>1, <1>2 DEF Exit, Without, calls, ghost, TypeOK
<1>3. ASSUME NEW t \in Starts, Fork(t) PROVE Goal
  <2>1. CASE p = Server(s) /\ t = s
    <3>1. Wrapper(s) \in Family(Wrapper(s)) /\ Wrapper(s) \notin term
      BY <1>3, <2>1, FamilyFacts DEF Fork, calls
    <3>. QED
      BY <1>3, <2>1, <3>1 DEF Fork, calls, AbortStops
  <2>2. CASE ~(p = Server(s) /\ t = s)
    <3>1. p # Server(t)
      BY <2>2
    <3>. QED
      BY <1>0, <1>1, <1>3, <3>1 DEF Fork, calls, TypeOK
  <2>. QED
    BY <2>1, <2>2
<1>4. ASSUME NEW t \in Starts, Close(t) PROVE Goal
  BY <1>0, <1>1, <1>4 DEF Close, calls, ghost, TypeOK, Handles
<1>5. ASSUME NEW t \in Starts, Resolved(t) \/ Probed(t) \/ Rebind(t) PROVE Goal
  BY <1>0, <1>1, <1>5 DEF Resolved, Probed, Rebind, Spawn, GiveUp, To, TypeOK, Known, Unborn, ghost
<1>6. ASSUME NEW t \in Starts, SpawnedUnsaved(t) PROVE Goal
  BY <1>0, <1>1, <1>6 DEF SpawnedUnsaved, TypeOK
<1>7. ASSUME NEW t \in Starts, Abort(t) PROVE Goal
  <2>1. p \in Family(Wrapper(s)) /\ handle[s] # "lost"
    BY <1>0, <1>7, FamilyFacts DEF Abort, Running, Known
  <2>2. CASE s = t
    BY <1>7, <2>1, <2>2 DEF Abort, AbortReaches
  <2>3. CASE s # t
    BY <1>0, <1>1, <1>7, <2>3 DEF Abort, TypeOK
  <2>. QED
    BY <2>2, <2>3
<1>8. ASSUME NEW t \in Starts, AbortKilled(t) PROVE Goal
  <2> PICK how \in Outcomes :
        /\ proc' = Without(Victims(Wrapper(t), how))
        /\ loose' = IF Family(Wrapper(t)) \subseteq Victims(Wrapper(t), how)
                      THEN loose ELSE loose \cup {t}
    BY <1>8 DEF AbortKilled
  <2>1. CASE s = t
    <3>1. proc[p] = "runs" /\ p \notin Victims(Wrapper(t), how)
      BY <1>0 DEF Without, TypeOK, States
    <3>2. p \in Family(Wrapper(s))
      BY <1>0, <3>1, FamilyFacts DEF Running
    <3>. QED
      BY <2>1, <3>1, <3>2
  <2>2. CASE s # t
    BY <1>0, <1>1, <1>8, <2>2 DEF AbortKilled, Without, calls, TypeOK
  <2>. QED
    BY <2>1, <2>2
<1>9. ASSUME NEW t \in Starts, StopBySignal(t) PROVE Goal
  BY <1>0, <1>1, <1>9 DEF StopBySignal, calls, ghost, TypeOK
<1>10. ASSUME NEW t \in Starts, StopKilled(t) PROVE Goal
  BY <1>0, <1>1, <1>10 DEF StopKilled, Without, ghost, TypeOK
<1>11. CASE Down
  BY <1>11 DEF Down
<1>12. CASE UNCHANGED <<proc, term, handle, aborted, kills, loose>>
  BY <1>0, <1>1, <1>12
<1>. QED
  BY <1>2, <1>3, <1>4, <1>5, <1>6, <1>7, <1>8, <1>9, <1>10, <1>11, <1>12
     DEF Next, vars, world, calls, ghost, Reconcile, StartProcess, Adopt, Spawned, GraceEnds, Promote,
         CheckHere, StopRejected, StopBegins, CheckBegins, CheckEnds, Crash, AbortFails, Restart,
         RestartFails

\* A lease is only forgotten with the file, and then that is known.
LEMMA Forgotten ==
  ASSUME TypeOK, [Next]_vars, NEW s \in Starts, lease'[s].status = "none", s \notin unleased'
  PROVE  lease[s].status = "none"
<1> USE DEF TypeOK, LeaseOK
<1>1. \A l \in {markClosed(s), reconcile(lease[s]), markObservedRunning(lease[s])} :
        l.status = "none" => lease[s].status = "none"
  BY DEF Leases, markClosed, reconcile, markObservedRunning, Stopped
<1>2. \A p, g : markRecoveredStopped(s, p, g).status = "none" => lease[s].status = "none"
  BY DEF Leases, markRecoveredStopped, Stopped
<1>3. \A p : markRecoveredRunning(s, p).status # "none"
  BY DEF markRecoveredRunning
<1>4. ASSUME NEW t \in Starts, NEW l, Lease(t, l),
             s = t /\ l.status = "none" => lease[s].status = "none"
      PROVE  lease[s].status = "none"
  BY <1>4 DEF Lease
<1>5. ASSUME NEW t \in Starts, NEW p, Recover(t, p) PROVE lease[s].status = "none"
  BY <1>3, <1>4, <1>5 DEF Recover
<1>6. ASSUME NEW t \in Starts, NEW p, NEW g, Judge(t, p, g) PROVE lease[s].status = "none"
  BY <1>2, <1>4, <1>6 DEF Judge
<1>7. ASSUME NEW t \in Starts, Close(t) \/ CheckHere(t) PROVE lease[s].status = "none"
  BY <1>1, <1>4, <1>7 DEF Close, CheckHere
<1>8. ASSUME NEW S \in SUBSET Starts, Reconcile(S) PROVE lease[s].status = "none"
  BY <1>1, <1>8 DEF Reconcile
<1>9. ASSUME NEW t \in Starts, Adopt(t) \/ Promote(t) PROVE lease[s].status = "none"
  BY <1>5, <1>9 DEF Adopt, Promote
<1>10. ASSUME NEW t \in Starts, Spawned(t) \/ SpawnedUnsaved(t) PROVE lease[s].status = "none"
  BY <1>10 DEF Spawned, SpawnedUnsaved, Register, Lease
<1>11. ASSUME NEW t \in Starts, StopBySignal(t) PROVE lease[s].status = "none"
  BY <1>6, <1>11 DEF StopBySignal
<1>12. ASSUME NEW t \in Starts, StopKilled(t) PROVE lease[s].status = "none"
  BY <1>6, <1>12 DEF StopKilled
<1>13. ASSUME NEW c \in Checks, CheckEnds(c) PROVE lease[s].status = "none"
  <2> PICK h \in check : CheckEnds(c)!(h)
    BY <1>13 DEF CheckEnds
  <2>1. h.on \in Starts
    OBVIOUS
  <2>2. CASE Lease(h.on, markObservedRunning(lease[h.on]))
    BY <1>1, <1>4, <2>1, <2>2
  <2>. QED
    BY <1>5, <1>6, <2>1, <2>2
<1>14. CASE Down \/ RestartFails
  BY <1>14 DEF Down, RestartFails, Forget
<1>15. CASE Restart
  BY <1>1, <1>15 DEF Restart, hydratePersistedSnapshots
<1>16. CASE UNCHANGED lease
  BY <1>16
<1>. QED
  BY <1>7, <1>8, <1>9, <1>10, <1>11, <1>12, <1>13, <1>14, <1>15, <1>16
     DEF Next, vars, books, Crash, AbortFails, Exit, Fork, StartProcess, Resolved, Probed, Rebind,
         GraceEnds, Abort, AbortKilled, StopRejected, StopBegins, CheckBegins

\* What was started and runs on keeps its lease.
LEMMA LeasedStep ==
  ASSUME TypeOK, Known, RunningIsLeased, [Next]_vars, StoppedIsTrue'
  PROVE  RunningIsLeased'
<1> USE PidFacts
<1> SUFFICES ASSUME NEW s \in Starts, NEW p \in {Wrapper(s), Server(s)}, proc'[p] = "runs",
                    start'[s] \notin Launched, s \notin unleased', lease'[s].status = "none"
             PROVE  FALSE
  BY DEF RunningIsLeased, StoppedIsTrue, Alive, Launched
<1>0. p \in Pids /\ lease[s].status = "none"
  BY Forgotten
<1>1. \A q \in {Wrapper(s), Server(s)} : proc[q] = "runs" => start[s] \in Launched \/ s \in unleased
  BY <1>0 DEF RunningIsLeased, Alive, Launched
<1>2. ASSUME start'[s] \in Launched \/ start[s] \notin Launched, unleased \subseteq unleased',
             proc[p] = "runs"
      PROVE  FALSE
  BY <1>1, <1>2
<1>3. ASSUME NEW q \in Pids, Exit(q) PROVE FALSE
  BY <1>0, <1>1, <1>3 DEF Exit, Without, calls, ghost, TypeOK
<1>4. ASSUME NEW t \in Starts, Fork(t) PROVE FALSE
  <2>1. CASE p = Server(s) /\ t = s
    BY <1>1, <1>4, <2>1 DEF Fork, calls, Alive
  <2>2. CASE ~(p = Server(s) /\ t = s)
    <3>1. p # Server(t)
      BY <2>2
    <3>. QED
      BY <1>0, <1>1, <1>4, <3>1 DEF Fork, calls, TypeOK
  <2>. QED
    BY <2>1, <2>2
<1>5. ASSUME NEW t \in Starts, NEW step \in Launched, Spawn(t, step) \/ GiveUp(t),
             start[t] \in Unborn
      PROVE  FALSE
  <2>1. CASE s = t
    BY <1>0, <1>1, <1>5, <2>1 DEF Spawn, GiveUp, To, TypeOK, Known, Launched, Unborn, ghost
  <2>2. CASE s # t
    BY <1>0, <1>1, <1>5, <2>2 DEF Spawn, GiveUp, To, TypeOK, ghost
  <2>. QED
    BY <2>1, <2>2
<1>6. ASSUME NEW t \in Starts, Resolved(t) \/ Probed(t) \/ Rebind(t) PROVE FALSE
  <2>1. CASE UNCHANGED <<proc, handle, ghost>> /\ start[t] \in Unborn /\ \E step \in Steps : To(t, step)
    BY <1>0, <1>1, <2>1 DEF To, TypeOK, ghost, Unborn, Launched
  <2>. QED
    BY <1>5, <1>6, <2>1 DEF Resolved, Probed, Rebind, Unborn, Launched, Steps
<1>7. ASSUME NEW t \in Starts, Spawned(t) \/ SpawnedUnsaved(t) PROVE FALSE
  <2>1. s # t
    BY <1>7 DEF Spawned, SpawnedUnsaved, Register, Lease, TypeOK, LeaseOK
  <2>. QED
    BY <1>1, <1>7, <2>1 DEF Spawned, SpawnedUnsaved, To, TypeOK, world, ghost
<1>8. ASSUME NEW t \in Starts, StartProcess(t) \/ GraceEnds(t) \/ Adopt(t) \/ Promote(t) PROVE FALSE
  BY <1>1, <1>8 DEF StartProcess, GraceEnds, Adopt, Promote, To, TypeOK, Launched, world, ghost
<1>9. ASSUME NEW t \in Starts, Abort(t) PROVE FALSE
  BY <1>1, <1>9 DEF Abort, To, TypeOK, Launched
<1>10. ASSUME NEW t \in Starts, AbortKilled(t) \/ StopKilled(t) PROVE FALSE
  BY <1>0, <1>1, <1>10 DEF AbortKilled, StopKilled, Without, TypeOK, States, calls, ghost
<1>11. CASE Down
  BY <1>1, <1>11 DEF Down, Forget, TypeOK, Launched
<1>12. CASE UNCHANGED <<proc, start>> /\ unleased \subseteq unleased'
  BY <1>1, <1>12
<1>. QED
  BY <1>3, <1>4, <1>6, <1>7, <1>8, <1>9, <1>10, <1>11, <1>12
     DEF Next, vars, world, calls, ghost, Close, Reconcile, CheckHere, StopRejected, StopBySignal,
         StopBegins, CheckBegins, CheckEnds, Crash, AbortFails, Restart, RestartFails, Forget
-----------------------------------------------------------------------------
\* The inductive invariant: at the start, over every step, and so always.
LEMMA Initially == Init => Inv
<1> SUFFICES ASSUME Init PROVE Inv
  OBVIOUS
<1> USE PidFacts
<1>1. LeaseOK /\ OnFile(file)
  BY DEF Init, LeaseOK, OnFile, Leases, OwnChild, NoLease, Grounds
<1>2. TypeOK
  <2>1. stop \in [Starts -> [step : {"no", "killing"}, pid : Pids, child : {"yes", "no"}]]
    BY DEF Init, NoStop
  <2>. QED
    BY <1>1, <2>1, ProcessesType DEF Init, TypeOK, Handles, States, Steps
<1>3. \A s \in Starts : lease[s].status = "none" /\ file[s].status = "none"
  BY DEF Init, NoLease
<1>4. \A s \in Starts : proc[Wrapper(s)] = "none" /\ proc[Server(s)] = "none"
  BY DEF Init, Wrapper, Server, Pids
<1>. QED
  BY <1>2, <1>3, <1>4 DEF Init, Inv, Known, SoundBooks, Sound, AbortStops, RunningIsLeased, Alive, Unborn, Launched

\* Every step keeps the invariant: types first, then what is known, then the properties.
LEMMA Inductive == Inv /\ [Next]_vars => Inv'
<1> SUFFICES ASSUME Inv, [Next]_vars PROVE Inv'
  OBVIOUS
<1>1. SoundBooks' /\ StoppedIsTrue'
  <2>1. SoundBooks'
    BY BooksStep DEF Inv
  <2>. QED
    BY <2>1 DEF SoundBooks, Sound, StoppedIsTrue, Alive
<1>. QED
  BY <1>1, TypeStep, KnownStep, AbortStep, LeasedStep DEF Inv

\* It holds always.
LEMMA Invariance == Spec => []Inv
BY Initially, Inductive, PTL DEF Spec

\* The processes, the leases, the file and every call keep their types, and only a live
\* lease of the wrapper itself holds its child object.
THEOREM Typing == Spec => []TypeOK
<1>1. Inv => TypeOK
  BY DEF Inv
<1>. QED
  BY <1>1, Invariance, PTL

\* A lease says stopped only of a process that is gone, but where stop_process sent that
\* process the signal, or a handler acted on another pid.
THEOREM Stops == Spec => []StoppedIsTrue
<1>1. Inv => StoppedIsTrue
  BY SoundIsTrue DEF Inv
<1>. QED
  BY <1>1, Invariance, PTL

\* While the runtime lives and the child's pipes are open, an abort reaches what runs of
\* the child and its server, but for the starts in `loose`.
THEOREM Aborts == Spec => []AbortStops
<1>1. Inv => AbortStops
  BY DEF Inv
<1>. QED
  BY <1>1, Invariance, PTL

\* The child of a start, and the server it forked, run only while there is a lease to
\* find them by, in the registry and after a death in the file, but for the starts that
\* got none and the leases that had not reached the file or were lost with it.
THEOREM Leased == Spec => []RunningIsLeased
<1>1. Inv => RunningIsLeased
  BY DEF Inv
<1>. QED
  BY <1>1, Invariance, PTL
=============================================================================
