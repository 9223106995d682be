---------------------- MODULE FederatedDelegation_proofs ----------------------
(***************************************************************************)
(* Proofs about delegation over HTTP, for any tasks and any number of      *)
(* kills and failed writes.                                                *)
(***************************************************************************)
EXTENDS FederatedDelegation, TLAPS

TableTypeOK ==
  /\ results \in Documents /\ snap \in Documents
  /\ persist \in {"idle", "opening", "writing"} /\ requested \in BOOLEAN

\* A table scheduled to be written is the table, and keeps its types.
LEMMA NewTable ==
  ASSUME TableTypeOK, NEW new \in Documents, schedulePersist(new)
  PROVE  TableTypeOK' /\ results' = new
<1> USE DEF TableTypeOK, schedulePersist
<1>1. CASE persist # "idle"
  BY <1>1
<1>2. CASE persist = "idle"
  BY <1>2
<1> QED BY <1>1, <1>2

\* So is one in which an entry is updated in place, and the document under way stays one.
LEMMA NewResult ==
  ASSUME TableTypeOK, NEW t \in Tasks, NEW s \in Statuses, submitResult(t, s)
  PROVE  TableTypeOK' /\ results' = [results EXCEPT ![t] = s]
<1>0. [results EXCEPT ![t] = s] \in Documents /\ [snap EXCEPT ![t] = s] \in Documents
  BY DEF TableTypeOK, Documents
<1>1. CASE persist = "opening" /\ snap[t] # "none"
  BY <1>0, <1>1 DEF TableTypeOK, submitResult
<1>2. CASE ~(persist = "opening" /\ snap[t] # "none")
  BY <1>0, <1>2, NewTable DEF submitResult
<1> QED BY <1>1, <1>2

\* The table of a server that is down is a table.
LEMMA EmptyTable == Empty \in Documents
BY DEF Empty, Documents, Statuses

\* A table that forgets entries is a table.
LEMMA Forgetting ==
  ASSUME NEW doc \in Documents, NEW S PROVE Without(doc, S) \in Documents
BY DEF Without, Documents, Statuses

\* So is one with an entry replaced.
LEMMA Entering ==
  ASSUME NEW doc \in Documents, NEW t \in Tasks, NEW s \in Statuses
  PROVE  [doc EXCEPT ![t] = s] \in Documents
BY DEF Documents

\* The variables keep their types: a file read back at a start is a table again.
THEOREM Typing == Spec => []TypeOK
<1> USE DEF TypeOK, ServerTypeOK, TableTypeOK
<1>1. Init => TypeOK
  <2> SUFFICES ASSUME Init PROVE TypeOK
    OBVIOUS
  <2> USE DEF Init, ServerInit
  <2>1. TableTypeOK /\ file \in Documents /\ failed \in BOOLEAN
    BY EmptyTable
  <2>2. run \in [Tasks -> RunState] /\ call \in [Tasks -> Calls] /\ net \in [Tasks -> Traffic]
    BY DEF RunState, Calls, Traffic
  <2>3. faults \in 0 .. MaxFaults
    BY ServerType
  <2> QED BY <2>1, <2>2, <2>3
<1>2. TypeOK /\ [Next]_vars => TypeOK'
  <2> SUFFICES ASSUME TypeOK, [Next]_vars PROVE TypeOK'
    OBVIOUS
  <2> USE DEF vars, svars, table, disk, Stopping
  <2>1. ASSUME ServerStep, UNCHANGED <<call, net>> PROVE TypeOK'
    <3>1. CASE Start
      <4>1. PICK S \in SUBSET Ended(file) :
               IF S = {} THEN results' = file /\ UNCHANGED <<persist, snap, requested>>
               ELSE schedulePersist(Without(file, S))
        BY <3>1 DEF Start
      <4>2. TableTypeOK'
        BY <4>1, NewTable, Forgetting
      <4> QED BY <2>1, <3>1, <4>2 DEF Start
    <3>2. CASE Stop \/ waitForAcceptedTasksToSettle \/ PersistWrites
      BY <2>1, <3>2 DEF Stop, waitForAcceptedTasksToSettle, PersistWrites
    <3>3. CASE Stopped
      BY <2>1, <3>3, EmptyTable DEF Stopped, RunState
    <3>4. CASE evictExpiredResults
      <4>1. TableTypeOK'
        BY <3>4, NewTable, Forgetting DEF evictExpiredResults
      <4> QED BY <2>1, <3>4, <4>1 DEF evictExpiredResults
    <3>5. ASSUME NEW ok \in BOOLEAN, PersistEnds(ok) PROVE TypeOK'
      <4>1. TableTypeOK' /\ file' \in Documents /\ failed' \in BOOLEAN
        BY <3>5, EmptyTable DEF PersistEnds
      <4>2. faults' \in 0 .. MaxFaults
        BY <3>5, ServerType DEF PersistEnds
      <4> QED BY <2>1, <3>5, <4>1, <4>2 DEF PersistEnds
    <3>6. ASSUME NEW t \in Tasks, NEW ok \in BOOLEAN, TaskEnds(t, ok) PROVE TypeOK'
      <4>1. TableTypeOK'
        BY <3>6, NewResult DEF TaskEnds, Statuses, Terminal
      <4>2. run' \in [Tasks -> RunState]
        BY <3>6 DEF TaskEnds, RunState, Ran
      <4> QED BY <2>1, <3>6, <4>1, <4>2 DEF TaskEnds
    <3> QED BY <2>1, <3>1, <3>2, <3>3, <3>4, <3>5, <3>6 DEF ServerStep
  <2>2. CASE Closed
    BY <2>2 DEF Closed
  <2>3. CASE Killed
    <3>1. TableTypeOK' /\ file' \in Documents /\ failed' \in BOOLEAN
      BY <2>3, EmptyTable DEF Killed, Die
    <3>2. faults' \in 0 .. MaxFaults
      BY <2>3, ServerType DEF Killed, Die
    <3> QED BY <2>3, <3>1, <3>2 DEF Killed, Die, RunState, Traffic
  <2>4. ASSUME NEW t \in Tasks, CallerStep(t) PROVE TypeOK'
    <3> USE DEF Becomes, Calls, Accepted, Local, Traffic, Open
    <3>1. CASE pollResult(t)
      <4>1. results[t] \in Statuses
        BY DEF Documents
      <4> QED BY <3>1, <4>1 DEF pollResult, Statuses, Terminal
    <3>2. CASE delegate(t) \/ Delegated(t) \/ DelegateFails(t) \/ awaitResult(t)
      BY <3>2 DEF delegate, Delegated, DelegateFails, awaitResult
    <3> QED BY <2>4, <3>1, <3>2 DEF CallerStep
  <2>5. ASSUME NEW t \in Tasks, ServerTask(t) PROVE TypeOK'
    <3>1. CASE Accept(t)
      <4>1. TableTypeOK'
        BY <3>1, NewTable, Entering DEF Accept, AcceptTask, Statuses
      <4> QED BY <3>1, <4>1 DEF Accept, AcceptTask, Reply, Carries, Traffic, Open, RunState
    <3>2. CASE TakeRequest(t) \/ Reject(t)
      BY <2>5, <3>2 DEF TakeRequest, Reject, Reply, Carries, Traffic, Open
    <3> QED BY <2>5, <3>1, <3>2 DEF ServerTask
  <2>6. CASE UNCHANGED vars
    BY <2>6
  <2> QED BY <2>1, <2>2, <2>3, <2>4, <2>5, <2>6 DEF Next
<1> QED BY <1>1, <1>2, PTL DEF Spec
-----------------------------------------------------------------------------
(***************************************************************************)
(* Why the table and the file can be trusted.  Changes during a write are  *)
(* remembered, so the file is the table when no write is left to do; what  *)
(* is ended in the table, its copy or the file is a run that ended so; and *)
(* a clean stop leaves no task running and none pending.                   *)
(***************************************************************************)
SavesLast == persist # "idle" /\ ~requested => snap = results

IdleIsDone == persist = "idle" => ~requested

TrueIn(doc) ==
  \A t \in Tasks : /\ doc[t] = "completed" => run[t] = "ok"
                   /\ doc[t] = "failed" => run[t] \in {"threw", "dropped"}

Settled == srv \in {"flushing", "down"} => \A t \in Tasks : run[t] # "running"

DownIsIdle == srv = "down" => persist = "idle"

NothingLost ==
  faults = 0 => /\ ~failed
                /\ \A t \in Tasks : results[t] = "pending" => run[t] = "running"
                /\ srv = "down" => \A t \in Tasks : file[t] # "pending"

SInv ==
  /\ CoalescedWrites /\ SavesLast /\ IdleIsDone
  /\ TrueIn(results) /\ TrueIn(file) /\ TrueIn(snap)
  /\ Settled /\ DownIsIdle /\ NothingLost

\* Scheduling a write keeps what is said of writes; the copy in hand is the old or the new table.
LEMMA Scheduled ==
  ASSUME TableTypeOK, SavesLast, IdleIsDone, NEW new, schedulePersist(new)
  PROVE  /\ SavesLast' /\ IdleIsDone' /\ persist' # "idle"
         /\ results' = new /\ snap' \in {snap, new}
<1> USE DEF TableTypeOK, SavesLast, IdleIsDone, schedulePersist
<1>1. CASE persist # "idle"
  BY <1>1
<1>2. CASE persist = "idle"
  BY <1>2
<1> QED BY <1>1, <1>2

\* So does updating an entry in place, which the document may or may not get.
LEMMA Updated ==
  ASSUME TableTypeOK, SavesLast, IdleIsDone, NEW t, NEW s, submitResult(t, s)
  PROVE  /\ SavesLast' /\ IdleIsDone' /\ persist' # "idle"
         /\ results' = [results EXCEPT ![t] = s]
         /\ snap' \in {snap, [snap EXCEPT ![t] = s], [results EXCEPT ![t] = s]}
<1>1. CASE persist = "opening" /\ snap[t] # "none"
  BY <1>1 DEF submitResult, SavesLast, IdleIsDone
<1>2. CASE ~(persist = "opening" /\ snap[t] # "none")
  BY <1>2, Scheduled DEF submitResult
<1> QED BY <1>1, <1>2

\* A table that forgets ended entries is as true and as settled as it was.
LEMMA ForgettingIsTrue ==
  ASSUME NEW doc \in Documents, NEW S, TrueIn(doc)
  PROVE  /\ TrueIn(Without(doc, S))
         /\ \A t \in Tasks : Without(doc, S)[t] = "pending" => doc[t] = "pending"
BY DEF TrueIn, Without, Documents

\* The invariant of the server holds always, by the types.
LEMMA ServerInvariant == Spec => []SInv
<1>1. Init => SInv
  BY DEF Init, ServerInit, Empty, SInv, CoalescedWrites, SavesLast, IdleIsDone, TrueIn,
         Settled, DownIsIdle, NothingLost
<1>2. TypeOK /\ SInv /\ [Next]_vars => SInv'
  <2> SUFFICES ASSUME TypeOK, SInv, [Next]_vars PROVE SInv'
    OBVIOUS
  <2> USE DEF vars, svars, table, disk
  <2>0. /\ TableTypeOK /\ results \in Documents /\ file \in Documents
        /\ run \in [Tasks -> RunState] /\ faults \in Nat
    BY ServerType DEF TypeOK, ServerTypeOK, TableTypeOK
  <2>1. CASE Start /\ UNCHANGED <<call, net>>
    <3>1. PICK S \in SUBSET Ended(file) :
             IF S = {} THEN results' = file /\ UNCHANGED <<persist, snap, requested>>
             ELSE schedulePersist(Without(file, S))
      BY <2>1 DEF Start
    <3>2. persist = "idle" /\ srv' = "up" /\ ~failed' /\ UNCHANGED <<file, run, faults>>
      BY <2>1 DEF Start, SInv, DownIsIdle
    <3>3. CASE S = {}
      BY <3>1, <3>2, <3>3 DEF SInv, CoalescedWrites, SavesLast, IdleIsDone, TrueIn,
         Settled, DownIsIdle, NothingLost, Start
    <3>4. CASE S # {}
      <4>1. schedulePersist(Without(file, S))
        BY <3>1, <3>4
      <4>2. /\ SavesLast' /\ IdleIsDone' /\ persist' # "idle"
            /\ results' = Without(file, S) /\ snap' \in {snap, Without(file, S)}
        BY <2>0, <4>1, Scheduled DEF SInv
      <4>3. /\ TrueIn(Without(file, S))
            /\ \A t \in Tasks : Without(file, S)[t] = "pending" => file[t] = "pending"
        BY <2>0, ForgettingIsTrue DEF SInv
      <4>4. TrueIn(results)' /\ TrueIn(file)' /\ TrueIn(snap)'
        BY <3>2, <4>2, <4>3 DEF TrueIn, SInv
      <4>5. NothingLost'
        BY <2>1, <3>2, <4>2, <4>3 DEF NothingLost, SInv, Start
      <4> QED BY <3>2, <4>2, <4>4, <4>5 DEF SInv, CoalescedWrites, Settled, DownIsIdle
    <3> QED BY <3>3, <3>4
  <2>2. CASE (Stop \/ waitForAcceptedTasksToSettle \/ PersistWrites) /\ UNCHANGED <<call, net>>
    BY <2>2 DEF Stop, waitForAcceptedTasksToSettle, PersistWrites, SInv, CoalescedWrites, SavesLast,
       IdleIsDone, TrueIn, Settled, DownIsIdle, NothingLost
  <2>3. CASE Stopped /\ UNCHANGED <<call, net>>
    <3>1. run' = run /\ srv' = "down" /\ persist' = "idle" /\ ~requested'
      BY <2>0, <2>3 DEF Stopped, SInv, Settled
    <3>2. UNCHANGED <<file, failed, faults>> /\ results' = Empty /\ snap' = Empty
      BY <2>3 DEF Stopped
    <3>3. faults = 0 => file = results
      BY <2>3 DEF Stopped, SInv, CoalescedWrites, NothingLost
    <3>4. NothingLost'
      BY <2>3, <3>1, <3>2, <3>3 DEF Stopped, SInv, NothingLost, Settled, Empty
    <3>5. TrueIn(results)' /\ TrueIn(file)' /\ TrueIn(snap)'
      BY <3>1, <3>2 DEF TrueIn, SInv, Empty
    <3>6. Settled'
      BY <2>3, <3>1 DEF Stopped, SInv, Settled
    <3> QED BY <3>1, <3>4, <3>5, <3>6 DEF SInv, CoalescedWrites, SavesLast, IdleIsDone, DownIsIdle
  <2>4. CASE evictExpiredResults /\ UNCHANGED <<call, net>>
    <3>1. PICK S \in SUBSET Ended(results) : schedulePersist(Without(results, S))
      BY <2>4 DEF evictExpiredResults
    <3>2. srv = "up" /\ UNCHANGED <<srv, file, failed, run, faults>>
      BY <2>4 DEF evictExpiredResults
    <3>3. /\ SavesLast' /\ IdleIsDone' /\ persist' # "idle"
          /\ results' = Without(results, S) /\ snap' \in {snap, Without(results, S)}
      BY <2>0, <3>1, Scheduled DEF SInv
    <3>4. /\ TrueIn(Without(results, S))
          /\ \A t \in Tasks : Without(results, S)[t] = "pending" => results[t] = "pending"
      BY <2>0, ForgettingIsTrue DEF SInv
    <3>5. TrueIn(results)' /\ TrueIn(file)' /\ TrueIn(snap)'
      BY <3>2, <3>3, <3>4 DEF TrueIn, SInv
    <3> QED BY <3>2, <3>3, <3>4, <3>5
            DEF SInv, CoalescedWrites, Settled, DownIsIdle, NothingLost
  <2>5. ASSUME NEW ok \in BOOLEAN, PersistEnds(ok), UNCHANGED <<call, net>> PROVE SInv'
    <3>1. /\ persist # "idle" /\ requested' = FALSE
          /\ UNCHANGED <<srv, results, run>>
          /\ file' = (IF ok THEN snap ELSE file) /\ failed' = ~ok
          /\ faults' = (IF ok THEN faults ELSE faults + 1)
      BY <2>5 DEF PersistEnds
    <3>2. TrueIn(file)' /\ TrueIn(results)'
      BY <3>1 DEF SInv, TrueIn
    <3>3. ~(faults' = 0 /\ ~ok)
      BY <2>0, <3>1
    <3>4. NothingLost'
      BY <2>0, <2>5, <3>1, <3>3 DEF NothingLost, SInv, DownIsIdle
    <3>5. CASE requested
      <4>1. snap' = results /\ persist' = "opening"
        BY <2>5, <3>5 DEF PersistEnds
      <4> QED BY <3>1, <3>2, <3>4, <4>1
              DEF SInv, TrueIn, CoalescedWrites, SavesLast, IdleIsDone, Settled, DownIsIdle
    <3>6. CASE ~requested
      <4>1. snap' = Empty /\ persist' = "idle"
        BY <2>5, <3>6 DEF PersistEnds
      <4>2. TrueIn(snap)'
        BY <4>1 DEF TrueIn, Empty
      <4> QED BY <3>1, <3>2, <3>4, <3>6, <4>1, <4>2
              DEF SInv, CoalescedWrites, SavesLast, IdleIsDone, Settled, DownIsIdle
    <3> QED BY <3>5, <3>6
  <2>6. ASSUME NEW t \in Tasks, NEW ok \in BOOLEAN, TaskEnds(t, ok), UNCHANGED <<call, net>>
        PROVE  SInv'
    <3> DEFINE end == IF ok /\ srv = "up" THEN "completed" ELSE "failed"
    <3> DEFINE new == [results EXCEPT ![t] = end]
    <3>1. /\ run[t] = "running" /\ submitResult(t, end)
          /\ run' = [run EXCEPT ![t] = IF ~ok THEN "threw" ELSE IF srv = "up" THEN "ok" ELSE "dropped"]
          /\ UNCHANGED <<srv, file, failed, faults>>
      BY <2>6 DEF TaskEnds
    <3>2. /\ SavesLast' /\ IdleIsDone' /\ persist' # "idle"
          /\ results' = new /\ snap' \in {snap, [snap EXCEPT ![t] = end], new}
      BY <2>0, <3>1, Updated DEF SInv
    <3>3. TrueIn(file)' /\ \A u \in Tasks : /\ snap[u] = "completed" => run'[u] = "ok"
                                            /\ snap[u] = "failed" => run'[u] \in {"threw", "dropped"}
      BY <2>0, <3>1 DEF SInv, TrueIn
    <3>4. \A u \in Tasks : /\ new[u] = "completed" => run'[u] = "ok"
                           /\ new[u] = "failed" => run'[u] \in {"threw", "dropped"}
      BY <2>0, <3>1 DEF SInv, TrueIn, Documents
    <3>5. /\ end \in {"completed", "failed"} /\ snap \in Documents
          /\ end = "completed" => run'[t] = "ok"
          /\ end = "failed" => run'[t] \in {"threw", "dropped"}
      <4>1. snap \in Documents
        BY <2>0 DEF TableTypeOK
      <4>2. run'[t] = IF ~ok THEN "threw" ELSE IF srv = "up" THEN "ok" ELSE "dropped"
        BY <2>0, <3>1
      <4> QED BY <4>1, <4>2
    <3>6. TrueIn(results)' /\ TrueIn(snap)'
      <4>1. CASE snap' = [snap EXCEPT ![t] = end]
        BY <3>2, <3>3, <3>4, <3>5, <4>1 DEF TrueIn, Documents
      <4>2. CASE snap' \in {snap, new}
        BY <3>2, <3>3, <3>4, <4>2 DEF TrueIn
      <4> QED BY <3>2, <4>1, <4>2
    <3>7. NothingLost'
      BY <2>0, <3>1, <3>2 DEF NothingLost, SInv, Documents, Settled
    <3>8. Settled'
      BY <2>0, <3>1 DEF SInv, Settled
    <3> QED BY <3>1, <3>2, <3>3, <3>6, <3>7, <3>8
            DEF SInv, CoalescedWrites, DownIsIdle, Settled
  <2>7. CASE Closed
    BY <2>7 DEF Closed, SInv, CoalescedWrites, SavesLast, IdleIsDone, TrueIn, Settled,
       DownIsIdle, NothingLost
  <2>8. CASE Killed
    <3>1. /\ srv' = "down" /\ persist' = "idle" /\ ~requested' /\ results' = Empty
          /\ snap' = Empty /\ file' \in {file, snap} /\ faults' # 0
          /\ run' = [t \in Tasks |-> IF run[t] = "running" THEN "killed" ELSE run[t]]
      BY <2>0, <2>8 DEF Killed, Die
    <3>2. TrueIn(results)' /\ TrueIn(snap)' /\ TrueIn(file)'
      BY <2>0, <3>1 DEF SInv, TrueIn, Empty
    <3>3. Settled'
      BY <3>1 DEF Settled
    <3> QED BY <3>1, <3>2, <3>3
            DEF SInv, CoalescedWrites, SavesLast, IdleIsDone, DownIsIdle, NothingLost
  <2>9. ASSUME NEW t \in Tasks, Accept(t) PROVE SInv'
    <3>1. /\ run[t] = "no" /\ run' = [run EXCEPT ![t] = "running"]
          /\ schedulePersist([results EXCEPT ![t] = "pending"])
          /\ srv \in {"up", "closing"} /\ UNCHANGED <<srv, file, failed, faults>>
      BY <2>9 DEF Accept, AcceptTask, Serving
    <3>2. /\ SavesLast' /\ IdleIsDone' /\ persist' # "idle"
          /\ results' = [results EXCEPT ![t] = "pending"]
          /\ snap' \in {snap, [results EXCEPT ![t] = "pending"]}
      BY <2>0, <3>1, Scheduled DEF SInv
    <3>3. TrueIn(file)' /\ TrueIn(results)' /\ TrueIn(snap)'
      BY <2>0, <3>1, <3>2 DEF SInv, TrueIn, Documents
    <3>4. NothingLost'
      BY <2>0, <3>1, <3>2 DEF NothingLost, SInv, Documents
    <3> QED BY <3>1, <3>2, <3>3, <3>4 DEF SInv, CoalescedWrites, Settled, DownIsIdle
  <2>10. ASSUME UNCHANGED svars PROVE SInv'
    BY <2>10 DEF SInv, CoalescedWrites, SavesLast, IdleIsDone, TrueIn, Settled, DownIsIdle,
       NothingLost
  <2>11. ASSUME NEW t \in Tasks, CallerStep(t) \/ TakeRequest(t) \/ Reject(t)
         PROVE  UNCHANGED svars
    BY <2>11 DEF CallerStep, delegate, Delegated, DelegateFails, pollResult, awaitResult,
       Becomes, TakeRequest, Reject
  <2> QED BY <2>1, <2>2, <2>3, <2>4, <2>5, <2>6, <2>7, <2>8, <2>9, <2>10, <2>11
          DEF Next, ServerStep, ServerTask
<1> QED BY <1>1, <1>2, Typing, PTL DEF Spec

\* The file of federated results is the table whenever no write is under way.
THEOREM FileKeepsUp == Spec => []CoalescedWrites
BY ServerInvariant, PTL DEF SInv

\* An entry says what became of its task, and nothing pends for ever without a fault.
THEOREM TrueEntries == Spec => []EntriesAreTrue
<1>1. SInv => EntriesAreTrue
  BY DEF SInv, TrueIn, NothingLost, EntriesAreTrue
<1> QED BY <1>1, ServerInvariant, PTL
-----------------------------------------------------------------------------
(***************************************************************************)
(* What the caller knows.  A request is on the connection only of a call   *)
(* that waits for it, or that hung up, and only before its task runs.      *)
(***************************************************************************)
CallInv(t) ==
  /\ net[t] \in {"request", "reading", "accepted", "rejected"} => call[t] = "delegating"
  /\ net[t] = "orphan" => call[t] = "gaveUp"
  /\ net[t] \in {"request", "reading", "orphan", "rejected"} => run[t] = "no"
  /\ net[t] = "accepted" => run[t] # "no"
  /\ call[t] \in {"idle", "turnedAway"} => run[t] = "no"
  /\ call[t] \in Accepted => run[t] # "no"

HInv == \A t \in Tasks : CallInv(t)

\* What a call and its connection do to one task leaves the others as they were.
LEMMA OnlyThisCall ==
  ASSUME TypeOK, HInv, NEW t \in Tasks, NEW from, NEW to, NEW n,
         Becomes(t, from, to, n), CallInv(t)'
  PROVE  HInv'
<1> SUFFICES ASSUME NEW u \in Tasks, u # t PROVE CallInv(u)'
  BY DEF HInv
<1>1. call'[u] = call[u] /\ net'[u] = net[u] /\ run' = run
  BY DEF Becomes, TypeOK, svars
<1> QED BY <1>1 DEF HInv, CallInv

\* That of the calls and their connections does, given the server's.
LEMMA CallInvariant == Spec => []HInv
<1>1. Init => HInv
  BY DEF Init, ServerInit, HInv, CallInv, Accepted
<1>2. TypeOK /\ HInv /\ [Next]_vars => HInv'
  <2> SUFFICES ASSUME TypeOK, HInv, [Next]_vars PROVE HInv'
    OBVIOUS
  <2>0. /\ run \in [Tasks -> RunState] /\ call \in [Tasks -> Calls]
        /\ net \in [Tasks -> Traffic] /\ results \in [Tasks -> Statuses]
    BY DEF TypeOK, ServerTypeOK, Documents
  <2>1. ASSUME UNCHANGED <<call, net>>, \A t \in Tasks : run[t] = "no" <=> run'[t] = "no"
        PROVE  HInv'
    BY <2>1 DEF HInv, CallInv
  <2>2. ASSUME ServerStep, UNCHANGED <<call, net>> PROVE HInv'
    <3>1. \A t \in Tasks : run[t] = "no" <=> run'[t] = "no"
      <4>1. CASE run' = run
        BY <4>1
      <4>2. CASE Stopped
        BY <2>0, <4>2 DEF Stopped
      <4>3. ASSUME NEW t \in Tasks, NEW ok \in BOOLEAN, TaskEnds(t, ok)
            PROVE  \A u \in Tasks : run[u] = "no" <=> run'[u] = "no"
        BY <2>0, <4>3 DEF TaskEnds
      <4> QED BY <2>2, <4>1, <4>2, <4>3 DEF ServerStep, Start, Stop,
                 waitForAcceptedTasksToSettle, evictExpiredResults, PersistWrites, PersistEnds
    <3> QED BY <2>1, <2>2, <3>1
  <2>3. CASE Closed \/ UNCHANGED vars
    BY <2>1, <2>3 DEF Closed, vars, svars
  <2>4. CASE Killed
    BY <2>0, <2>4 DEF Killed, Die, HInv, CallInv
  <2>5. ASSUME NEW t \in Tasks, CallerStep(t) PROVE HInv'
    <3>0. CallInv(t) /\ call[t] \in Calls
      BY <2>0 DEF HInv
    <3> USE DEF Becomes, svars, CallInv, Accepted, Local, Calls
    <3>1. CASE delegate(t)
      <4>1. CallInv(t)'
        BY <2>0, <3>0, <3>1 DEF delegate
      <4> QED BY <3>1, <4>1, OnlyThisCall DEF delegate
    <3>2. CASE Delegated(t)
      <4>1. CallInv(t)'
        BY <2>0, <3>0, <3>2 DEF Delegated
      <4> QED BY <3>2, <4>1, OnlyThisCall DEF Delegated
    <3>3. CASE DelegateFails(t)
      <4>1. CallInv(t)'
        BY <2>0, <3>0, <3>3 DEF DelegateFails
      <4> QED BY <3>3, <4>1, OnlyThisCall DEF DelegateFails
    <3>4. CASE pollResult(t)
      <4>1. CallInv(t)'
        BY <2>0, <3>0, <3>4 DEF pollResult, Statuses, Terminal
      <4> QED BY <3>4, <4>1, OnlyThisCall DEF pollResult
    <3>5. CASE awaitResult(t)
      <4>1. CallInv(t)'
        BY <2>0, <3>0, <3>5 DEF awaitResult
      <4> QED BY <3>5, <4>1, OnlyThisCall DEF awaitResult
    <3> QED BY <2>5, <3>1, <3>2, <3>3, <3>4, <3>5 DEF CallerStep
  <2>6. ASSUME NEW t \in Tasks, ServerTask(t) PROVE HInv'
    <3>1. CASE TakeRequest(t) \/ Reject(t)
      BY <2>0, <3>1 DEF TakeRequest, Reject, Reply, Carries, Open, svars, HInv, CallInv
    <3>2. CASE Accept(t)
      BY <2>0, <3>2 DEF Accept, AcceptTask, Reply, Carries, Open, HInv, CallInv, Accepted
    <3> QED BY <2>6, <3>1, <3>2 DEF ServerTask
  <2> QED BY <2>2, <2>3, <2>4, <2>5, <2>6 DEF Next
<1> QED BY <1>1, <1>2, Typing, PTL DEF Spec

\* A caller that was turned away runs alone; one that waits, waits for a task that ran.
THEOREM HeardRight == Spec => []HeardIsSo
<1>1. HInv => HeardIsSo
  BY DEF HInv, CallInv, HeardIsSo
<1> QED BY <1>1, CallInvariant, PTL
-----------------------------------------------------------------------------
(***************************************************************************)
(* Delegation over HTTP is the delegated call it promises.                 *)
(***************************************************************************)
runBar    == [t \in Tasks |-> IF run[t] = "dropped" THEN "ok" ELSE run[t]]
answerBar == [t \in Tasks |-> IF call[t] \in Local THEN "local"
                              ELSE IF call[t] \in Ends THEN call[t] ELSE "none"]

\* A step of a call that ends it gives the caller its one answer.
LEMMA Answering ==
  ASSUME TypeOK, NEW t \in Tasks, NEW from \in {"idle", "delegating", "awaiting"},
         NEW to \in Calls, NEW n, Becomes(t, from, to, n),
         to = "completed" => run[t] = "ok"
  PROVE  Call!Next \/ UNCHANGED <<runBar, answerBar>>
<1> DEFINE a == IF to \in Local THEN "local" ELSE IF to \in Ends THEN to ELSE "none"
<1> USE DEF Local, Ends, Accepted, Calls
<1>0. run' = run /\ call[t] = from /\ call' = [call EXCEPT ![t] = to]
  BY DEF Becomes, svars
<1>1. runBar' = runBar
  BY <1>0 DEF runBar
<1>2. answerBar' = [answerBar EXCEPT ![t] = a] /\ answerBar[t] = "none"
  BY <1>0 DEF answerBar, TypeOK
<1>3. a \in {"none", "completed", "failed", "local"}
  OBVIOUS
<1>4. CASE a = "none"
  BY <1>1, <1>2, <1>4 DEF answerBar
<1>5. CASE a # "none"
  <2>1. a = "completed" => runBar[t] = "ok"
    BY DEF runBar
  <2>2. Call!Give(t, a)
    BY <1>1, <1>2, <1>3, <1>5, <2>1 DEF Call!Give, Call!Answers, runBar, answerBar
  <2> QED BY <1>3, <1>5, <2>2 DEF Call!Next, Call!Answers
<1> QED BY <1>4, <1>5

\* Whatever the server forgets, writes late, evicts or reads back from its file, the
\* caller is told that a task completed only when its one run did.
THEOREM Refinement == Spec => RefinesDelegatedCall
<1>1. Init => Call!Init
  BY DEF Init, ServerInit, Call!Init, Local, Ends
<1>2. TypeOK /\ SInv /\ [Next]_vars => [Call!Next]_<<runBar, answerBar>>
  <2> SUFFICES ASSUME TypeOK, SInv, [Next]_vars
               PROVE  Call!Next \/ UNCHANGED <<runBar, answerBar>>
    OBVIOUS
  <2>0. run \in [Tasks -> RunState] /\ results \in [Tasks -> Statuses]
    BY DEF TypeOK, ServerTypeOK, Documents
  <2>1. ASSUME UNCHANGED <<run, call>> PROVE UNCHANGED <<runBar, answerBar>>
    BY <2>1 DEF runBar, answerBar
  <2>2. ASSUME UNCHANGED call,
               run' = [t \in Tasks |-> IF run[t] = "running" THEN "killed" ELSE run[t]]
        PROVE  Call!Next
    <3>1. runBar' = [t \in Tasks |-> IF runBar[t] = "running" THEN "killed" ELSE runBar[t]]
      BY <2>0, <2>2 DEF runBar
    <3>2. answerBar' = answerBar
      BY <2>2 DEF answerBar
    <3> QED BY <3>1, <3>2 DEF Call!Next, Call!Die, runBar, answerBar
  <2>3. ASSUME NEW t \in Tasks, NEW ok \in BOOLEAN, TaskEnds(t, ok), UNCHANGED call
        PROVE  Call!Next
    <3> DEFINE r == IF ok THEN "ok" ELSE "threw"
    <3>1. runBar[t] = "running" /\ runBar' = [runBar EXCEPT ![t] = r]
      BY <2>0, <2>3 DEF TaskEnds, runBar
    <3>2. answerBar' = answerBar
      BY <2>3 DEF answerBar
    <3>3. Call!End(t, r)
      BY <3>1, <3>2 DEF Call!End, runBar, answerBar
    <3> QED BY <3>3 DEF Call!Next
  <2>4. ASSUME NEW t \in Tasks, Accept(t) PROVE Call!Next
    <3>1. runBar[t] = "no" /\ runBar' = [runBar EXCEPT ![t] = "running"]
      BY <2>0, <2>4 DEF Accept, AcceptTask, runBar
    <3>2. answerBar' = answerBar
      BY <2>4 DEF Accept, Reply, Carries, answerBar
    <3>3. Call!Begin(t)
      BY <3>1, <3>2 DEF Call!Begin, runBar, answerBar
    <3> QED BY <3>3 DEF Call!Next
  <2>5. ASSUME NEW t \in Tasks, CallerStep(t)
        PROVE  Call!Next \/ UNCHANGED <<runBar, answerBar>>
    <3> USE DEF Calls, Accepted, Local
    <3>1. CASE delegate(t) \/ Delegated(t) \/ DelegateFails(t) \/ awaitResult(t)
      BY <3>1, Answering DEF delegate, Delegated, DelegateFails, awaitResult
    <3>2. CASE pollResult(t)
      <4>1. results[t] = "completed" => run[t] = "ok"
        BY DEF SInv, TrueIn
      <4> QED BY <2>0, <3>2, <4>1, Answering DEF pollResult, Statuses, Terminal
    <3> QED BY <2>5, <3>1, <3>2 DEF CallerStep
  <2>6. ASSUME NEW t \in Tasks, TakeRequest(t) \/ Reject(t) PROVE UNCHANGED <<run, call>>
    BY <2>6 DEF TakeRequest, Reject, Reply, Carries, svars
  <2>7. CASE ServerStep /\ UNCHANGED <<call, net>>
    BY <2>1, <2>2, <2>3, <2>7 DEF ServerStep, Start, Stop, Stopped,
       waitForAcceptedTasksToSettle, evictExpiredResults, PersistWrites, PersistEnds
  <2>8. CASE Closed \/ UNCHANGED vars
    BY <2>1, <2>8 DEF Closed, vars, svars
  <2>9. CASE Killed
    BY <2>2, <2>9 DEF Killed, Die
  <2> QED BY <2>1, <2>4, <2>5, <2>6, <2>7, <2>8, <2>9 DEF Next, ServerTask
<1> QED BY <1>1, <1>2, Typing, ServerInvariant, PTL
        DEF Spec, RefinesDelegatedCall, Call!Spec, runBar, answerBar
=============================================================================
