-------------------------- MODULE ConversationQueue --------------------------
(***************************************************************************)
(* One conversation: the requests that arrive for it, the worker loop that *)
(* runs its queued jobs one after the other, the session store that keeps  *)
(* its state, and the recovery of jobs left behind by a dead worker.       *)
(*                                                                         *)
(* Everything runs on one event loop: an action is the code between two    *)
(* awaits.  getSession of the JSON store hands out the object in memory,   *)
(* shared by all who hold it, until some setSession replaces it by the     *)
(* merge of the file with a copy taken when setSession was called; the     *)
(* SQLite store hands out copies and overwrites the row.                   *)
(***************************************************************************)
EXTENDS SessionMerge

CONSTANTS
  Backend,       \* "json" or "sqlite"
  Settings       \* what a run of the program may meet, see Setting

Requests == Jobs    \* request r creates job r, unless it is a "status"
Kinds    == {"chat", "approve", "status", "system"}

Setting ==
  [kindOf     : [Requests -> Kinds],
   serial     : BOOLEAN,   \* the gateway handles one message at a time (Telegram)
   slowIO     : BOOLEAN,   \* sending and persisting may outlast staleRunningJobRecoveryMs
   saveErrors : BOOLEAN,   \* a setSession may throw
   maxCrashes : Nat]       \* bound: deaths of the process

ASSUME OptionsType == Backend \in {"json", "sqlite"} /\ Settings \subseteq Setting

Worker   == 0
Progress == NumJobs + 1
Actors   == Requests \cup {Worker}             \* who hold session objects
Writers  == Actors \cup {Progress}             \* who call setSession
NoObj    == 0
Objs     == 1..(NumJobs + 3)                   \* one each, the store's, a new one

VARIABLES
  file,       \* the session in the store's file or row
  mem,        \* the JSON store's object for the session
  heap,       \* the contents of every session object
  ref,        \* the object each actor holds
  out,        \* the copy a setSession under way took of its argument, or <<>>
  ipc,        \* where each request is
  mustStart,  \* the enqueueJob result of each request: shouldStartWorker
  wpc, job,   \* where the worker loop is ("off": not in activeWorkers), its job
  result,     \* how the job's execution ended
  rechecks,   \* finished loops that have not looked at the queue again
  bound,      \* workerBindings holds the session
  started,    \* history: how often each job's execution was started
  sent,       \* history: how often each job's final message was sent
  crashes,
  setting     \* chosen at the start, and kept

store   == <<file, mem, heap, ref, out>>
loop    == <<wpc, job, result, rechecks>>
history == <<started, sent, crashes, setting>>
vars    == <<store, ipc, mustStart, loop, bound, history>>

KindOf     == setting.kindOf
Serial     == setting.serial
SlowIO     == setting.slowIO
SaveErrors == setting.saveErrors
MaxCrashes == setting.maxCrashes
Calm       == ~SlowIO /\ ~SaveErrors /\ MaxCrashes = 0

Enqueues(r)    == KindOf[r] # "status"
IsSystemJob(r) == KindOf[r] = "system"

IPcs == {"idle", "routing", "turn", "saving", "saved", "done", "failed", "dead"}
WPcs == {"off", "poll", "claim", "exec", "outcome", "record", "recall", "store", "lost",
         "salvage", "quiet", "deliver", "send", "delivered"}
Results == {"completed", "failed", "suppressed", "blocked"}

TypeOK ==
  /\ file \in Session
  /\ mem \in Objs \cup {NoObj}
  /\ heap \in [Objs -> Session]
  /\ ref \in [Actors -> Objs \cup {NoObj}]
  /\ out \in [Writers -> Seq(Session)]
  /\ ipc \in [Requests -> IPcs]
  /\ mustStart \in [Requests -> BOOLEAN]
  /\ wpc \in WPcs /\ job \in Jobs \cup {NoJob} /\ result \in Results
  /\ rechecks \in Nat /\ bound \in BOOLEAN
  /\ started \in [Jobs -> Nat] /\ sent \in [Jobs -> Nat] /\ crashes \in 0..MaxCrashes
  /\ setting \in Settings

Init ==
  /\ file = EmptySession
  /\ mem = IF Backend = "json" THEN 1 ELSE NoObj
  /\ heap = [o \in Objs |-> EmptySession]
  /\ ref = [a \in Actors |-> NoObj]
  /\ out = [a \in Writers |-> <<>>]
  /\ ipc = [r \in Requests |-> "idle"]
  /\ mustStart = [r \in Requests |-> FALSE]
  /\ wpc = "off" /\ job = NoJob /\ result = "completed"
  /\ rechecks = 0 /\ bound = FALSE
  /\ started = [j \in Jobs |-> 0] /\ sent = [j \in Jobs |-> 0] /\ crashes = 0
  /\ setting \in Settings
-----------------------------------------------------------------------------
(* The session store. *)

Live  == {mem} \cup {ref[a] : a \in Actors}
Fresh == CHOOSE o \in Objs : o \notin Live /\ \A x \in Objs \ Live : o <= x

\* Object o now holds s; objects that nobody holds any more are gone.  Used after
\* mem' and ref' are known.
Store(o, s) ==
  heap' = [x \in Objs |-> IF x \notin Live' THEN EmptySession
                          ELSE IF x = o THEN s ELSE heap[x]]

\* What getSession returns, and the object that is.
GetSession == IF Backend = "json" THEN heap[mem] ELSE file
Got        == IF Backend = "json" THEN mem ELSE Fresh

\* Actor a holds the object getSession returned, and has brought it to s.
Take(a, s) ==
  /\ ref' = [ref EXCEPT ![a] = Got]
  /\ mem' = mem
  /\ Store(Got, s)

\* Actor a brings the object it holds to s.
Update(a, s) == UNCHANGED <<ref, mem>> /\ Store(ref[a], s)

\* Actor a holds no object any longer.
Without(a) == [ref EXCEPT ![a] = NoObj]

Drop(a) == ref' = Without(a) /\ mem' = mem /\ Store(NoObj, EmptySession)

\* setSession is called: normalizeSession copies its argument.
SetSession(a, s) == out' = [out EXCEPT ![a] = <<s>>]

Merged(a) ==
  IF Backend = "json" THEN mergeConversationSession(file, Head(out[a])) ELSE Head(out[a])

\* The store's object is replaced by what was merged; `refs' are held from now on.
Remember(s, refs) ==
  /\ ref' = refs
  /\ mem' = IF Backend = "json" THEN Fresh ELSE NoObj
  /\ Store(mem', s)

\* Under the file lock: reload, merge, keep and write; or the upsert of the row.
Commit(a, refs) ==
  /\ out[a] # <<>>
  /\ file' = Merged(a)
  /\ Remember(Merged(a), refs)
  /\ out' = [out EXCEPT ![a] = <<>>]

\* setSession throws: before the reload, or when the file cannot be written.
FailCommit(a) ==
  /\ SaveErrors
  /\ out[a] # <<>>
  /\ \/ Drop(a)
     \/ Backend = "json" /\ Remember(Merged(a), Without(a))
  /\ out' = [out EXCEPT ![a] = <<>>]
  /\ UNCHANGED file

\* The setSession of another conversation reloads every session from the file.
OtherConversationSaves ==
  /\ Backend = "json"
  /\ heap[mem] # file
  /\ Remember(file, ref)
  /\ UNCHANGED <<file, out, ipc, mustStart, loop, bound, history>>
-----------------------------------------------------------------------------
(* Changes of a session object, each made without an await in between. *)

enqueueConversationJob(s, j) == [s EXCEPT !.queue = Append(@, j)]

hadActiveWork(s) == s.running # NoJob \/ Len(s.queue) > 1

\* Mutant: the job keeps its status.
MarkWithoutStatus(s, j) ==
  [s EXCEPT !.queue = Tail(@), !.running = j,
            !.recent[j] = [status |-> "queued", delivery |-> "none"]]

markQueuedJobRunning(s, j) ==
  [s EXCEPT !.queue = Tail(@), !.running = j,
            !.recent[j] = [status |-> "running", delivery |-> "none"]]

\* The executed job's status; a failure keeps the recovery trace it finds.
Status(r) == IF r \in {"completed", "suppressed"} THEN "completed" ELSE "failed"
Ended(rec, r) ==
  [rec EXCEPT !.status = IF @ = "recovered" /\ Status(r) = "failed" THEN @ ELSE Status(r)]

persistExecutedJobOutcome(s, j, r) ==
  [s EXCEPT !.running = NoJob, !.recent[j] = Ended(@, r)]

recoverPostExecutionPersistenceFailure(s, j, r) ==
  [s EXCEPT !.running = NoJob, !.recent[j] = [Ended(@, r) EXCEPT !.delivery = "none"]]

finalDelivery(s, j, ok) ==
  [s EXCEPT !.recent[j].delivery = IF ok THEN "sent" ELSE "failed"]

RecoveredJob(rec) ==
  [status |-> "recovered", delivery |-> IF rec.delivery = "none" THEN "failed" ELSE rec.delivery]

\* The jobs of queue q that are younger than `stale', in their order (filter).
Younger(q, stale) ==
  LET kept == {n \in DOMAIN q : q[n] > stale}
      at   == CHOOSE p \in [1..Cardinality(kept) -> kept] :
                \A a, b \in DOMAIN p : a < b => p[a] < p[b]
  IN  [n \in 1..Cardinality(kept) |-> q[at[n]]]

\* Queued jobs as old as `stale', when nothing runs; then a running job that no
\* worker has reported on for long enough.
recoverStaleQueuedJobs(s, stale) ==
  IF s.running # NoJob THEN s
  ELSE [s EXCEPT !.queue  = Younger(@, stale),
                 !.recent = [j \in Jobs |-> IF j \in Elements(s.queue) /\ j <= stale
                                              THEN RecoveredJob(Absent) ELSE @[j]]]

recoverRunningJob(s) ==
  IF s.running = NoJob THEN s
  ELSE [s EXCEPT !.running = NoJob, !.recent[s.running] = RecoveredJob(@)]

\* A loop that executes its job reports every heartbeatIntervalMs.
hasFreshWorkerOwnership == wpc # "off" /\ (SlowIO => wpc = "exec")

\* recoverStaleRunningJobIfNeeded: time has passed, or not enough of it.
Recoveries(s) ==
  {s} \cup
  IF hasFreshWorkerOwnership THEN {}
  ELSE {recoverStaleQueuedJobs(s, k) : k \in Jobs} \cup {recoverRunningJob(s)}
-----------------------------------------------------------------------------
(* startConversationWorkerIfNeeded. *)

StartWorker ==
  /\ bound' = TRUE
  /\ wpc' = IF wpc = "off" THEN "poll" ELSE wpc
  /\ UNCHANGED <<job, result, rechecks>>

DontStart == UNCHANGED <<loop, bound>>
-----------------------------------------------------------------------------
(* A request: processConversationMessage, or enqueueConversationSystemJob. *)

Goto(r, l) == ipc' = [ipc EXCEPT ![r] = l]

\* Requests arrive in their order; a serial gateway finishes a message first.
Arrives(r) ==
  /\ ipc[r] = "idle"
  /\ \A q \in Requests : q < r =>
       /\ ipc[q] # "idle"
       /\ Serial => \/ ipc[q] \in {"done", "failed", "dead"}
                    \/ IsSystemJob(q) \/ IsSystemJob(r)

\* setWorkerBinding, getSession, and the recovery of what a dead worker left.
ReceiveMessage(r) ==
  /\ Arrives(r) /\ ~IsSystemJob(r)
  /\ \E s \in Recoveries(GetSession) : Take(r, s)
  /\ bound' = TRUE
  /\ Goto(r, "routing")
  /\ UNCHANGED <<file, out, mustStart, loop, history>>

\* A pulse: read, enqueue and call setSession without an await in between.
EnqueueSystemJob(r) ==
  /\ Arrives(r) /\ IsSystemJob(r)
  /\ LET s == enqueueConversationJob(GetSession, r)
     IN  Take(r, s) /\ SetSession(r, s)
  /\ bound' = TRUE
  /\ Goto(r, "saving")
  /\ UNCHANGED <<file, mustStart, loop, history>>

\* The message was understood as work: enqueueJob.
EnqueueJob(r) ==
  /\ ipc[r] = "routing" /\ Enqueues(r)
  /\ LET s == enqueueConversationJob(heap[ref[r]], r)
     IN  /\ Update(r, s)
         /\ mustStart' = [mustStart EXCEPT ![r] = ~hadActiveWork(s)]
  /\ Goto(r, "turn")
  /\ UNCHANGED <<file, out, loop, bound, history>>

\* The turn is recorded, the reply is ready: setSession is called.
SaveRequest(r) ==
  /\ \/ ipc[r] = "turn"
     \/ ipc[r] = "routing" /\ ~Enqueues(r)
  /\ SetSession(r, heap[ref[r]])
  /\ Goto(r, "saving")
  /\ UNCHANGED <<file, mem, heap, ref, mustStart, loop, bound, history>>

CommitRequest(r) ==
  /\ ipc[r] = "saving"
  /\ Commit(r, ref)
  /\ Goto(r, "saved")
  /\ UNCHANGED <<mustStart, loop, bound, history>>

FailRequest(r) ==
  /\ ipc[r] = "saving"
  /\ FailCommit(r)
  /\ Goto(r, "failed")
  /\ UNCHANGED <<mustStart, loop, bound, history>>

\* Mutant: every kind of request goes by the snapshot.
StartsOnSnapshot(r) == mustStart[r]

\* A chat message starts the worker on the decision taken when it was enqueued,
\* a command or a pulse when the object it still holds has a queue.
StartsWorker(r) ==
  IF KindOf[r] = "chat" THEN mustStart[r] ELSE heap[ref[r]].queue # <<>>

FinishRequest(r) ==
  /\ ipc[r] = "saved"
  /\ IF StartsWorker(r) THEN StartWorker ELSE DontStart
  /\ Drop(r)
  /\ mustStart' = [mustStart EXCEPT ![r] = FALSE]
  /\ Goto(r, "done")
  /\ UNCHANGED <<file, out, history>>
-----------------------------------------------------------------------------
(* The worker loop: processConversationQueue. *)

Step(l) == wpc' = l
NextJob == Step("poll") /\ job' = NoJob /\ result' = "completed"

\* The job at the head of the queue is marked running, and setSession is called.
ClaimJob ==
  /\ wpc = "poll"
  /\ GetSession.running = NoJob /\ GetSession.queue # <<>>
  /\ job' = Head(GetSession.queue)
  /\ LET s == markQueuedJobRunning(GetSession, job')
     IN  Take(Worker, s) /\ SetSession(Worker, s)
  /\ Step("claim")
  /\ UNCHANGED <<file, ipc, mustStart, result, rechecks, bound, history>>

\* Nothing to run, or something runs: the loop ends and leaves activeWorkers.
LeaveQueue ==
  /\ wpc = "poll"
  /\ GetSession.running # NoJob \/ GetSession.queue = <<>>
  /\ Step("off") /\ rechecks' = rechecks + 1
  /\ UNCHANGED <<store, ipc, mustStart, job, result, bound, history>>

\* After leaving, the queue is read once more: work that came meanwhile restarts
\* the worker, if a binding is left; an idle session loses its binding.
RecheckQueue ==
  /\ rechecks > 0 /\ rechecks' = rechecks - 1
  /\ LET work == bound /\ GetSession.queue # <<>>
     IN  IF GetSession.running # NoJob THEN UNCHANGED <<wpc, bound>>
         ELSE IF work THEN wpc' = (IF wpc = "off" THEN "poll" ELSE wpc) /\ UNCHANGED bound
         ELSE bound' = FALSE /\ UNCHANGED wpc
  /\ UNCHANGED <<store, ipc, mustStart, job, result, history>>

\* The claim is saved: executeRunningJob.
StartExecution ==
  /\ wpc = "claim"
  /\ Commit(Worker, ref)
  /\ started' = [started EXCEPT ![job] = @ + 1]
  /\ Step("exec")
  /\ UNCHANGED <<ipc, mustStart, job, result, rechecks, bound, sent, crashes, setting>>

\* persistConversationExecutionProgress: a session that still runs the job is saved.
ReportProgress ==
  /\ wpc = "exec"
  /\ out[Progress] = <<>>
  /\ GetSession.running = job \/ GetSession.recent[job].status = "running"
  /\ SetSession(Progress, GetSession)
  /\ UNCHANGED <<file, mem, heap, ref, ipc, mustStart, loop, bound, history>>

CommitProgress ==
  /\ Commit(Progress, ref)
  /\ UNCHANGED <<ipc, mustStart, loop, bound, history>>

\* The execution ends; the job record it updates is the one the claimed object holds.
\* Only a pulse ends blocked (it was to respond only) or suppressed (nothing to say).
SettleExecution(r) ==
  /\ wpc = "exec"
  /\ r \in {"suppressed", "blocked"} => IsSystemJob(job)
  /\ result' = r
  /\ Update(Worker, [heap[ref[Worker]] EXCEPT !.recent[job] = Ended(@, r)])
  /\ Step("outcome")
  /\ UNCHANGED <<file, out, ipc, mustStart, job, rechecks, bound, history>>

\* persistWorkerExecutionOutcome: getSession, snapshots, the outcome, source recall,
\* setSession, each after an await.
ReadOutcomeSession ==
  /\ wpc = "outcome"
  /\ Take(Worker, GetSession)
  /\ Step("record")
  /\ UNCHANGED <<file, out, ipc, mustStart, job, result, rechecks, bound, history>>

RecordOutcome ==
  /\ wpc = "record"
  /\ Update(Worker, persistExecutedJobOutcome(heap[ref[Worker]], job, result))
  /\ Step("recall")
  /\ UNCHANGED <<file, out, ipc, mustStart, job, result, rechecks, bound, history>>

SaveOutcome ==
  /\ wpc = "recall"
  /\ SetSession(Worker, heap[ref[Worker]])
  /\ Step("store")
  /\ UNCHANGED <<file, mem, heap, ref, ipc, mustStart, job, result, rechecks, bound, history>>

CommitOutcome ==
  /\ wpc \in {"store", "salvage"}
  /\ IF result \in {"suppressed", "blocked"}
       THEN Commit(Worker, ref) /\ Step("quiet")
       ELSE Commit(Worker, Without(Worker)) /\ Step("deliver")
  /\ UNCHANGED <<ipc, mustStart, job, result, rechecks, bound, history>>

\* The outcome could not be saved: a minimal terminal record is, on a new read.
FailOutcome ==
  /\ wpc = "store"
  /\ FailCommit(Worker)
  /\ Step("lost")
  /\ UNCHANGED <<ipc, mustStart, job, result, rechecks, bound, history>>

SalvageOutcome ==
  /\ wpc = "lost"
  /\ LET s == recoverPostExecutionPersistenceFailure(GetSession, job, result)
     IN  Take(Worker, s) /\ SetSession(Worker, s)
  /\ Step("salvage")
  /\ UNCHANGED <<file, ipc, mustStart, job, result, rechecks, bound, history>>

\* A blocked pulse is not shown: its delivery is closed on the session held.
CloseQuietly ==
  /\ wpc = "quiet"
  /\ LET s == finalDelivery(heap[ref[Worker]], job, TRUE)
     IN  Update(Worker, s) /\ SetSession(Worker, s)
  /\ Step("delivered")
  /\ UNCHANGED <<file, ipc, mustStart, job, result, rechecks, bound, history>>

\* deliverFinalMessage, on a transport without acknowledgement edits: the session
\* is read before the message is sent and written after.
ReadDelivery ==
  /\ wpc = "deliver"
  /\ IF Present(GetSession, job) /\ ~IsAttempted(GetSession.recent[job])
       THEN Step("send") /\ Take(Worker, GetSession) /\ UNCHANGED <<job, result>>
       ELSE NextJob /\ UNCHANGED <<mem, heap, ref>>
  /\ UNCHANGED <<file, out, ipc, mustStart, rechecks, bound, history>>

SendFinal(ok) ==
  /\ wpc = "send"
  /\ sent' = IF ok THEN [sent EXCEPT ![job] = @ + 1] ELSE sent
  /\ LET s == finalDelivery(heap[ref[Worker]], job, ok)
     IN  Update(Worker, s) /\ SetSession(Worker, s)
  /\ Step("delivered")
  /\ UNCHANGED <<file, ipc, mustStart, job, result, rechecks, bound, started, crashes, setting>>

\* Mutant: the message is sent, but its outcome is not written.
ForgetDelivery ==
  /\ wpc = "delivered"
  /\ out' = [out EXCEPT ![Worker] = <<>>]
  /\ Drop(Worker)
  /\ NextJob
  /\ UNCHANGED <<file, ipc, mustStart, rechecks, bound, history>>

FinishDelivery ==
  /\ wpc = "delivered"
  /\ Commit(Worker, Without(Worker))
  /\ NextJob
  /\ UNCHANGED <<ipc, mustStart, rechecks, bound, history>>
-----------------------------------------------------------------------------
\* The process dies and a new one starts: only the file remains, and nothing is
\* started before a message comes.  A claim or delivery that cannot be saved is an
\* unhandled rejection, which ends the process too.
Crash ==
  /\ crashes < MaxCrashes /\ crashes' = crashes + 1
  /\ ref' = [a \in Actors |-> NoObj]
  /\ mem' = IF Backend = "json" THEN 1 ELSE NoObj
  /\ heap' = [o \in Objs |-> IF o = mem' THEN file ELSE EmptySession]
  /\ out' = [a \in Writers |-> <<>>]
  /\ ipc' = [r \in Requests |-> IF ipc[r] \in {"idle", "done", "failed"} THEN ipc[r] ELSE "dead"]
  /\ mustStart' = [r \in Requests |-> FALSE]
  /\ wpc' = "off" /\ job' = NoJob /\ result' = "completed"
  /\ rechecks' = 0 /\ bound' = FALSE
  /\ UNCHANGED <<file, started, sent, setting>>

Commits ==
  \/ \E r \in Requests : CommitRequest(r) \/ FailRequest(r)
  \/ StartExecution \/ CommitProgress \/ CommitOutcome \/ FailOutcome \/ FinishDelivery

RequestStep(r) ==
  \/ ReceiveMessage(r) \/ EnqueueSystemJob(r) \/ EnqueueJob(r) \/ SaveRequest(r)
  \/ FinishRequest(r)

LoopStep ==
  \/ ClaimJob \/ LeaveQueue \/ RecheckQueue
  \/ \E r \in Results : SettleExecution(r)
  \/ ReadOutcomeSession \/ RecordOutcome \/ SaveOutcome \/ SalvageOutcome
  \/ CloseQuietly \/ ReadDelivery \/ \E ok \in BOOLEAN : SendFinal(ok)

\* A write to SQLite is made in the turn that calls setSession.
Turn == Backend = "sqlite" => \A a \in Writers : out[a] = <<>>

Next ==
  \/ Commits
  \/ Turn /\ \E r \in Requests : RequestStep(r)
  \/ Turn /\ (LoopStep \/ ReportProgress \/ OtherConversationSaves \/ Crash)

Spec == Init /\ [][Next]_vars

\* Every await returns: file operations, sends and the execution of a job end.
Fairness ==
  /\ WF_vars(LoopStep) /\ WF_vars(RecheckQueue)
  /\ WF_vars(StartExecution \/ CommitOutcome \/ FailOutcome \/ FinishDelivery)
  /\ WF_vars(CommitProgress)
  /\ \A r \in Requests :
       WF_vars(CommitRequest(r) \/ FailRequest(r) \/ SaveRequest(r) \/ FinishRequest(r))
FairSpec == Spec /\ Fairness
-----------------------------------------------------------------------------
\* No job is executed twice: not by a worker that claims from an old object, and
\* not after a stale copy of the queue was written back or the process died.
NoDoubleExecution == \A j \in Jobs : started[j] <= 1

\* Once a request's setSession has returned, its job is in the store for good,
\* queued or with a record: no later write of an older copy makes it disappear.
AcceptedIsKept ==
  \A r \in Requests : Enqueues(r) /\ ipc[r] \in {"saved", "done"} => r \in Known(file)

\* Until the process dies, the store says a job runs only while the worker has that job
\* in hand, so that an idle session is never stranded on a ghost running job.
NoGhostRunning ==
  crashes = 0 /\ file.running # NoJob => wpc \notin {"off", "poll"} /\ job = file.running

\* A job that ended never runs or waits again in the store.
EndedStaysEnded ==
  [][\A j \in Jobs : IsTerminal(file.recent[j]) => IsTerminal(file'.recent[j])]_file

\* The user gets the result of a job at most once, and the store never forgets
\* that it was delivered once the worker has gone on.
DeliveredOnce ==
  \A j \in Jobs : /\ sent[j] <= 1
                  /\ sent[j] = 1 /\ wpc # "delivered" /\ crashes = 0
                       => IsAttempted(file.recent[j])

\* An accepted job ends, without another message having to arrive, where the process
\* lives and its saves succeed in time.
AcceptedEnds ==
  \A r \in Requests :
    Calm /\ Enqueues(r) /\ ipc[r] = "done" ~> IsTerminal(file.recent[r])

\* Under a serial gateway a request whose job was accepted earlier has its turn
\* earlier: the later one is started only when the earlier one was.
FirstComeFirstServed ==
  \A j, k \in Jobs : j < k /\ Enqueues(j) /\ started[k] > 0 => Present(file, j)
=============================================================================
