# TLA+ models of AgentBigBrain

This directory holds a formal model of AgentBigBrain's runtime: TLA+ modules translated
from the TypeScript source, TLC configurations that check them on small instances, and
theorems that TLAPS proves for every instance. Paths below are relative to the
repository; `interfaces/` stands for `src/interfaces/`, `core/` for `src/core/`, and so on.

## 1. The system

AgentBigBrain is an agent runtime in one Node process. Chat gateways, a federation
server or a CLI hand requests to the orchestrator, which plans actions, submits each one
to hard constraints and a council of governors, executes what was approved, and writes
ledgers. Conversations have a session with a queue of jobs and a worker that runs them.

| Part | State it keeps | Operations | Talks to |
|---|---|---|---|
| File lock (`core/fileLock.ts`) | `<file>.lock` with the owner's pid | acquire, reclaim, time out, release, atomic write | every JSON store |
| Run-state store (`core/stateStore.ts`) | `state.json`: runs and metrics | load, appendRun | file lock, orchestrator |
| Interface runtime lock (`interfaces/interfaceRuntimeLock.ts`) | `runtime/interface_runtime.lock` | acquire at start, release at shutdown | interface runtime |
| Gateways (`interfaces/telegramGateway.ts`, `discordGateway.ts`, `transportRuntime/`) | poll offset, sockets, rate limits | receive, send, edit, reconnect | conversation manager |
| Conversation manager, ingress and worker (`interfaces/conversationIngressLifecycle.ts`, `conversationRuntime/conversationWorkerRuntime.ts`, ...) | sessions: queue, running job, recent jobs; in memory: active workers, bindings, liveness ticks, ack timers | receive a message, enqueue, claim, execute, record, deliver, recover, restart | session store, orchestrator, gateways |
| Session store (`interfaces/sessionStore.ts`, `conversationRuntime/sessionMerging.ts`) | sessions in a JSON file, with objects in memory, or in SQLite | getSession, setSession (merge or upsert), deleteSession | file lock |
| Acknowledgement and delivery (`interfaces/ackStateMachine.ts`, `conversationRuntime/deliveryLifecycle.ts`) | per job: ack state, message id, final delivery outcome; timers | schedule, fire, edit, send | session store, gateways |
| Orchestration (`core/orchestrator.ts`, `core/taskRunner.ts`, `core/orchestration/`) | run in progress: plan, budgets, mission state | plan, run actions, retry, abort, persist | planner, governance, executor, stores |
| Governance (`governors/`) | none between votes; drift audit, memory ledger | council vote, fast path, code review | task runner, model clients |
| Hard constraints (`core/hardConstraints*.ts`, `core/constraintRuntime/`) | none | decide on one proposal | task runner |
| Agent loop (`core/agentLoop.ts`, `core/autonomy/`) | iteration counters, stall detection | iterate, stop, recover | orchestrator |
| Execution and live runs (`organs/executionRuntime/`, `organs/liveRun/`) | leases of managed processes in memory and in a file, child objects, abort listeners; browser sessions | start, check, stop, probe, adopt and promote, hydrate at a restart | operating system, task runner (abort signal) |
| Pulse (`interfaces/agentPulseScheduler.ts`, `interfaces/proactiveRuntime/`, `core/agentPulse.ts`) | schedule, emission history | tick, evaluate, enqueue a system job | session store, conversation manager |
| Memory (`core/profileMemory*`, `core/stage6_86/`, `core/semanticMemory.ts`, `core/entityGraphStore.ts`) | profile facts, episodes, entity graph, open loops | record, supersede, recall, decay | file lock, orchestrator |
| Ledgers (`core/executionReceipts.ts`, `core/governanceMemory.ts`, `core/evidenceStore.ts`, ...) | append-only records, hash chain of receipts | append, verify | file lock or SQLite |
| Federation (`interfaces/federatedServer.ts`, `federatedClient.ts`, `federationRuntime.ts`, `core/federatedDelegation.ts`, `core/orchestration/orchestratorFederation.ts`) | table of task results and its file, runs of accepted tasks; the caller's wait | delegate, accept or reject, poll, evict, persist, start, stop | orchestrator, on both sides |
| Models (`models/`) | none | complete, validate | external services |
| Projections, source recall, CLI, tools, evidence scripts | derived files | render, index, report | stores |

### What is hard about it

* Everything shares one event loop, and every store call is an `await`: a handler reads a
  session, waits for routing, a model or the network, and writes the session back. What it
  read may be old by then.
* Processes die at any point; on restart only files are left, and nothing is resumed before
  the next message.
* Locks are files, owners are pids, and staleness is a matter of clocks.
* Sends fail, are slow, and can be retried; an acknowledgement timer runs beside the job
  whose answer replaces the acknowledgement.
* Votes time out, are malformed or missing, and an action must not run without approval.
* Processes started for the user outlive the runtime, their wrappers and the leases that
  name them; who is alive is asked of the operating system, one pid at a time.
* A delegated task runs in another process behind connections that break at any moment, and
  its result waits there in a table that is evicted, written late and read back.

`PROJECT.json` lists the hazards one by one, each at its line, with the properties that
would notice it.

## 2. The modules

| Module | Models | Extends / composes |
|---|---|---|
| `AtomicAppend` | what a caller of `StateStore.appendRun` may rely on: an atomic append, that resolves or rejects | |
| `FileLock` | `core/fileLock.ts` with `core/stateStore.ts` as its user | `INSTANCE AtomicAppend`, which it implements |
| `InterfaceRuntimeLock` | `interfaces/interfaceRuntimeLock.ts` | |
| `SessionMerge` | `conversationRuntime/sessionMerging.ts` as operators on two sessions | |
| `ConversationQueue` | requests, worker, outcome, delivery, recovery and restart of one conversation, over either store | extends `SessionMerge` |
| `CouncilVote` | `governors/voteGate.ts` and `masterGovernor.ts`: one vote | |
| `TaskRunner` | `core/taskRunner.ts` with `core/orchestration/*` around and below it: one task | extends `CouncilVote` |
| `DelegatedCall` | what delegating a task promises: one run, one answer, and "completed" only for a run that completed | |
| `FederatedServer` | `interfaces/federatedServer.ts` under `federationRuntime.ts`: table, file, runs, start and stop | |
| `FederatedDelegation` | the caller (`orchestratorFederation.ts`, `federatedClient.ts`), the connections and that server | extends `FederatedServer`; `INSTANCE DelegatedCall`, which it implements |
| `ManagedProcesses` | `start_process`, `check_process`, `stop_process` over `liveRun/managedProcessRegistry.ts`, and the processes | |
| `MC*` | values for TLC | extends the component |
| `FiniteLemmas` | finite sets and sums | library of the proofs |
| `*_proofs` | theorems | extends the component and `TLAPS` |

### FileLock

A client is one call of `appendRun`; `pc` is the `await` it stands at. `lock` is the file at
`lockPath`: creating it (`CreateLock`) and writing the owner's record (`WriteRecord`) are
two steps, as they are in the code, and so are looking at it (`InspectStale`,
`InspectHeld`) and removing it (`Reclaim`, `Release`), which removes whatever is there. The
clock is the record's state: `"overdue"` is a file that has been without a readable record
for `malformedStaleAfterMs`. `mishaps` says what may go wrong in a behaviour and is chosen
once in `Init`. `doc` is the document on disk as a set of runs, `buf` what each call loaded.

The file system may fail anywhere: `FailAccess` (the directory, the open, the inspection),
`FailRecord`, `FailReclaim`, `FailSave` and `FailRelease`. A release that fails runs in the
`finally` of `withFileLock`, so the call rejects although its run was saved, and the lock stays
under a process that lives. `AtomicAppend` names what of its promise the code takes back
(`faults`, here `Faults`): a document misread, a lock that could not be given back (`"remove"`),
and a lock that need not exclude (`"lock"`), because the write of a record failed half way and so
did the removal of the file (`Orphans`). Any other rejected append left the document as it was.

Left out: the record's contents other than the pid, the temporary name of the atomic write
(only its rename is visible), metrics in the document, and pids that are reused.

### InterfaceRuntimeLock

The same file protocol with other rules: only a readable record with a dead pid is reclaimed
(`OwnerGone`), a blank file blocks until the timeout, and a start that times out is refused.
Reading the record and acting on it are separate steps (`seen`), so the file may be another
one by the time it is removed. Opening, writing and removing may fail (`Errors`): EPERM and
EACCES are taken for a file that is there, and the start goes on to read it (`"barred"`), any
other error ends the start (`"failed"`). `Crash` also stands for a runtime that fails between
acquiring the lock and the `try` of `runInterfaceRuntime`, and for one whose release fails:
both exit without releasing.

### SessionMerge and ConversationQueue

A session is a record of its queue, the running job, and per job the record kept of it
(status, final delivery, whether it was attempted, has a result or a trace). `mergeRecentJobs`,
`mergeQueuedJobs` and `selectRunningJobId` are the merge of `setSession` field by field.

What a conversation may meet is a `Setting` (kinds of requests, whether the gateway is
serial, slow I/O, failing saves, deaths): `Init` chooses one of `Settings`, and the variable
`setting` keeps it, so that one run covers several.

`ConversationQueue` has the session in three places: in the file or row (`file`), in the
object the JSON store holds (`mem`, one of `heap`), and in the objects handlers hold
(`ref`), which for JSON may be the store's own object: a handler's assignments are then
visible to every other handler before anything is saved. `getSession` and `setSession` are
`Take` and `Commit`; a `setSession` puts a copy into `out`, and commits it later, merged
with what the file holds then (JSON) or as it is (SQLite). `OtherConversationSaves` is the
reload that a save of any other conversation causes.

Requests go through `ReceiveMessage` (recovery included), `EnqueueJob`, `SaveRequest`,
`CommitRequest` and `FinishRequest` (which starts the worker or does not); pulses through
`EnqueueSystemJob`. The worker goes through `ClaimJob`, `StartExecution`, progress reports,
`SettleExecution`, the recording and delivery of the outcome, and `LeaveQueue` and
`RecheckQueue`, the window in which it has left but looks at the queue once more. `loop`
and `bound` are the entries of `activeWorkers` and `workerBindings`.

Abstractions: one conversation whose session exists; creation times are distinct and in the
order of the requests' enqueueing; the lists of recent jobs are not trimmed; the automatic
retry of a failed job and replays of an inbound message are left out; a command that
approves a draft (`"approve"`) differs from a chat message in how it decides to start the
worker; a status question enqueues nothing. What a text is taken for is an input.

### CouncilVote and TaskRunner

`ballot` has one entry per governor. `Answer` is anything `evaluate` can settle with,
malformed and mismatched votes included; `TimeOut` is the timer of `withTimeout`.
`Needed` is the threshold of the path taken (`fast_path`: every governor asked;
`escalation_path`: `Threshold`), and a council without an expected governor never approves.

`TaskRunner` is `runPlanActions` inside the attempts of `executeLocalOrchestratorTask`. A
plan is chosen action by action: the planner could have returned any sequence, which the
code cuts at `maxActionsPerTask`. Per action, in the code's order: the dependent-failure
checks (`Skip`), mission limits, replay and duplicate (`Stop`), `Preflight`, the proposal's
context (`BuildContext`), the code review of a skill, the council (`Decide`, with the
verification gate), and the execution, whose awaits are those at which an abort may be
noticed. `RecordOutcome` appends the outcome to governance memory and updates what later
actions depend on. Each action of the catalogue is a record: its type, explicit
idempotency key, workspace, port, whether it is a prerequisite of its workspace, and price.
The last look at the abort signal and the start of the execution are one step: between
`organs/executor.ts:230` and the handler lies one await of a function that returns at once.

The mission state of the code (`denyCount`, `bytesObserved`, `seenIdempotencyKeys`, the phase) is
a function of the recorded outcomes and is defined so. Left out: `open_browser`, whose override
also sets the workspace (a `"probe"` is `probe_http` or `verify_browser`); receipts and traces,
whose failures the code swallows; `network_write`, which preflight always blocks because its
grants can only come from itself; the text of constraints (a preflight may deny any action);
learning, memory and federation before the plan. A duplicate action id can only occur when an
attempt has more actions than mission phases, hence `Phases = 1` with two actions where the code
has eight of each. `docs/ARCHITECTURE.md:171-174` lists preflight's deadline checks before the
mission stop; the code has them in the order modelled.

### FederatedServer and FederatedDelegation

`results` is the server's `taskResults`, `file` what its last successful write left on disk, and
`persist`, `snap`, `requested` are `persistInFlight`, the document to be written and
`persistRequested`: every change of the table calls `schedulePersist`, which begins a write or
asks for one more after the one under way (`PersistEnds`). The document has the entries of the
moment the write is scheduled and their contents of the moment its directory is there
(`PersistWrites`), since `submitResult` changes an entry in place. `run` is the orchestrator's
run of the task, which the server does not see; it learns of it through the runtime, and only
while the runtime still has a server (`TaskEnds`). `srv` follows `stop()`: let go of the server
and close connections, drain the runs, flush the writes. `Start` reads the file back and evicts
what has expired; `Die` is a kill at any point.

A caller's `call` goes from delegating to awaiting or to running the task itself, with the
polls of `awaitResult` in between; `net` is the connection it delegates over. `DelegateFails`
stands for a refused or reset connection and for the timer of the request, also while the
server goes on reading a body nobody waits for any more (`"orphan"`). A poll is one step, at
the moment the server looks at its table; its loss is `awaitResult`.

A start whose file cannot be read or parsed throws, and the server stays down, as if it had not
been started. Left out: quotes, credentials and contracts (the gateway's decision is a choice
between `Accept` and `Reject`), the health and pending endpoints, which only read, and text of
results.

### ManagedProcesses

`proc` is the operating system's view: a start's wrapper and the server the wrapper forks, and
processes nobody here started. A pid is never used again. `lease` is the registry's record of a
start and `file` what was last written of it: every change writes the whole registry, in place,
so that a write that fails leaves the old leases or none (`Torn`), and throws. What then becomes
of the caller is modelled with each: a start is reported as failed with its child running and
nothing listening for its close or its abort (`SpawnedUnsaved`), a stop is rejected before
anything is sent (`StopRejected`), an abort's listener (`AbortFails`) or a close event ends the
runtime, since nobody catches what they throw, and a runtime that cannot write what it read back
does not come up (`RestartFails`). `handle` is the child object, whose close is still to come, or
which is `"lost"`. Promotion (`Promote`), adoption (`Adopt`) and
recovery (`CheckEnds`) give a lease another process and take its child object away, and `close`
then no longer concerns it (`markClosed`). `start` is the `await` that `executeStartProcess`
stands at, `check` holds what `executeCheckProcess` read before its search, `stop` and
`kills` are `taskkill` calls under way. `win32` is chosen once: killing is synchronous on
POSIX and goes to the process group, and is a spawned `taskkill` on Windows; inspection
finds preview holders on Windows only.

History says what the code gives up. A stopped lease has its `ground`: the exit of the process
it names, a signal sent to it, or what was done to, or seen of, another pid. `loose` are the
starts whose abort does not reach every process (aborted around the spawn, not written down, not
got by `taskkill`, or forking after the signal), `unleased` those whose child got no lease, or
whose lease a death or a torn file took away. The disagreements below say more.

Left out: pids used again; the timer of the spawn event; a `stop_process` by pid alone (any
process may exit at any time); `stopRequested`, ports and exit codes, which decide nothing here;
the linked browser sessions. `taskkill` exit codes 128 and 255 count as done, as they do in the
code.

## 3. What the runs check

| Run | Instance | Shows |
|---|---|---|
| `lock_contention` | 3 calls, 2 processes of which one may die; every set of mishaps in which failing writes and removals come with timeouts | `MutualExclusion`, `NoLostAppend`, `SurvivorsFinish`, `SurvivorsResolve`, and that the module implements `AtomicAppend` |
| `lock_reclaim_race` | the owner dies, two calls of the other process wait | **violated**: `NoLostAppendEver` |
| `queue_json` | JSON, fair; a command and a pulse in calm, or a chat message and a status question with failing saves, slow I/O and one death | no double execution, nothing accepted lost, no ghost running job before a death, one delivery, ended for good; in calm each accepted job ends |
| `queue_chat_stall` | two chat messages, serial gateway | **violated**: `AcceptedEnds` |
| `queue_order` | three chat messages, serial gateway | **violated**: `FirstComeFirstServed` |
| `queue_sqlite_ghost` | two chat messages, SQLite | **violated**: `NoGhostRunning` |
| `runtime_starts` | 3 starts, killed or failing to open, write or remove the file anywhere | `OnePoller`, `StartEnds`, `TakesOver` |
| `task_runs` | 2 plans of 2 out of say / skill / keyed command / memory mutation; council of 3, or one without its fast-path governor; abort anywhere, silent governors, failing stores | budget, output limit, verification gate, keys, order of the ledger, approval before execution, nothing after an abort, no replan after an approved action, every run ends |
| `task_workspaces` | 2 plans of 2 out of 2 installs, a test, a start, 2 probes | nothing runs on a failed prerequisite, and every skip has a cause in its own attempt |
| `federation` | 2 tasks; the server may be stopped, started again, and once be killed or fail to write | the file keeps up with the table, its entries are true, what a caller was told is so, `DelegatedCall` is implemented, `StopEnds`, `CallEnds` |
| `processes` | 1 start, 2 other previews, 2 overlapping checks, 2 deaths of the runtime, writes of the leases that fail; both platforms | a stopped lease is true, an abort reaches the processes, what runs on is leased |
| `task_restart` | 1 plan of 3 out of a start and a probe | **violated**: `HeldBackUntilStarted` |

### The disagreements

* `lock_reclaim_race`: `acquireFileLock` removes the lock path because of an owner it read
  earlier. Of two waiting calls that both saw the dead owner, the slower one can delete the
  lock file the faster one has just made; both are inside, and one append overwrites the
  other. The interface runtime's lock has the same shape, which is why `OnePoller` is stated for
  as long as no runtime has ended.
* `queue_chat_stall`: whether a message must start the worker is decided when it is enqueued,
  from the session as it was; if the running job ends before the message is saved, nobody
  starts the job until the next message.
* `queue_order`: the merge sorts the queue newest first and the worker takes its head.
* `queue_sqlite_ghost`: the SQLite store does not merge, so a handler that read the session
  while a job ran writes the running job back after its end.
* `task_restart`: a port whose start failed is remembered as failed for the whole attempt,
  so probes stay blocked after a later start of it succeeded.

Other weaknesses are written into a property as an exception, so that the property says what
does hold; it would not turn red over them. Three contradict a comment:

* A failed write of the federated results is retried by the next change only; the comment at
  `federatedServer.ts:792` says "Next mutation or stop() flush will retry", but the flush waits
  for writes under way and asks for none. `CoalescedWrites` excepts the time after a failure.
* `markRecoveredStopped` is for when "the PID-based recovery path proves the process exited"
  (`managedProcessRegistry.ts:391-394`). `stop_process` without a child object calls it when the
  signal was accepted (`stopProcessHandler.ts:159`), also if the pid killed was the caller's
  and not the lease's (`:142-143`). `StoppedIsTrue` asks no more of these than what was done:
  that the process was sent the signal, or nothing for another pid.
* `contracts.ts:837` calls `terminateProcessTree` what is "used when startup is aborted". An abort
  that comes while a start looks up its port leaves the child spawned and nobody listening
  (`contracts.ts:848`).

The others are not spoken of in any document:

* File lock. A release that fails after the save rejects a saved append (`fileLock.ts:257`).
  When the write of a record and the removal of its file both fail (`:245`), a blank file
  stays under a live owner, and two waiters that find it old may hold the lock together.
  `load()` takes every failing read for a missing document (`stateStore.ts:122`).
* Federation. `stop()` of the runtime lets go of the server before it drains it
  (`federationRuntime.ts:364`), so a task that completes meanwhile is recorded as failed:
  `EntriesAreTrue` allows failed for a dropped result. An entry pending at a death stays
  pending after the restart, and only the caller's deadline ends the wait. A caller whose
  request timed out runs the task itself while the server runs it too.
* Managed processes. A lease that cannot be written (`managedProcessRegistry.ts:187`) leaves the
  child running under a start reported as failed, with no abort bound to it; an abort that
  cannot write its request (`startProcessHandler.ts:637`) ends the runtime before the signal is
  sent. A torn file is read as no leases (`managedProcessRegistry.ts:628`). `check_process` stops
  a lease on a pid read before its search (`checkProcessHandler.ts:155`). On Windows a server
  survives an abort that comes when its wrapper is already gone.

### Bounds, and why they are enough

* Three calls in two processes are the least in which a holder, a waiter of the same
  process and a waiter of another coexist; the reclaim race needs a dead owner and two
  waiters. The theorems cover any number.
* Two requests are the least for which a stale copy can exist: one handler reads, another
  actor writes, the first writes back. `queue_order` needs three, one running and two
  queued. One death suffices since a restart loses everything but the file, whatever it was before.
* Two plans of two actions are the least with something remembered within and across
  attempts: a key repeated, a claim after a proof, a skip and its cause. The limits are small
  enough for two actions to reach them (one phase, one byte of output, one unit of cost).
  Two failed workspaces and an action that depends on one of them need three actions, more
  than TLC can do for `task_workspaces`: there the theorem speaks alone.
* Two tasks share one table and one file, so that one's change falls into the write for the
  other; one fault suffices since a kill loses everything but the file, and a second adds
  only another such loss. The theorems cover any number of both.
* One start has one lease; other starts meet it only as processes that hold the preview,
  which `Others` are, and two of them let a promotion or a recovery go to one while the other
  is found by an overlapping check. Two deaths let a restart's own leases be read back again.
  Again the theorems cover any number.
* `CHECK_DEADLOCK FALSE` but in `federation`, whose server can always be started again:
  requests, starts and plans are finite here, and the system rests when they are done.

### Fairness

* The event loop runs pending continuations: weak fairness on each client's, handler's,
  worker's and task's steps. A process that lives takes its next step.
* Clocks advance: a file ages (`WF` on `Age`), a timer fires (`WF` on `TimeOut` of starts and
  `GovernorTimesOut`), and a caller that comes back again and again to look at a held lock has
  at some look waited long enough (`SF` on `TimeOut`, enabled only when it looks; the code
  compares with a start time that never moves).
* Federation: a server that stops, writes under way, and runs of accepted tasks go on (`WF`;
  the orchestrator bounds its runs), the request for delegation has its timer
  (`DelegateFails`) and the wait its deadline (`awaitResult`). Polls, connections and starts
  need not succeed.
* Nothing is assumed of users, planners, governors, or crashes: none of them has to act.
  Governors may stay silent, and only their timer is fair. An execution is assumed to
  settle: executors have timeouts of their own, outside these modules.

## 4. What is proved

Each theorem holds for every value of the constants under the named assumptions of the
modules (types of constants; nothing about sizes beyond finiteness of the council).

* **`FileLock_proofs`**: `Typing`, `Exclusion`, `Durability`, `Refinement`. `MutualExclusion` is
  not inductive: that two calls hold the lock is prevented by nobody having decided to reclaim
  it, which depends on the file being its holder's, which depends on no unreadable file growing
  old under a live writer. `IInv` says this while all processes live and no record was left cut
  short (`~Orphans`): `HeldByOwner` (only the creator of the file can be a holder, and the file
  lacks its record just while that is being written; after a failed release it has a record and
  no holder), `FreeMeansNoHolder`, `NoReclaim`, and for durability `BufferCurrent` (what a holder
  loaded is still what the document holds) and `SavedRuns`. `Refinement`: the file lock
  implements `AtomicAppend`, up to its faults, under `LoneSurvivor`: whoever may die leaves at
  most one caller behind (in particular when nobody may). Elsewhere it is false, as
  `lock_reclaim_race` shows, so the hypothesis is the boundary, not a convenience. `SInv` adds to
  `IInv` that a lone caller is alone, that what it loaded or saved is in the document, and that
  the run of a call that is before its save, or rejected without the fault, is not (`Unsaved`).
* **`InterfaceRuntimeLock_proofs`**: `Typing`, `SinglePoller`. `Owned`: while nobody has ended,
  whoever is between creating and removing the file made the one that is there, and nobody is
  about to reclaim. Needed because `Release`, `Undo` and `Reclaim` remove without looking.
* **`FiniteLemmas`**: what needs an induction, which the prover has no rule for (it cannot
  instantiate the library's): each is turned into a least counterexample, by the well-founded
  order of the numbers (`Smallest`, `SmallestSet`, `OneByOne`). `SumOfOneMore` uses it to show
  that the community's `SumFunction`, whose fold takes its elements in any order, grows by
  the entry a list gets.
* **`SessionMerge_proofs`**: `Merging`, the merge knows the jobs of both sessions and no others,
  each with the record of one of them, and none loses its record, its end or its delivery;
  `MergedSound`, it keeps sessions `Sound` (no job waits twice or waits with a record, a running
  job has one). `NewestFirst` is a `CHOOSE`; that every set of jobs has such a list
  (`ListedDown`) is the induction the proofs need, on its size (`Smallest`).
* **`ConversationQueue_proofs`**: `Typing` over either store, and over JSON `StartedOnce`,
  `Accepted`, `NoGhost`, `Delivered` and `EndedForGood`; for any mix of requests, failing saves,
  slow I/O and any number of deaths. None of the properties is inductive, since any copy of the
  session, however old, may be written next. `SInv` therefore speaks of all of them (`Sessions`:
  the file, the objects, the copies under way). Each is `Sound`; none knows a job that its request
  has not enqueued yet (`Unknown`); until the process dies, what runs in any of them is in the
  worker's hand or has ended in the file (`RunningInHand`). The store's object has all that
  the file has (`Ahead`), so a job claimed from it, without a record there, was never started.
  `RequestInv` and `WorkerInv` follow a job and its end from the object held into the copy under
  way and into the file, and `Recorded` says that what was started is in the file.
  The operations on a session enter by what they keep (`Claiming`, `Rewriting`, `Recovering`: no
  job or end is lost, `Keeps`, and nothing starts, `NothingNew`), the store's by whom they touch
  (`Taking`, `Updating`, `Committing`, `Failing`: nobody else's object loses anything, `Grown`),
  which needs that a fresh object exists (`FreeObject`: there is one more than can be held).
* **`TaskRunner_proofs`**:
  * `Typing`, from `TInv` (only an attempt that another may follow returns to planning);
  * `Budget`, from `CInv`: an action that passed preflight still fits, because nothing is
    charged between its check and its own execution;
  * `Governance`, from `GInv`: while a vote is open its ballots are answers to the proposal in
    hand by the governors asked, and from the decision to the execution the approval stands;
    that as many yeses as governors are all of them is `AllOfThem`;
  * `Idempotency`, from `KInv`: the key of an admitted action is not yet among those recorded;
  * `OnePlanTakesEffect`, from `RInv`: until the last plan ends, earlier attempts have no
    approved action;
  * `ClaimsAreProven`, from `VInv`: an answer that passed the verification gate still has the
    approved action it was admitted for, because the ledger only grows (`LedgerGrows`);
  * `RecordedInOrder` and `AbortIsFinal`, from `LInv`: outside an execution the ledger has as
    many executions as were begun; `OnlyBeginExecution` is the one step that begins one;
  * `SkippedForACause` and `FailedWorkspaceRests`, from `DInv`: what the attempt remembers of
    failed prerequisites and targets (`Remembered`) is in its results (`PrerequisiteFailed`, and
    `NothingCameUp` of a start of that very port), an action past the check depends on none of it
    (`Checked`), and a new attempt starts with nothing remembered (`Afresh`);
  * `OutputWithinLimit`, from `OInv`: from its check to its end an action has no output yet and
    the attempt is below the limit, so that only its own output can go over it (`InBounds`).
* **`FederatedDelegation_proofs`**: `Typing`, `FileKeepsUp`, `TrueEntries`, `HeardRight` and
  `Refinement`. `SInv` says of the server what its handlers rely on: a request for one more
  write exists only during one, the copy being written is the table unless one is requested,
  an entry in the table, the copy or the file is true of the run. `HInv` adds the
  connections: an answer on its way agrees with the run. For the refinement a dropped result
  is a run that ended well, and a caller that goes on alone has given its answer; every step
  is then one of `DelegatedCall` or a stutter.
* **`ManagedProcesses_proofs`**: `Typing`, `Stops`, `Aborts`, `Leased`. `Inv` joins two of the
  properties with the types, of which `OwnChild` matters most (only a live lease of the wrapper
  itself has its child object), and with two parts. `SoundBooks`: each lease, in the registry and
  in the file, names what has been a process and is true of its end; the file has to be as
  sound as the registry since after a death it is all there is, and `SoundIsTrue` draws
  `StoppedIsTrue` from it. `Known`: a start is spawned once, what it found has been a process, and
  a lost child object is of a start no abort reaches. Without them a check, a promotion or a
  restart could name a pid that comes to life later.

Only model-checked: all liveness (`SurvivorsFinish`, `SurvivorsResolve`, `StartEnds`,
`TakesOver`, `AcceptedEnds`, `RunEnds`, `StopEnds`, `CallEnds`), since the prover does neither
fairness nor `ENABLED`. Over SQLite only `Typing` is proved, and
`queue_sqlite_ghost` shows one of the other properties to fail there.

## 5. What is not modelled

`PROJECT.json` lists every part with its status. Stateless decisions over text (hard
constraints, routing, classification, governors' judgment) are inputs here; network
protocols, models and rendering are left out; stateful parts still to come are in the plan.

## 6. Plan

Order of work, the most important behaviour first: locks, conversation queue, task runner,
federation, managed processes (done, as above), then

1. `AckDelivery`: acknowledgement states, the timer, edits and the final send of a job
   (`ackStateMachine.ts`, `deliveryLifecycle.ts`, `deliveryPreview.ts`), with
   `assertAckInvariants` as the promise; it composes with the worker's end of `ConversationQueue`.
2. `SessionMerge`, the rest: proposals, clarifications, progress and workspace, with what
   their merges keep proved beside `Merging`.
3. `AgentLoop`: iterations, stall and stop reasons, cleanup (`agentLoop.ts`, `autonomy/`).
4. Browser sessions of live runs beside `ManagedProcesses`, with a shared workspace owner.
5. `Pulse`: the scheduler's ticks and suppression, enqueuing into the queue.
6. The receipts' hash chain, profile facts and open loops as functions checked against
   reference definitions.

Theorems next: `AckDelivery`'s type and single final delivery.
