----------------------------- MODULE TaskRunner ------------------------------
(***************************************************************************)
(* One task run locally: the planner's actions go one by one through the   *)
(* checks, the council's vote and the executor, each outcome is recorded,  *)
(* and a plan the governors turned down as a whole is replaced by another. *)
(*                                                                         *)
(* An action of the specification is the code between two awaits.  The     *)
(* plan is chosen action by action: nothing in the code looks ahead.       *)
(***************************************************************************)
EXTENDS CouncilVote, Sequences, Functions

CONSTANTS
  Actions,       \* the actions a planner may plan
  Phases,        \* length of MISSION_PHASE_SEQUENCE
  MaxActions,    \* maxActionsPerTask
  MaxAttempts,   \* maxPlanAttemptsPerTask
  MaxBytes,      \* of output in an attempt
  OutputSizes,   \* of one action
  MaxCost,       \* maxCumulativeEstimatedCostUsd
  ClaimPrompt,   \* the user asked for a claim that something is done
  MayAbort,      \* the caller has an abort signal
  StoreErrors    \* reading or writing a store may throw

None == "none"
NoKey == 0

\* A probe stands for probe_http and verify_browser too; open_browser, into which an
\* earlier start also puts its workspace, is left out.
Types == {"respond", "read_file", "shell_command", "start_process", "probe_port",
          "create_skill", "memory_mutation"}

\* Of an action's parameters we keep its explicit idempotency key, the workspace it
\* names, the local port it starts or probes, and whether its shell command is one
\* others depend on (an install, a build, or a proof of them).
ActionType(A) ==
  /\ A \subseteq [type : Types, key : Nat \ (1 .. MaxActions), space : STRING,
                  target : STRING, stage : {"yes", "no"}, cost : Nat]
  /\ \A a \in A : a.stage = "yes" => a.type = "shell_command" /\ a.space # None

ASSUME RunnerType ==
  /\ Actions # {} /\ ActionType(Actions) /\ Phases \in Nat \ {0}
  /\ MaxActions \in Nat \ {0} /\ MaxAttempts \in Nat \ {0} /\ MaxBytes \in Nat \ {0}
  /\ OutputSizes \subseteq Nat /\ OutputSizes # {} /\ MaxCost \in Nat
  /\ ClaimPrompt \in BOOLEAN /\ MayAbort \in BOOLEAN /\ StoreErrors \in BOOLEAN

MaxDenies == 2 * MaxAttempts
Spaces == {a.space : a \in Actions}
Targets == {a.target : a \in Actions}

\* Every planned action, and every probe with another port put into it.
AllActions == Actions \cup {[a EXCEPT !.target = t] : a \in Actions, t \in Targets}

resolveExecutionMode(a) ==
  IF a.type \in {"respond", "read_file"} THEN "fast_path" ELSE "escalation_path"

VARIABLES
  pc,
  attempt,       \* missionAttemptId
  action,        \* effectiveAction, the one in hand
  key,           \* the idempotency key it will be recorded under
  outcome,       \* what it came to, and
  size,          \* its output
  review,        \* the code review of create_skill
  results,       \* attemptResults
  earlier,       \* the actionResults of the attempts before
  seenIds,       \* deterministicActionIds
  failedSpaces, failedTargets, overrides,    \* what later actions depend on
  cost,          \* approved estimated cost, over all attempts
  aborted,       \* the abort signal
  ran            \* history: how many executions have begun

current == <<action, key, outcome, size, review>>
depends == <<failedSpaces, failedTargets, overrides>>
record  == <<results, earlier, cost>>
vars    == <<pc, attempt, current, record, seenIds, depends, aborted, ran, votevars>>

Ended == {"done", "aborted", "failed"}
PCs == {"plan", "next", "memory", "review", "vote", "engine", "prepare", "execute",
          "running", "record", "append"} \cup Ended

\* What an execution may come to; notStarted: a process that did not come up.
Executed == {"approved", "failed", "notStarted"}
\* skipped: it depends on a failure; stopped: a limit, a replay or a duplicate;
\* denied: by preflight, or for want of governors; unproven: by the verification gate.
Outcomes == Executed \cup {"skipped", "stopped", "denied", "rejected", "unproven"}

\* An outcome is recorded with the port its process was to listen on, which need not be
\* the one planned.
Entry == [action : AllActions, key : Nat, outcome : Outcomes, size : Nat, port : Targets]

TypeOK ==
  /\ pc \in PCs /\ attempt \in 0 .. MaxAttempts
  /\ action \in AllActions /\ key \in Nat /\ outcome \in Outcomes /\ size \in Nat
  /\ review \in {"yes", "no"}
  /\ results \in Seq(Entry) /\ earlier \in Seq(Entry)
  /\ seenIds \subseteq (1 .. Phases) \X Actions
  /\ failedSpaces \subseteq Spaces /\ failedTargets \subseteq Targets
  /\ overrides \in [Targets -> Targets]
  /\ cost \in Nat /\ aborted \in BOOLEAN /\ ran \in Nat
  /\ VoteTypeOK

Init ==
  /\ pc = "plan" /\ attempt = 0
  /\ action = CHOOSE a \in Actions : TRUE
  /\ key = NoKey /\ outcome = "denied" /\ size = 0 /\ review = "no"
  /\ results = <<>> /\ earlier = <<>> /\ seenIds = {}
  /\ failedSpaces = {} /\ failedTargets = {} /\ overrides = [t \in Targets |-> t]
  /\ cost = 0 /\ aborted = FALSE /\ ran = 0
  /\ VoteInit
-----------------------------------------------------------------------------
(* The mission state: what the recorded outcomes of an attempt add up to.  *)

\* Mutant: a failed execution leaves no key behind.
keysApproved ==
  {results[i].key : i \in {j \in DOMAIN results : results[j].outcome = "approved"}}

\* Each of results is registered once, with its key, and advances the phase by one.
denyCount == Cardinality({i \in DOMAIN results : results[i].outcome # "approved"})
bytesObserved == SumFunction([i \in DOMAIN results |-> results[i].size])
seenIdempotencyKeys == {results[i].key : i \in DOMAIN results}

\* Mutant: the phases go on.
phaseWithoutEnd == Len(results) + 1

\* The last phase repeats.
currentPhase == IF Len(results) < Phases THEN Len(results) + 1 ELSE Phases

actionKey == Len(results) + 1     \* made from the action's own id
idempotencyKey(a) == IF a.key = NoKey THEN actionKey ELSE a.key
deterministicActionId(a) == <<currentPhase, a>>

\* Mutant: the bytes are not looked at.
shouldStopOnCounts == Len(results) >= MaxActions \/ denyCount >= MaxDenies

shouldStop ==
  Len(results) >= MaxActions \/ denyCount >= MaxDenies \/ bytesObserved >= MaxBytes

Stopped(a) ==
  \/ shouldStop
  \/ idempotencyKey(a) \in seenIdempotencyKeys
  \/ deterministicActionId(a) \in seenIds

applyOverrides(a) ==
  IF a.type = "probe_port" THEN [a EXCEPT !.target = overrides[@]] ELSE a

NeedsTarget(a) == a.type = "probe_port" /\ a.target # None

\* An action that names no workspace depends on the only one that failed if it is a probe.
dependsOnWorkspace(a) ==
  \/ a.space \in failedSpaces
  \/ a.space = None /\ NeedsTarget(a) /\ Cardinality(failedSpaces) = 1

\* Mutant: only the probe of a port that failed is held back.
DependentTarget(a) == NeedsTarget(a) /\ a.target \in failedTargets

Dependent(a) == dependsOnWorkspace(a) \/ (NeedsTarget(a) /\ a.target \in failedTargets)

\* Mutant: each action is measured by itself.
OverBudgetAlone(a) == a.cost > MaxCost

\* The preflight check that depends on the run; the others depend on the action alone.
OverBudget(a) == cost + a.cost > MaxCost

-----------------------------------------------------------------------------
(* Planning and abort                                                      *)

\* Mutant: the signal is only looked at between actions.
throwIfAbortedBetween == pc \in {"plan", "next"} => ~aborted

throwIfAborted == ~aborted

Checkpoints == {"plan", "next", "engine", "prepare", "execute"}

RequestAbort ==
  /\ MayAbort /\ ~aborted /\ pc \notin Ended /\ aborted' = TRUE
  /\ UNCHANGED <<pc, attempt, current, record, seenIds, depends, ran, votevars>>

Abandon ==
  /\ pc \in Checkpoints /\ aborted /\ pc' = "aborted"
  /\ UNCHANGED <<attempt, current, record, seenIds, depends, aborted, ran, votevars>>

\* Mutant: what failed in one attempt is held against the next.
BeginAttemptWithFailures ==
  /\ pc = "plan" /\ throwIfAborted
  /\ pc' = "next" /\ attempt' = attempt + 1 /\ seenIds' = {}
  /\ UNCHANGED <<current, record, depends, aborted, ran, votevars>>

\* Everything an attempt remembers starts afresh.
BeginAttempt ==
  /\ pc = "plan" /\ throwIfAborted
  /\ pc' = "next" /\ attempt' = attempt + 1
  /\ seenIds' = {} /\ failedSpaces' = {} /\ failedTargets' = {}
  /\ overrides' = [t \in Targets |-> t]
  /\ UNCHANGED <<current, record, aborted, ran, votevars>>

\* Mutant: a failed append to governance memory is logged and forgotten.
FailButGoOn ==
  /\ pc = "record" /\ StoreErrors /\ pc' = "next"
  /\ UNCHANGED <<attempt, current, record, seenIds, depends, aborted, ran, votevars>>

\* The planner, a read of governance memory, a memory mutation, or an append throws.
Fail ==
  /\ \/ pc = "plan"
     \/ pc \in {"memory", "record", "append"} /\ StoreErrors
     \/ pc = "running" /\ action.type = "memory_mutation" /\ StoreErrors
  /\ pc' = "failed"
  /\ UNCHANGED <<attempt, current, record, seenIds, depends, aborted, ran, votevars>>

-----------------------------------------------------------------------------
(* The checks before the vote, in their order: they run between two awaits *)

InHand(a, k) == action' = a /\ key' = k /\ size' = 0 /\ review' = "no"

Planned == pc = "next" /\ throwIfAborted /\ Len(results) < MaxActions

Skip(a) ==
  /\ Planned /\ Dependent(applyOverrides(a))
  /\ InHand(applyOverrides(a), actionKey) /\ outcome' = "skipped" /\ pc' = "record"
  /\ UNCHANGED <<attempt, record, seenIds, depends, aborted, ran, votevars>>

Stop(a) ==
  /\ Planned /\ ~Dependent(applyOverrides(a)) /\ Stopped(a)
  /\ InHand(a, idempotencyKey(a)) /\ outcome' = "stopped" /\ pc' = "record"
  /\ UNCHANGED <<attempt, record, seenIds, depends, aborted, ran, votevars>>

\* The turn's deadline and the model's spending may deny any action, and so may the
\* constraints on its parameters.
Preflight(a) ==
  /\ Planned /\ ~Dependent(applyOverrides(a)) /\ ~Stopped(a)
  /\ seenIds' = seenIds \cup {deterministicActionId(a)}
  /\ InHand(applyOverrides(a), idempotencyKey(a))
  /\ \/ outcome' = "denied" /\ pc' = "record"
     \/ ~OverBudget(a) /\ pc' = "memory" /\ UNCHANGED outcome
  /\ UNCHANGED <<attempt, record, depends, aborted, ran, votevars>>
-----------------------------------------------------------------------------
(* Governance                                                              *)

AskCouncil ==
  LET mode == resolveExecutionMode(action) IN
  IF mode = "fast_path" /\ Voters(mode) = {}
    THEN outcome' = "denied" /\ pc' = "record" /\ UNCHANGED votevars
    ELSE runCouncilVote(mode) /\ pc' = "vote" /\ UNCHANGED outcome

BuildContext ==
  /\ pc = "memory"
  /\ IF action.type = "create_skill"
       THEN pc' = "review" /\ UNCHANGED <<outcome, votevars>>
       ELSE AskCouncil
  /\ UNCHANGED <<attempt, action, key, size, review, record, seenIds, depends, aborted, ran>>

\* A review that fails or takes too long is a no.
evaluateCodeReview ==
  /\ pc = "review"
  /\ \/ review' = "yes" /\ AskCouncil
     \/ review' = "no" /\ outcome' = "rejected" /\ pc' = "record" /\ UNCHANGED votevars
  /\ UNCHANGED <<attempt, action, key, size, record, seenIds, depends, aborted, ran>>

GovernorAnswers(g, b) ==
  /\ pc = "vote" /\ Answer(g, b)
  /\ UNCHANGED <<pc, attempt, current, record, seenIds, depends, aborted, ran>>

GovernorTimesOut(g) ==
  /\ pc = "vote" /\ TimeOut(g)
  /\ UNCHANGED <<pc, attempt, current, record, seenIds, depends, aborted, ran>>

\* Mutant: another answer counts as a proof.
ProvenByAnything ==
  ClaimPrompt /\ action.type = "respond" =>
    \E i \in DOMAIN results : results[i].outcome \in Executed \cup {"stopped", "denied"}

\* evaluateVerificationGate, with the proof references taken from this attempt.
Proven ==
  ClaimPrompt /\ action.type = "respond" =>
    \E i \in DOMAIN results :
      results[i].outcome = "approved" /\ results[i].action.type # "respond"

Decide ==
  /\ pc = "vote" /\ AllVoted(resolveExecutionMode(action))
  /\ LET approved == decisionApproved(resolveExecutionMode(action)) IN
     \/ ~approved /\ outcome' = "rejected" /\ pc' = "record"
     \/ approved /\ ~Proven /\ outcome' = "unproven" /\ pc' = "record"
     \/ approved /\ Proven /\ pc' = "engine" /\ UNCHANGED outcome
  /\ UNCHANGED <<attempt, action, key, size, review, record, seenIds, depends, aborted,
                 ran, votevars>>
-----------------------------------------------------------------------------
(* Execution                                                               *)

\* The runtime action engine is asked first, then the executor's prepare, then its
\* executeWithOutcome.
RunsAt(type) == CASE type = "memory_mutation" -> "engine"
                  [] type = "respond"         -> "prepare"
                  [] OTHER                    -> "execute"

PassOn ==
  /\ throwIfAborted /\ pc # RunsAt(action.type)
  /\ \/ pc = "engine"  /\ pc' = "prepare"
     \/ pc = "prepare" /\ pc' = "execute"
  /\ UNCHANGED <<attempt, current, record, seenIds, depends, aborted, ran, votevars>>

\* executeWithOutcome looks at the signal and starts the action after one await of a
\* function that does nothing for it (executeFileMutationAction), in which no timer and
\* no message can come between.
BeginExecution ==
  /\ throwIfAborted /\ pc = RunsAt(action.type)
  /\ pc' = "running" /\ ran' = ran + 1
  /\ UNCHANGED <<attempt, current, record, seenIds, depends, aborted, votevars>>

OutcomesOf(type) == CASE type = "respond"       -> {"approved"}
                      [] type = "start_process" -> Executed
                      [] OTHER                  -> {"approved", "failed"}

FinishExecution ==
  /\ pc = "running" /\ pc' = "record"
  /\ outcome' \in OutcomesOf(action.type) /\ size' \in OutputSizes
  /\ UNCHANGED <<attempt, action, key, review, record, seenIds, depends, aborted, ran,
                 votevars>>

\* The handlers that wait for a child process pass the abort on as an exception.
CancelExecution ==
  /\ pc = "running" /\ aborted
  /\ action.type \in {"shell_command", "start_process", "probe_port"}
  /\ pc' = "aborted"
  /\ UNCHANGED <<attempt, current, record, seenIds, depends, aborted, ran, votevars>>
-----------------------------------------------------------------------------
(* Recording an outcome, and the end of an attempt                         *)

\* What comes to a failure of a prerequisite: of the outcomes that hold an action
\* back, those decided before its vote or by the verification gate do not.
Failures == {"denied", "rejected", "failed", "notStarted"}

\* A busy port may be exchanged for a free one before the process is started.
Ports ==
  IF action.type = "start_process" /\ action.target # None /\ outcome \in {"approved", "notStarted"}
    THEN Targets \ {None} ELSE {action.target}

RecordOutcome ==
  /\ pc = "record" /\ pc' = "next"
  /\ failedSpaces' = failedSpaces \cup
       (IF action.stage = "yes" /\ outcome \in Failures THEN {action.space} ELSE {})
  /\ \E t \in Ports :
       LET up   == action.type = "start_process" /\ outcome = "approved" /\ t # None
           down == outcome = "notStarted" /\ t # None
       IN /\ results' = Append(results, [action |-> action, key |-> key, outcome |-> outcome,
                                        size |-> size, port |-> t])
          /\ failedTargets' = failedTargets \cup (IF down THEN {t} ELSE {})
          /\ overrides' = IF up THEN [overrides EXCEPT ![action.target] = t] ELSE overrides
  /\ cost' = IF outcome = "approved" THEN cost + action.cost ELSE cost
  /\ ballot' = [g \in Council |-> "unasked"]
  /\ UNCHANGED <<attempt, current, earlier, seenIds, aborted, ran, governors>>

\* Mutant: one rejected action is enough to plan again.
feedbackOnAnyRejection == \E i \in DOMAIN results : results[i].outcome = "rejected"

\* Only votes make a feedback, and only when nothing at all was approved.
governanceReplanFeedback ==
  /\ \A i \in DOMAIN results : results[i].outcome # "approved"
  /\ \E i \in DOMAIN results : results[i].outcome = "rejected"

EndPlan ==
  /\ pc = "next"
  /\ pc' = IF governanceReplanFeedback /\ attempt < MaxAttempts THEN "plan" ELSE "append"
  /\ earlier' = earlier \o results /\ results' = <<>>
  /\ UNCHANGED <<attempt, current, cost, seenIds, depends, aborted, ran, votevars>>

AppendRun ==
  /\ pc = "append" /\ pc' = "done"
  /\ UNCHANGED <<attempt, current, record, seenIds, depends, aborted, ran, votevars>>
-----------------------------------------------------------------------------
Run ==
  \/ Abandon \/ BeginAttempt \/ Fail
  \/ \E a \in Actions : Skip(a) \/ Stop(a) \/ Preflight(a)
  \/ BuildContext \/ evaluateCodeReview \/ Decide
  \/ PassOn \/ BeginExecution \/ FinishExecution \/ CancelExecution
  \/ RecordOutcome \/ EndPlan \/ AppendRun

Next ==
  \/ Run \/ RequestAbort
  \/ \E g \in Council, b \in Answers : GovernorAnswers(g, b)
  \/ \E g \in Council : GovernorTimesOut(g)

Spec == Init /\ [][Next]_vars

\* The event loop goes on; a timer fires; a governor need never answer.
FairSpec == Spec /\ WF_vars(Run) /\ \A g \in Council : WF_vars(GovernorTimesOut(g))
-----------------------------------------------------------------------------
(* Properties                                                              *)

\* The outcomes of the run in their order, as governance memory has them.
ledger == earlier \o results

ExecutionsRecorded == Cardinality({i \in DOMAIN ledger : ledger[i].outcome \in Executed})

\* What the vote gate promises of the proposal in hand: on the fast path all of its
\* governors said yes; otherwise each governor of the full council has cast a vote, and
\* enough of the votes are a yes.  A skill has passed its review too.
Approval ==
  LET yes == {g \in governors : ballot[g] = "yes"} IN
  /\ IF resolveExecutionMode(action) = "fast_path"
       THEN FastPath # {} /\ FastPath \subseteq yes
       ELSE /\ \A g \in Council : g \in governors /\ ballot[g] \notin {"unasked", "asked"}
            /\ Cardinality(yes) >= Threshold
  /\ action.type = "create_skill" => review = "yes"

\* Nothing is executed without the approval of its own council vote: not on a vote that
\* timed out or cannot be read, not with a governor missing (evaluateTaskRunnerGovernance,
\* runCouncilVote).
Governed == [][ran' # ran => Approval]_vars

\* Once the task is cancelled nothing more is executed, wherever the run was waiting
\* (throwIfAborted before each stage of an execution).
NoStartAfterAbort == [][aborted => ran' = ran]_vars

\* An execution begins only when the outcomes of all executions before it are in
\* governance memory (recordApprovedActionOutcome and recordBlockedActionOutcome are
\* awaited by the loop, and end the run if they fail).
LedgerInOrder == [][ran' # ran => ran = ExecutionsRecorded]_vars

\* What the approved actions of all attempts cost together stays within the limit
\* (the cumulative cost of evaluateHardConstraints).
CostWithinLimit == cost <= MaxCost

\* An attempt's output goes over its limit by one action's output at most
\* (evaluateMissionStopDecision looks at it before each action).
OutputBounded == \E largest \in OutputSizes : bytesObserved < MaxBytes + largest

\* In one attempt no idempotency key is executed twice, though the first execution
\* failed (seenIdempotencyKeys).
KeyOncePerAttempt ==
  [][ran' # ran =>
       \A i \in DOMAIN results : results[i].outcome \in Executed => results[i].key # key]_vars

\* A plan of which something was approved is never replaced by another one: what it did
\* is not done again (extractGovernanceReplanFeedback).
NothingApprovedIsReplanned ==
  pc = "plan" => \A i \in DOMAIN earlier : earlier[i].outcome # "approved"

\* Asked for a claim of completion, the assistant only answers after an approved action
\* that is not an answer itself (evaluateVerificationGate).
VerifiedClaim ==
  ClaimPrompt =>
    \A i \in DOMAIN ledger :
      ledger[i].outcome = "approved" /\ ledger[i].action.type = "respond" =>
        \E j \in 1 .. i - 1 :
          ledger[j].outcome = "approved" /\ ledger[j].action.type # "respond"

\* e is a failure that a depends on.
Undermines(e, a) ==
  \/ e.action.stage = "yes" /\ e.outcome \in Failures /\ a.space \in {e.action.space, None}
  \/ e.outcome = "notStarted" /\ NeedsTarget(a) /\ a.target = e.port

\* An action is only skipped for what failed before it in the same attempt
\* (evaluateDependentWorkspaceExecutionBlock, evaluateDependentLiveRunTargetBlock).
SkipsHaveCause ==
  \A i \in DOMAIN results : results[i].outcome = "skipped" =>
    \E j \in 1 .. i - 1 : Undermines(results[j], results[i].action)

\* Nothing is executed in a workspace after one of its prerequisites failed in the
\* attempt (rememberFailedWorkspaceExecutionDependency).
NothingRunsOnAFailure ==
  \A i \in DOMAIN results : results[i].outcome \in Executed =>
    \A j \in 1 .. i - 1 :
      ~(/\ results[j].action.stage = "yes" /\ results[j].outcome \in Failures
        /\ results[j].action.space = results[i].action.space)

\* Every run comes to an end, whatever the governors do.
RunEnds == <>(pc \in Ended)

\* What the documentation says, and the code does not do:

\* A probe is held back "until a later step starts the app successfully".
HeldBackUntilStarted ==
  \A i \in DOMAIN results :
    results[i].outcome = "skipped" /\ results[i].action.space = None =>
      \A j \in 1 .. i - 1 :
        /\ results[j].outcome = "approved" /\ results[j].action.type = "start_process"
        /\ results[j].port = results[i].action.target
        => \E k \in j + 1 .. i - 1 : Undermines(results[k], results[i].action)
=============================================================================
