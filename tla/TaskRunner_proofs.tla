-------------------------- MODULE TaskRunner_proofs --------------------------
(***************************************************************************)
(* What TaskRunner keeps for every catalogue of actions, council and limit.*)
(***************************************************************************)
EXTENDS TaskRunner, FiniteLemmas, SequenceTheorems

\* The fields of a planned action, whatever port was put into it.
LEMMA Fields ==
  \A a \in AllActions :
    /\ a.type \in Types /\ a.key \in Nat /\ a.cost \in Nat /\ a.stage \in {"yes", "no"}
    /\ a.space \in Spaces /\ a.target \in Targets
  BY RunnerType DEF RunnerType, ActionType, AllActions, Spaces, Targets

\* Putting a known port into a planned action changes neither its type nor its price.
LEMMA Overrides ==
  ASSUME NEW a \in Actions, overrides \in [Targets -> Targets]
  PROVE  /\ applyOverrides(a) \in AllActions /\ applyOverrides(a).cost = a.cost
         /\ applyOverrides(a).type = a.type
<1>1. /\ a \in [type : Types, key : Nat \ (1 .. MaxActions), space : STRING,
                target : STRING, stage : {"yes", "no"}, cost : Nat]
      /\ a.target \in Targets
  BY RunnerType DEF RunnerType, ActionType, Targets
<1>2. overrides[a.target] \in Targets BY <1>1
<1>3. [a EXCEPT !.target = overrides[a.target]] \in AllActions BY <1>2 DEF AllActions
<1>4. [a EXCEPT !.target = overrides[a.target]].cost = a.cost BY <1>1
<1>5. [a EXCEPT !.target = overrides[a.target]].type = a.type BY <1>1
<1>6. a \in AllActions BY DEF AllActions
<1>7. QED BY <1>3, <1>4, <1>5, <1>6 DEF applyOverrides

\* A set of governors who said yes that is as large as the set of those asked is that set.
LEMMA AllOfThem ==
  ASSUME NEW S, NEW A, IsFiniteSet(S), A \subseteq S, Cardinality(A) >= Cardinality(S)
  PROVE  A = S
<1>1. /\ IsFiniteSet(A) /\ Cardinality(A) \in Nat /\ Cardinality(S) \in Nat
      /\ Cardinality(A) <= Cardinality(S)
      /\ (Cardinality(A) = Cardinality(S) => A = S)
  BY FS_Subset, FS_CardinalityType
<1>2. QED BY <1>1

\* An execution begins by no other step.
LEMMA OnlyBeginExecution == Next /\ ran' # ran => BeginExecution
BY DEF Next, Run, Abandon, BeginAttempt, Fail, Skip, Stop, Preflight, BuildContext,
   evaluateCodeReview, Decide, PassOn, FinishExecution, CancelExecution, RecordOutcome,
   EndPlan, AppendRun, RequestAbort, GovernorAnswers, GovernorTimesOut
-----------------------------------------------------------------------------
(* Types                                                                   *)

\* Only an attempt that another may follow leads back to the planner.
TInv == TypeOK /\ (pc = "plan" => attempt < MaxAttempts)

\* Types hold at the start.
LEMMA TypesInit == Init => TInv
<1>1. SUFFICES ASSUME Init PROVE TInv OBVIOUS
<1>2. (CHOOSE a \in Actions : TRUE) \in Actions BY RunnerType DEF RunnerType
<1>3. action \in AllActions BY <1>1, <1>2 DEF Init, AllActions
<1>4. VoteTypeOK BY <1>1 DEF Init, VoteInit, VoteTypeOK, Ballots
<1>5. overrides \in [Targets -> Targets] BY <1>1 DEF Init
<1>6. results \in Seq(Entry) /\ earlier \in Seq(Entry) BY <1>1 DEF Init
<1>7. attempt \in 0 .. MaxAttempts /\ attempt < MaxAttempts
  BY <1>1, RunnerType DEF Init, RunnerType
<1>8. pc \in PCs /\ outcome \in Outcomes /\ key \in Nat /\ size \in Nat
  BY <1>1 DEF Init, PCs, Outcomes, NoKey
<1>9. QED BY <1>1, <1>3, <1>4, <1>5, <1>6, <1>7, <1>8 DEF Init, TInv, TypeOK

\* The action in hand makes a proper entry, with any port.
LEMMA NewEntry ==
  ASSUME TypeOK, NEW t \in Targets
  PROVE  [action |-> action, key |-> key, outcome |-> outcome, size |-> size, port |-> t] \in Entry
BY DEF TypeOK, Entry

\* e is what becomes of the action in hand, and its port is the only one given up.
Records(e) ==
  /\ results' = Append(results, e)
  /\ e.action = action /\ e.key = key /\ e.outcome = outcome /\ e.size = size
  /\ \A t \in failedTargets' : t \in failedTargets \/ (outcome = "notStarted" /\ e.port = t)

\* There is one.
LEMMA Recorded == ASSUME TypeOK, RecordOutcome PROVE \E e \in Entry : Records(e)
<1>. DEFINE entry(t) ==
       [action |-> action, key |-> key, outcome |-> outcome, size |-> size, port |-> t]
<1>1. PICK t \in Ports :
        /\ results' = Append(results, entry(t))
        /\ failedTargets' =
             failedTargets \cup (IF outcome = "notStarted" /\ t # None THEN {t} ELSE {})
  BY DEF RecordOutcome
<1>2. t \in Targets BY <1>1, Fields DEF Ports, TypeOK
<1>3. entry(t) \in Entry BY <1>2, NewEntry
<1>4. Records(entry(t)) BY <1>1 DEF Records
<1>. QED BY <1>3, <1>4

\* They are kept; only an attempt that another may follow returns to planning.
LEMMA TypesNext == TInv /\ [Next]_vars => TInv'
<1>1. SUFFICES ASSUME TInv, [Next]_vars PROVE TInv' OBVIOUS
<1>a. TypeOK BY <1>1 DEF TInv
<1>. USE <1>1, <1>a, RunnerType DEF TInv
<1>p. /\ {"plan", "next", "memory", "review", "vote", "engine", "prepare", "execute",
          "running", "record", "append", "done", "aborted", "failed"} \subseteq PCs
      /\ {"approved", "failed", "notStarted", "skipped", "stopped", "denied", "rejected",
          "unproven"} \subseteq Outcomes
  BY DEF PCs, Ended, Outcomes, Executed
<1>k. \A a \in Actions : /\ applyOverrides(a) \in AllActions /\ a \in AllActions
                         /\ actionKey \in Nat /\ idempotencyKey(a) \in Nat
                         /\ deterministicActionId(a) \in (1 .. Phases) \X Actions
  <2>1. Len(results) \in Nat BY DEF TypeOK
  <2>2. \A a \in Actions : a \in AllActions BY DEF AllActions
  <2>3. currentPhase \in 1 .. Phases BY <2>1 DEF currentPhase, RunnerType
  <2>4. \A a \in Actions : applyOverrides(a) \in AllActions BY Overrides DEF TypeOK
  <2>5. QED BY <2>1, <2>2, <2>3, <2>4, Fields
         DEF actionKey, idempotencyKey, deterministicActionId, NoKey
<1>v. \A mode : runCouncilVote(mode) => VoteTypeOK'
  BY DEF runCouncilVote, VoteTypeOK, TypeOK, Ballots
<1>w. \A g \in Council, b \in Answers : Answer(g, b) => VoteTypeOK'
  BY DEF Answer, VoteTypeOK, TypeOK, Ballots
<1>u. UNCHANGED votevars => VoteTypeOK' BY DEF votevars, VoteTypeOK, TypeOK
<1>2. CASE Abandon BY <1>2, <1>p, <1>u
  DEF Abandon, TypeOK, vars, current, record, depends
<1>3. CASE BeginAttempt BY <1>3, <1>p, <1>u
  DEF BeginAttempt, TypeOK, vars, current, record, depends, RunnerType
<1>4. CASE Fail BY <1>4, <1>p, <1>u
  DEF Fail, TypeOK, vars, current, record, depends
<1>5. ASSUME NEW a \in Actions, Skip(a) \/ Stop(a) \/ Preflight(a) PROVE TInv'
  <2>1. CASE Skip(a) BY <2>1, <1>p, <1>u, <1>k
    DEF Skip, InHand, TypeOK, vars, current, record, depends
  <2>2. CASE Stop(a) BY <2>2, <1>p, <1>u, <1>k
    DEF Stop, InHand, TypeOK, vars, current, record, depends
  <2>3. CASE Preflight(a) BY <2>3, <1>p, <1>u, <1>k
    DEF Preflight, InHand, TypeOK, vars, current, record, depends
  <2>4. QED BY <1>5, <2>1, <2>2, <2>3
<1>c. AskCouncil => /\ VoteTypeOK' /\ pc' \in {"record", "vote"}
                    /\ outcome' = "denied" \/ outcome' = outcome
  BY <1>v, <1>u DEF AskCouncil
<1>6. CASE BuildContext BY <1>6, <1>p, <1>u, <1>c
  DEF BuildContext, TypeOK, vars, current, record, depends
<1>7. CASE evaluateCodeReview BY <1>7, <1>p, <1>u, <1>c
  DEF evaluateCodeReview, TypeOK, vars, current, record, depends
<1>8. CASE Decide BY <1>8, <1>p, <1>u
  DEF Decide, TypeOK, vars, current, record, depends
<1>9. CASE PassOn BY <1>9, <1>p, <1>u
  DEF PassOn, TypeOK, vars, current, record, depends
<1>10. CASE BeginExecution BY <1>10, <1>p, <1>u
  DEF BeginExecution, TypeOK, vars, current, record, depends
<1>11. CASE FinishExecution
  <2>1. OutcomesOf(action.type) \subseteq Outcomes
    BY DEF OutcomesOf, Outcomes, Executed
  <2>2. OutputSizes \subseteq Nat BY DEF RunnerType
  <2>3. QED BY <1>11, <2>1, <2>2, <1>p, <1>u
         DEF FinishExecution, TypeOK, vars, current, record, depends
<1>12. CASE CancelExecution BY <1>12, <1>p, <1>u
  DEF CancelExecution, TypeOK, vars, current, record, depends
<1>13. CASE RecordOutcome
  <2>1. results' \in Seq(Entry)
    <3>1. PICK e \in Entry : Records(e) BY <1>13, Recorded
    <3>2. QED BY <3>1 DEF Records, TypeOK
  <2>2. failedSpaces' \subseteq Spaces BY <1>13, Fields DEF RecordOutcome, TypeOK
  <2>3. failedTargets' \subseteq Targets /\ overrides' \in [Targets -> Targets]
    <3>1. Ports \subseteq Targets BY Fields DEF Ports, TypeOK
    <3>2. QED BY <1>13, <3>1, Fields DEF RecordOutcome, TypeOK
  <2>4. cost' \in Nat BY <1>13, Fields DEF RecordOutcome, TypeOK
  <2>5. VoteTypeOK' BY <1>13 DEF RecordOutcome, VoteTypeOK, TypeOK, Ballots
  <2>6. QED BY <1>13, <2>1, <2>2, <2>3, <2>4, <2>5, <1>p
         DEF RecordOutcome, TypeOK, current
<1>14. CASE EndPlan
  <2>1. earlier' \in Seq(Entry) /\ results' \in Seq(Entry) BY <1>14 DEF EndPlan, TypeOK
  <2>2. QED BY <1>14, <2>1, <1>p, <1>u DEF EndPlan, TypeOK, current, depends
<1>15. CASE AppendRun BY <1>15, <1>p, <1>u
  DEF AppendRun, TypeOK, vars, current, record, depends
<1>16. CASE RequestAbort BY <1>16, <1>p, <1>u
  DEF RequestAbort, TypeOK, vars, current, record, depends
<1>17. ASSUME NEW g \in Council, NEW b \in Answers,
              GovernorAnswers(g, b) \/ GovernorTimesOut(g) PROVE TInv'
  BY <1>17, <1>w DEF GovernorAnswers, GovernorTimesOut, TimeOut, Answers, TypeOK, current,
     record, depends
<1>18. CASE UNCHANGED vars BY <1>18, <1>u
  DEF TypeOK, vars, current, record, depends
<1>19. Answers # {} BY DEF Answers
<1>20. QED BY <1>2, <1>3, <1>4, <1>5, <1>6, <1>7, <1>8, <1>9, <1>10, <1>11, <1>12, <1>13,
        <1>14, <1>15, <1>16, <1>17, <1>18, <1>19 DEF Next, Run

\* Every variable of a task run keeps its type in every reachable state, the phase and
\* the attempt staying within their bounds (runPlanActions, executeLocalOrchestratorTask).
THEOREM Typing == Spec => []TypeOK
<1>1. TInv => TypeOK BY DEF TInv
<1>2. QED BY <1>1, TypesInit, TypesNext, PTL DEF Spec
-----------------------------------------------------------------------------
(* The budget                                                              *)

\* Where an action has passed preflight and is not yet charged.
Admitted == {"memory", "review", "vote", "engine", "prepare", "execute", "running"}

\* What the action in hand will be charged still fits.
Fits == \/ pc \in Admitted
        \/ pc = "record" /\ outcome = "approved"
        => cost + action.cost <= MaxCost

CInv == TInv /\ cost <= MaxCost /\ Fits

\* Nothing has been charged at the start.
LEMMA BudgetInit == Init => CInv
<1>1. Init => TInv BY TypesInit
<1>2. QED BY <1>1, RunnerType DEF Init, CInv, Fits, Admitted, RunnerType

\* Nothing is charged between the check of an action and its own execution.
LEMMA BudgetNext == CInv /\ [Next]_vars => CInv'
<1>1. SUFFICES ASSUME CInv, [Next]_vars PROVE (cost <= MaxCost /\ Fits)'
  BY TypesNext DEF CInv
<1>2. /\ TypeOK /\ cost <= MaxCost /\ Fits /\ cost \in Nat /\ MaxCost \in Nat
      /\ action.cost \in Nat
  BY <1>1, Fields, RunnerType DEF CInv, TInv, TypeOK, RunnerType
<1>. USE <1>2
<1>3. ASSUME UNCHANGED <<cost, action, outcome>>, pc \in Admitted, pc' \in Admitted
      PROVE  (cost <= MaxCost /\ Fits)'
  BY <1>3 DEF Fits
<1>4. ASSUME UNCHANGED cost, pc' \notin Admitted, pc' # "record"
      PROVE  (cost <= MaxCost /\ Fits)'
  BY <1>4 DEF Fits, Admitted
<1>5. ASSUME UNCHANGED cost, pc' = "record", outcome' # "approved"
      PROVE  (cost <= MaxCost /\ Fits)'
  BY <1>5 DEF Fits, Admitted
<1>6. CASE Abandon BY <1>6, <1>4 DEF Abandon, Admitted, record
<1>7. CASE BeginAttempt BY <1>7, <1>4 DEF BeginAttempt, Admitted, record
<1>8. CASE Fail BY <1>8, <1>4 DEF Fail, Admitted, record
<1>9. ASSUME NEW a \in Actions, Skip(a) \/ Stop(a) PROVE (cost <= MaxCost /\ Fits)'
  BY <1>9, <1>5 DEF Skip, Stop, record
<1>10. ASSUME NEW a \in Actions, Preflight(a) PROVE (cost <= MaxCost /\ Fits)'
  <2>1. CASE outcome' = "denied" /\ pc' = "record" BY <1>10, <2>1, <1>5 DEF Preflight, record
  <2>2. CASE ~OverBudget(a) /\ pc' = "memory"
    <3>1. a.cost \in Nat BY Fields DEF AllActions
    <3>2. action'.cost = a.cost BY <1>10, Overrides DEF Preflight, InHand, TypeOK
    <3>3. cost + a.cost <= MaxCost BY <2>2, <3>1 DEF OverBudget
    <3>4. QED BY <1>10, <3>2, <3>3 DEF Preflight, record, Fits
  <2>3. QED BY <1>10, <2>1, <2>2 DEF Preflight
<1>11. ASSUME AskCouncil, UNCHANGED <<cost, action>>, pc \in Admitted
       PROVE  (cost <= MaxCost /\ Fits)'
  BY <1>11, <1>3, <1>5 DEF AskCouncil, Admitted
<1>12. CASE BuildContext BY <1>12, <1>11, <1>3 DEF BuildContext, Admitted, record
<1>13. CASE evaluateCodeReview BY <1>13, <1>11, <1>5 DEF evaluateCodeReview, Admitted, record
<1>14. CASE Decide BY <1>14, <1>3, <1>5 DEF Decide, Admitted, record
<1>15. CASE PassOn BY <1>15, <1>3 DEF PassOn, Admitted, current, record
<1>16. CASE BeginExecution BY <1>16, <1>3
  DEF BeginExecution, RunsAt, Admitted, current, record
<1>17. CASE FinishExecution BY <1>17 DEF FinishExecution, Fits, Admitted, record
<1>18. CASE CancelExecution BY <1>18, <1>4 DEF CancelExecution, Admitted, record
<1>19. CASE RecordOutcome BY <1>19 DEF RecordOutcome, Fits, Admitted, current
<1>20. CASE EndPlan BY <1>20, <1>4 DEF EndPlan, Admitted
<1>21. CASE AppendRun BY <1>21, <1>4 DEF AppendRun, Admitted, record
<1>22. CASE RequestAbort BY <1>22 DEF RequestAbort, Fits, current, record
<1>23. ASSUME NEW g \in Council, NEW b \in Answers,
              GovernorAnswers(g, b) \/ GovernorTimesOut(g)
       PROVE  (cost <= MaxCost /\ Fits)'
  BY <1>23 DEF GovernorAnswers, GovernorTimesOut, Fits, current, record
<1>24. CASE UNCHANGED vars BY <1>24 DEF vars, Fits, current, record
<1>25. Answers # {} BY DEF Answers
<1>26. QED BY <1>1, <1>6, <1>7, <1>8, <1>9, <1>10, <1>12, <1>13, <1>14, <1>15, <1>16,
        <1>17, <1>18, <1>19, <1>20, <1>21, <1>22, <1>23, <1>24, <1>25 DEF Next, Run

\* What the approved actions of a task cost together never passes the limit, over all its
\* attempts (the cumulative check of evaluateHardConstraints).
THEOREM Budget == Spec => []CostWithinLimit
<1>1. CInv => CostWithinLimit BY DEF CInv, CostWithinLimit
<1>2. QED BY <1>1, BudgetInit, BudgetNext, PTL DEF Spec
-----------------------------------------------------------------------------
(* Governance                                                              *)

\* While the votes come in: just the voters have been asked, on the fast path there is
\* one, and a skill has been reviewed.
Balloting ==
  LET mode == resolveExecutionMode(action) IN
  /\ \A g \in Council : ballot[g] # "unasked" <=> g \in Voters(mode)
  /\ mode = "fast_path" => Voters(mode) # {}
  /\ action.type = "create_skill" => review = "yes"

Past == {"engine", "prepare", "execute"}

Voted == (pc = "vote" => Balloting) /\ (pc \in Past => Approval)

GInv == TInv /\ Voted

\* The master governor's decision is the approval the vote gate promises.
LEMMA DecisionApproves ==
  ASSUME VoteTypeOK, Balloting, AllVoted(resolveExecutionMode(action)),
         decisionApproved(resolveExecutionMode(action))
  PROVE  Approval
<1>. DEFINE mode == resolveExecutionMode(action)
            yes  == {g \in governors : ballot[g] = "yes"}
<1>1. governors \subseteq Council /\ IsFiniteSet(Council) /\ FastPath \subseteq Council
  BY CouncilType DEF CouncilType, VoteTypeOK
<1>2. Voters(mode) \subseteq governors BY DEF Voters
<1>3. yesVotes \subseteq Voters(mode)
  BY DEF yesVotes, normalizeGovernorVote, Balloting
<1>4. Expected(mode) \subseteq Voters(mode) /\ Cardinality(yesVotes) >= Needed(mode)
  BY DEF decisionApproved, missingGovernorIds
<1>5. yesVotes = yes
  BY <1>1, <1>2, <1>3 DEF yesVotes, normalizeGovernorVote
<1>6. CASE mode = "fast_path"
  <2>1. IsFiniteSet(Voters(mode)) BY <1>1, <1>2, FS_Subset
  <2>2. yesVotes = Voters(mode) BY <2>1, <1>3, <1>4, <1>6, AllOfThem DEF Needed
  <2>3. FastPath \subseteq yes BY <1>4, <1>5, <1>6, <2>2 DEF Expected
  <2>4. FastPath # {} BY <1>6 DEF Balloting, Voters
  <2>5. QED BY <1>6, <2>3, <2>4 DEF Approval, Balloting
<1>7. CASE mode # "fast_path"
  <2>1. Council \subseteq Voters(mode) BY <1>4, <1>7 DEF Expected
  <2>2. \A g \in Council : g \in governors /\ ballot[g] \notin {"unasked", "asked"}
    BY <2>1, <1>2 DEF AllVoted, Balloting
  <2>3. Cardinality(yes) >= Threshold BY <1>4, <1>5, <1>7 DEF Needed
  <2>4. QED BY <1>7, <2>2, <2>3 DEF Approval, Balloting
<1>8. QED BY <1>6, <1>7

\* No vote is open at the start.
LEMMA GovernedInit == Init => GInv
<1>1. Init => TInv BY TypesInit
<1>2. QED BY <1>1 DEF Init, GInv, Voted, Past

\* An approval stands from the decision to the execution.
LEMMA GovernedNext == GInv /\ [Next]_vars => GInv'
<1>1. SUFFICES ASSUME GInv, [Next]_vars PROVE Voted'
  BY TypesNext DEF GInv
<1>2. TypeOK /\ VoteTypeOK /\ Voted BY <1>1 DEF GInv, TInv, TypeOK
<1>. USE <1>2
<1>3. ASSUME pc' \notin Past, pc' # "vote" PROVE Voted' BY <1>3 DEF Voted
<1>4. ASSUME UNCHANGED <<pc, action, review, votevars>> PROVE Voted'
  BY <1>4 DEF Voted, Balloting, Approval, votevars, Voters
<1>5. ASSUME pc \in Past, pc' \in Past, UNCHANGED <<action, review, votevars>> PROVE Voted'
  BY <1>5 DEF Voted, Approval, votevars, Past
<1>6. ASSUME AskCouncil, action' = action, action.type = "create_skill" => review' = "yes"
      PROVE  Voted'
  <2>1. CASE pc' = "record" BY <2>1, <1>3 DEF Past
  <2>2. CASE runCouncilVote(resolveExecutionMode(action)) /\ pc' = "vote"
                /\ ~(resolveExecutionMode(action) = "fast_path"
                       /\ Voters(resolveExecutionMode(action)) = {})
    BY <2>2, <1>6 DEF Voted, Balloting, runCouncilVote, Voters, Past
  <2>3. QED BY <1>6, <2>1, <2>2 DEF AskCouncil
<1>7. CASE Abandon BY <1>7, <1>3 DEF Abandon, Past
<1>8. CASE BeginAttempt BY <1>8, <1>3 DEF BeginAttempt, Past
<1>9. CASE Fail BY <1>9, <1>3 DEF Fail, Past
<1>10. ASSUME NEW a \in Actions, Skip(a) \/ Stop(a) \/ Preflight(a) PROVE Voted'
  BY <1>10, <1>3 DEF Skip, Stop, Preflight, Past
<1>11. CASE BuildContext
  <2>1. CASE action.type = "create_skill" BY <1>11, <2>1, <1>3 DEF BuildContext, Past
  <2>2. CASE action.type # "create_skill" BY <1>11, <2>2, <1>6 DEF BuildContext
  <2>3. QED BY <2>1, <2>2
<1>12. CASE evaluateCodeReview BY <1>12, <1>3, <1>6 DEF evaluateCodeReview, Past
<1>13. CASE Decide
  <2>1. CASE pc' = "record" BY <2>1, <1>3 DEF Past
  <2>2. CASE pc' = "engine" /\ decisionApproved(resolveExecutionMode(action))
    <3>1. Balloting /\ AllVoted(resolveExecutionMode(action)) BY <1>13 DEF Decide, Voted
    <3>2. Approval BY <3>1, <2>2, DecisionApproves
    <3>3. QED BY <1>13, <2>2, <3>2 DEF Decide, Voted, Approval, votevars
  <2>3. QED BY <1>13, <2>1, <2>2 DEF Decide
<1>14. CASE PassOn BY <1>14, <1>5 DEF PassOn, Past, current
<1>15. CASE BeginExecution BY <1>15, <1>3 DEF BeginExecution, Past
<1>16. CASE FinishExecution BY <1>16, <1>3 DEF FinishExecution, Past
<1>17. CASE CancelExecution BY <1>17, <1>3 DEF CancelExecution, Past
<1>18. CASE RecordOutcome BY <1>18, <1>3 DEF RecordOutcome, Past
<1>19. CASE EndPlan BY <1>19, <1>3 DEF EndPlan, Past
<1>20. CASE AppendRun BY <1>20, <1>3 DEF AppendRun, Past
<1>21. CASE RequestAbort BY <1>21, <1>4 DEF RequestAbort, current
<1>22. ASSUME NEW g \in Council, NEW b \in Answers,
              GovernorAnswers(g, b) \/ GovernorTimesOut(g)
       PROVE  Voted'
  <2>1. \E c \in Answers : pc = "vote" /\ Answer(g, c)
    BY <1>22 DEF GovernorAnswers, GovernorTimesOut, TimeOut, Answers
  <2>2. UNCHANGED <<pc, action, review, governors>>
    BY <1>22 DEF GovernorAnswers, GovernorTimesOut, TimeOut, Answer, current
  <2>3. \A h \in Council : (ballot'[h] = "unasked") = (ballot[h] = "unasked")
    BY <2>1 DEF Answer, Answers, VoteTypeOK
  <2>4. QED BY <2>1, <2>2, <2>3 DEF Voted, Balloting, Voters, Past
<1>23. CASE UNCHANGED vars BY <1>23, <1>4 DEF vars, current
<1>24. Answers # {} BY DEF Answers
<1>25. QED BY <1>1, <1>7, <1>8, <1>9, <1>10, <1>11, <1>12, <1>13, <1>14, <1>15, <1>16,
        <1>17, <1>18, <1>19, <1>20, <1>21, <1>22, <1>23, <1>24 DEF Next, Run

\* Whatever the council, its timers and its answers: an action that is executed has the
\* approval of a vote on itself, complete and unforged (evaluateTaskRunnerGovernance,
\* runCouncilVote).
THEOREM Governance == Spec => Governed
<1>1. GInv /\ [Next]_vars => [ran' # ran => Approval]_vars
  <2>1. SUFFICES ASSUME GInv, Next, ran' # ran PROVE Approval OBVIOUS
  <2>2. BeginExecution BY <2>1, OnlyBeginExecution
  <2>3. pc \in Past BY <2>2 DEF BeginExecution, RunsAt, Past
  <2>4. QED BY <2>1, <2>3 DEF GInv, Voted
<1>2. QED BY <1>1, GovernedInit, GovernedNext, PTL DEF Spec, Governed
-----------------------------------------------------------------------------
(* Idempotency                                                             *)

\* The key of an admitted action is not among those of the attempt.
KInv == pc \in Admitted => key \notin seenIdempotencyKeys

\* The key of an admitted action stays new until it is recorded.
LEMMA KeysNext == KInv /\ [Next]_vars => KInv'
<1>1. SUFFICES ASSUME KInv, [Next]_vars PROVE KInv' OBVIOUS
<1>. USE <1>1
<1>2. ASSUME UNCHANGED <<key, results>>, pc \in Admitted \/ pc' \notin Admitted PROVE KInv'
  BY <1>2 DEF KInv, seenIdempotencyKeys
<1>3. ASSUME pc' \notin Admitted PROVE KInv' BY <1>3 DEF KInv
<1>4. CASE Abandon \/ BeginAttempt \/ Fail \/ FinishExecution \/ CancelExecution
             \/ RecordOutcome \/ EndPlan \/ AppendRun
  BY <1>4, <1>3 DEF Abandon, BeginAttempt, Fail, FinishExecution, CancelExecution,
     RecordOutcome, EndPlan, AppendRun, Admitted
<1>5. ASSUME NEW a \in Actions, Skip(a) \/ Stop(a) PROVE KInv'
  BY <1>5, <1>3 DEF Skip, Stop, Admitted
<1>6. ASSUME NEW a \in Actions, Preflight(a) PROVE KInv'
  BY <1>6 DEF Preflight, Stopped, InHand, record, KInv, seenIdempotencyKeys
<1>7. CASE BuildContext \/ evaluateCodeReview \/ Decide \/ PassOn \/ BeginExecution
  BY <1>7, <1>2 DEF BuildContext, evaluateCodeReview, Decide, PassOn, BeginExecution,
     RunsAt, Admitted, current, record
<1>8. CASE RequestAbort \/ UNCHANGED vars
  BY <1>8 DEF RequestAbort, vars, current, record, KInv, seenIdempotencyKeys
<1>9. ASSUME NEW g \in Council, NEW b \in Answers,
             GovernorAnswers(g, b) \/ GovernorTimesOut(g)
      PROVE  KInv'
  BY <1>9 DEF GovernorAnswers, GovernorTimesOut, current, record, KInv, seenIdempotencyKeys
<1>10. Answers # {} BY DEF Answers
<1>11. QED BY <1>4, <1>5, <1>6, <1>7, <1>8, <1>9, <1>10 DEF Next, Run

\* In one attempt an idempotency key is executed at most once, whatever came of the
\* execution before (seenIdempotencyKeys in runPlanActions).
THEOREM Idempotency == Spec => KeyOncePerAttempt
<1>1. Init => KInv BY DEF Init, KInv, Admitted
<1>2. KInv /\ [Next]_vars =>
        [ran' # ran =>
           \A i \in DOMAIN results : results[i].outcome \in Executed => results[i].key # key]_vars
  <2>1. SUFFICES ASSUME KInv, Next, ran' # ran
                 PROVE  \A i \in DOMAIN results : results[i].key # key
    OBVIOUS
  <2>2. BeginExecution BY <2>1, OnlyBeginExecution
  <2>3. pc \in Admitted BY <2>2 DEF BeginExecution, RunsAt, Admitted
  <2>4. QED BY <2>1, <2>3 DEF KInv, seenIdempotencyKeys
<1>3. QED BY <1>1, <1>2, KeysNext, PTL DEF Spec, KeyOncePerAttempt
-----------------------------------------------------------------------------
(* Planning again                                                          *)

Unapproved(s) == \A i \in DOMAIN s : s[i].outcome # "approved"

\* Until the last plan ends, no attempt before it has had an approved action.
RInv == TInv /\ (pc \notin {"append"} \cup Ended => Unapproved(earlier))

\* An attempt with an approved action is never followed by another.
LEMMA ReplanNext == RInv /\ [Next]_vars => RInv'
<1>1. SUFFICES ASSUME RInv, [Next]_vars
               PROVE  (pc \notin {"append"} \cup Ended => Unapproved(earlier))'
  BY TypesNext DEF RInv
<1>2. CASE EndPlan
  <2>1. CASE governanceReplanFeedback
    <3>1. Unapproved(earlier) /\ Unapproved(results)
      BY <1>1, <1>2, <2>1 DEF RInv, EndPlan, Ended, governanceReplanFeedback, Unapproved
    <3>2. earlier \in Seq(Entry) /\ results \in Seq(Entry) BY <1>1 DEF RInv, TInv, TypeOK
    <3>3. Unapproved(earlier \o results) BY <3>1, <3>2 DEF Unapproved
    <3>4. QED BY <1>2, <3>3 DEF EndPlan, Unapproved
  <2>2. CASE ~governanceReplanFeedback BY <1>2, <2>2 DEF EndPlan
  <2>3. QED BY <2>1, <2>2
<1>3. ASSUME earlier' = earlier, pc \notin {"append"} \cup Ended \/ pc' \in {"append"} \cup Ended
      PROVE  (pc \notin {"append"} \cup Ended => Unapproved(earlier))'
  BY <1>1, <1>3 DEF RInv, Unapproved, Ended
<1>4. CASE Abandon \/ Fail \/ CancelExecution \/ AppendRun
  BY <1>4, <1>3 DEF Abandon, Fail, CancelExecution, AppendRun, record, Ended
<1>5. CASE BeginAttempt \/ BuildContext \/ evaluateCodeReview \/ Decide \/ PassOn
             \/ BeginExecution \/ FinishExecution \/ RecordOutcome
  BY <1>5, <1>3 DEF BeginAttempt, BuildContext, evaluateCodeReview, Decide, PassOn,
     BeginExecution, RunsAt, FinishExecution, RecordOutcome, record, Ended
<1>6. ASSUME NEW a \in Actions, Skip(a) \/ Stop(a) \/ Preflight(a)
      PROVE  (pc \notin {"append"} \cup Ended => Unapproved(earlier))'
  BY <1>6, <1>3 DEF Skip, Stop, Preflight, Planned, record, Ended
<1>7. CASE RequestAbort \/ UNCHANGED vars
  BY <1>1, <1>7 DEF RequestAbort, vars, record, RInv, Unapproved
<1>8. ASSUME NEW g \in Council, NEW b \in Answers,
             GovernorAnswers(g, b) \/ GovernorTimesOut(g)
      PROVE  (pc \notin {"append"} \cup Ended => Unapproved(earlier))'
  BY <1>8, <1>3 DEF GovernorAnswers, GovernorTimesOut, record, Ended
<1>9. Answers # {} BY DEF Answers
<1>10. QED BY <1>1, <1>2, <1>4, <1>5, <1>6, <1>7, <1>8, <1>9 DEF Next, Run

\* A plan of which any action was approved is the last of its task; one whose actions
\* only failed may be replaced (extractGovernanceReplanFeedback).
THEOREM OnePlanTakesEffect == Spec => []NothingApprovedIsReplanned
<1>1. Init => RInv
  BY TypesInit DEF Init, RInv, Unapproved
<1>2. RInv => NothingApprovedIsReplanned
  BY DEF RInv, Unapproved, NothingApprovedIsReplanned, Ended
<1>3. QED BY <1>1, <1>2, ReplanNext, PTL DEF Spec
-----------------------------------------------------------------------------
(* The ledger                                                              *)

\* An outcome recorded in the attempt comes last in the ledger, and the end of an attempt
\* leaves the ledger as it is.
LEMMA LedgerGrows ==
  ASSUME NEW e \in Entry, earlier \in Seq(Entry), results \in Seq(Entry)
  PROVE  /\ earlier \o Append(results, e) = Append(ledger, e)
         /\ ledger \in Seq(Entry) /\ ledger \o <<>> = ledger
         /\ DOMAIN ledger = 1 .. Len(ledger) /\ Len(ledger) = Len(earlier) + Len(results)
         /\ \A i \in DOMAIN results : ledger[Len(earlier) + i] = results[i]
<1>1. ledger \in Seq(Entry) /\ ledger \o <<>> = ledger
  BY ConcatProperties, ConcatEmptySeq DEF ledger
<1>2. earlier \o Append(results, e) = Append(ledger, e)
  <2>1. <<e>> \in Seq(Entry) BY DEF Entry
  <2>2. Append(results, e) = results \o <<e>> /\ Append(ledger, e) = ledger \o <<e>>
    BY <1>1, AppendIsConcat
  <2>3. QED BY <2>1, <2>2, ConcatAssociative DEF ledger
<1>3. QED BY <1>1, <1>2 DEF ledger

\* From the gate to the record of an approval: what the gate asked for is still so.
Passed == pc \in Past \cup {"running"} \/ (pc = "record" /\ outcome = "approved")

VInv == VerifiedClaim /\ (Passed => Proven)

\* The proof a claim was let through on is in the ledger before the claim.
LEMMA ClaimsNext == TInv /\ VInv /\ [Next]_vars => VInv'
<1>1. SUFFICES ASSUME TInv, VInv, [Next]_vars PROVE VInv' OBVIOUS
<1>2. TypeOK BY <1>1 DEF TInv
<1>3. ASSUME UNCHANGED <<results, earlier>>, Passed' => Passed /\ action' = action PROVE VInv'
  BY <1>1, <1>3 DEF VInv, VerifiedClaim, ledger, Proven
<1>4. CASE Abandon \/ BeginAttempt \/ Fail \/ PassOn \/ BeginExecution \/ FinishExecution
             \/ CancelExecution \/ AppendRun \/ RequestAbort
  BY <1>4, <1>3 DEF Abandon, BeginAttempt, Fail, PassOn, BeginExecution, RunsAt, FinishExecution,
     CancelExecution, AppendRun, RequestAbort, Passed, Past, record, current, Ended
<1>5. ASSUME NEW a \in Actions, Skip(a) \/ Stop(a) \/ Preflight(a) PROVE VInv'
  BY <1>5, <1>3 DEF Skip, Stop, Preflight, InHand, Passed, Past, record
<1>6. CASE BuildContext \/ evaluateCodeReview
  BY <1>6, <1>3 DEF BuildContext, evaluateCodeReview, AskCouncil, Passed, Past, record
<1>7. CASE Decide
  BY <1>1, <1>7, <1>3 DEF Decide, Passed, Past, record, VInv, VerifiedClaim, ledger, Proven
<1>8. CASE RecordOutcome
  <2>0. PICK e \in Entry : Records(e) BY <1>2, <1>8, Recorded
  <2>1. e \in Entry BY <2>0
  <2>2. earlier' = earlier /\ results' = Append(results, e) /\ pc' = "next" /\ pc = "record"
    BY <1>8, <2>0 DEF RecordOutcome, Records
  <2>3. /\ ledger' = Append(ledger, e) /\ ledger \in Seq(Entry)
        /\ DOMAIN ledger = 1 .. Len(ledger) /\ Len(ledger) = Len(earlier) + Len(results)
        /\ \A i \in DOMAIN results : ledger[Len(earlier) + i] = results[i]
        /\ results \in Seq(Entry) /\ earlier \in Seq(Entry)
    BY <1>2, <2>1, <2>2, LedgerGrows DEF ledger, TypeOK
  <2>4. VerifiedClaim'
    <3>1. SUFFICES ASSUME ClaimPrompt, NEW i \in DOMAIN ledger',
                          ledger'[i].outcome = "approved", ledger'[i].action.type = "respond"
                   PROVE  \E j \in 1 .. i - 1 : /\ ledger'[j].outcome = "approved"
                                                /\ ledger'[j].action.type # "respond"
      BY DEF VerifiedClaim
    <3>2. CASE i \in DOMAIN ledger
      <4>1. ledger'[i] = ledger[i] BY <2>1, <2>3, <3>2
      <4>2. PICK j \in 1 .. i - 1 : /\ ledger[j].outcome = "approved"
                                    /\ ledger[j].action.type # "respond"
        BY <1>1, <3>1, <3>2, <4>1 DEF VInv, VerifiedClaim
      <4>3. ledger'[j] = ledger[j] BY <2>1, <2>3, <3>2, <4>2
      <4>4. QED BY <4>2, <4>3
    <3>3. CASE i = Len(ledger) + 1
      <4>1. ledger'[i] = e
        <5>1. Len(ledger) \in Nat /\ Append(ledger, e)[Len(ledger) + 1] = e BY <2>1, <2>3
        <5>2. QED BY <2>3, <3>3, <5>1
      <4>2. outcome = "approved" /\ action.type = "respond" BY <2>0, <3>1, <4>1 DEF Records
      <4>3. PICK k \in DOMAIN results : results[k].outcome = "approved"
                                       /\ results[k].action.type # "respond"
        BY <1>1, <2>2, <3>1, <4>2 DEF VInv, Passed, Proven
      <4>4. /\ Len(earlier) + k \in 1 .. i - 1 /\ Len(earlier) + k \in 1 .. Len(ledger)
            /\ ledger[Len(earlier) + k] = results[k]
        BY <2>3, <3>3, <4>3
      <4>5. ledger'[Len(earlier) + k] = results[k] BY <2>1, <2>3, <4>4
      <4>6. QED BY <4>3, <4>4, <4>5
    <3>4. QED BY <2>1, <2>3, <3>1, <3>2, <3>3
  <2>5. QED BY <2>2, <2>4 DEF VInv, Passed, Past
<1>9. CASE EndPlan
  <2>1. ledger' = ledger \o <<>> BY <1>9 DEF EndPlan, ledger
  <2>2. ledger' = ledger
    BY <1>2, <2>1, ConcatProperties, ConcatEmptySeq DEF TypeOK, ledger
  <2>3. QED BY <1>1, <1>9, <2>2 DEF EndPlan, VInv, VerifiedClaim, Passed, Past
<1>10. ASSUME NEW g \in Council, NEW b \in Answers,
              GovernorAnswers(g, b) \/ GovernorTimesOut(g)
       PROVE  VInv'
  BY <1>10, <1>3 DEF GovernorAnswers, GovernorTimesOut, Passed, current, record
<1>11. CASE UNCHANGED vars BY <1>11, <1>3 DEF vars, Passed, current, record
<1>12. Answers # {} BY DEF Answers
<1>13. QED BY <1>1, <1>4, <1>5, <1>6, <1>7, <1>8, <1>9, <1>10, <1>11, <1>12 DEF Next, Run

\* Under a prompt for a claim of completion no answer is ever given before an approved
\* action of another kind is in the ledger (evaluateVerificationGate).
THEOREM ClaimsAreProven == Spec => []VerifiedClaim
<1>1. Init => VInv BY DEF Init, VInv, VerifiedClaim, ledger, Passed, Past
<1>2. VInv => VerifiedClaim BY DEF VInv
<1>3. QED BY <1>1, <1>2, TypesInit, TypesNext, ClaimsNext, PTL DEF Spec
-----------------------------------------------------------------------------
(* The ledger and the executions                                           *)

\* The places in s of what was executed.
ExecutedIn(s) == {i \in DOMAIN s : s[i].outcome \in Executed}

\* An appended entry adds one to the count of executions if it is one.
LEMMA CountAppend ==
  ASSUME NEW s \in Seq(Entry), NEW e \in Entry
  PROVE  /\ Cardinality(ExecutedIn(s)) \in Nat
         /\ Cardinality(ExecutedIn(Append(s, e))) =
              Cardinality(ExecutedIn(s)) + (IF e.outcome \in Executed THEN 1 ELSE 0)
<1>. DEFINE n == Len(s) + 1
<1>1. /\ Len(s) \in Nat /\ DOMAIN s = 1 .. Len(s) /\ DOMAIN Append(s, e) = 1 .. n
      /\ Append(s, e)[n] = e /\ \A i \in 1 .. Len(s) : Append(s, e)[i] = s[i]
  OBVIOUS
<1>2. IsFiniteSet(1 .. Len(s)) BY <1>1, FS_Interval
<1>3. IsFiniteSet(ExecutedIn(s)) /\ Cardinality(ExecutedIn(s)) \in Nat
  BY <1>1, <1>2, FS_Subset, FS_CardinalityType DEF ExecutedIn
<1>4. n \notin ExecutedIn(s) BY <1>1 DEF ExecutedIn
<1>5. CASE e.outcome \in Executed
  <2>1. ExecutedIn(Append(s, e)) = ExecutedIn(s) \cup {n} BY <1>1, <1>5 DEF ExecutedIn
  <2>2. QED BY <1>3, <1>4, <1>5, <2>1, FS_AddElement
<1>6. CASE e.outcome \notin Executed
  <2>1. ExecutedIn(Append(s, e)) = ExecutedIn(s) BY <1>1, <1>6 DEF ExecutedIn
  <2>2. QED BY <1>3, <1>6, <2>1
<1>7. QED BY <1>5, <1>6

\* An execution that has begun and is not yet in the ledger.
Begun == pc = "running" \/ (pc = "record" /\ outcome \in Executed)

LInv ==
  pc \notin Ended => IF Begun THEN ran = ExecutionsRecorded + 1 ELSE ran = ExecutionsRecorded

\* Every execution is recorded before another begins: a run whose records fail has ended.
LEMMA LedgerNext == TInv /\ LInv /\ [Next]_vars => LInv'
<1>1. SUFFICES ASSUME TInv, LInv, [Next]_vars PROVE LInv' OBVIOUS
<1>2. TypeOK BY <1>1 DEF TInv
<1>3. ASSUME UNCHANGED <<results, earlier, ran>>, pc \notin Ended, Begun' = Begun PROVE LInv'
  BY <1>1, <1>3 DEF LInv, ExecutionsRecorded, ledger
<1>4. CASE Abandon \/ Fail \/ CancelExecution \/ AppendRun
  BY <1>4 DEF Abandon, Fail, CancelExecution, AppendRun, LInv, Ended
<1>5. CASE BeginAttempt \/ PassOn \/ RequestAbort
  BY <1>5, <1>3 DEF BeginAttempt, PassOn, RequestAbort, Begun, Ended, record, current
<1>6. ASSUME NEW a \in Actions, Skip(a) \/ Stop(a) \/ Preflight(a) PROVE LInv'
  BY <1>6, <1>3 DEF Skip, Stop, Preflight, Planned, Begun, Executed, Ended, record
<1>7. CASE BuildContext \/ evaluateCodeReview
  BY <1>7, <1>3 DEF BuildContext, evaluateCodeReview, AskCouncil, Begun, Executed, Ended, record
<1>8. CASE Decide BY <1>8, <1>3 DEF Decide, Begun, Executed, Ended, record
<1>9. CASE BeginExecution
  <2>1. pc \notin Ended /\ ~Begun BY <1>9 DEF BeginExecution, RunsAt, Begun, Ended
  <2>2. ran = ExecutionsRecorded BY <1>1, <1>2, <2>1 DEF LInv, TypeOK
  <2>3. ExecutionsRecorded' = ExecutionsRecorded
    BY <1>9 DEF BeginExecution, record, ExecutionsRecorded, ledger
  <2>4. QED BY <1>9, <2>2, <2>3 DEF BeginExecution, LInv, Begun
<1>10. CASE FinishExecution
  <2>1. outcome' \in Executed BY <1>10 DEF FinishExecution, OutcomesOf, Executed
  <2>2. QED BY <1>10, <2>1, <1>3 DEF FinishExecution, Begun, Ended, record
<1>11. CASE RecordOutcome
  <2>0. PICK e \in Entry : Records(e) BY <1>2, <1>11, Recorded
  <2>1. e \in Entry BY <2>0
  <2>2. /\ pc = "record" /\ pc' = "next" /\ results' = Append(results, e)
        /\ earlier' = earlier /\ ran' = ran
    BY <1>11, <2>0 DEF RecordOutcome, Records
  <2>3. ledger' = Append(ledger, e) /\ ledger \in Seq(Entry)
    BY <1>2, <2>1, <2>2, LedgerGrows DEF ledger, TypeOK
  <2>4. ExecutionsRecorded = Cardinality(ExecutedIn(ledger))
    BY DEF ExecutionsRecorded, ExecutedIn
  <2>5. ExecutionsRecorded' = Cardinality(ExecutedIn(Append(ledger, e)))
    BY <2>3 DEF ExecutionsRecorded, ExecutedIn
  <2>6. IF outcome \in Executed THEN ran = ExecutionsRecorded + 1 ELSE ran = ExecutionsRecorded
    BY <1>1, <2>2 DEF LInv, Begun, Ended
  <2>7. e.outcome = outcome BY <2>0 DEF Records
  <2>8. ran' = ExecutionsRecorded' BY <2>1, <2>2, <2>3, <2>4, <2>5, <2>6, <2>7, CountAppend
  <2>9. QED BY <2>2, <2>8 DEF LInv, Begun
<1>12. CASE EndPlan
  <2>1. ledger' = ledger
    BY <1>2, <1>12, ConcatProperties, ConcatEmptySeq DEF EndPlan, ledger, TypeOK
  <2>2. ~Begun /\ ~Begun' /\ pc \notin Ended /\ ran' = ran BY <1>12 DEF EndPlan, Begun, Ended
  <2>3. QED BY <1>1, <2>1, <2>2 DEF LInv, ExecutionsRecorded
<1>13. ASSUME NEW g \in Council, NEW b \in Answers,
              GovernorAnswers(g, b) \/ GovernorTimesOut(g)
       PROVE  LInv'
  BY <1>13, <1>3 DEF GovernorAnswers, GovernorTimesOut, Begun, Ended, current, record
<1>14. CASE UNCHANGED vars
  BY <1>1, <1>14 DEF vars, LInv, Begun, ExecutionsRecorded, ledger, current, record
<1>15. Answers # {} BY DEF Answers
<1>16. QED BY <1>1, <1>4, <1>5, <1>6, <1>7, <1>8, <1>9, <1>10, <1>11, <1>12, <1>13, <1>14,
        <1>15 DEF Next, Run

\* Nothing is executed while the outcome of an earlier execution of the task is missing
\* from governance memory, over all its attempts (runPlanActions awaits every record).
THEOREM RecordedInOrder == Spec => LedgerInOrder
<1>1. Init => LInv
  <2>1. SUFFICES ASSUME Init PROVE LInv OBVIOUS
  <2>2. {i \in DOMAIN ledger : ledger[i].outcome \in Executed} = {}
    BY <2>1 DEF Init, ledger
  <2>3. ExecutionsRecorded = 0 BY <2>2, FS_EmptySet DEF ExecutionsRecorded
  <2>4. QED BY <2>1, <2>3 DEF Init, LInv, Begun
<1>2. TInv /\ LInv /\ [Next]_vars => [ran' # ran => ran = ExecutionsRecorded]_vars
  <2>1. SUFFICES ASSUME TInv, LInv, Next, ran' # ran PROVE ran = ExecutionsRecorded OBVIOUS
  <2>2. BeginExecution BY <2>1, OnlyBeginExecution
  <2>3. pc \notin Ended /\ ~Begun BY <2>2 DEF BeginExecution, RunsAt, Begun, Ended
  <2>4. QED BY <2>1, <2>3 DEF LInv, TInv, TypeOK
<1>3. QED BY <1>1, <1>2, TypesInit, TypesNext, LedgerNext, PTL DEF Spec, LedgerInOrder

\* A cancelled task executes nothing more, at whatever stage the cancellation meets it
\* (throwIfAborted before each stage of an execution).
THEOREM AbortIsFinal == Spec => NoStartAfterAbort
<1>1. [Next]_vars => [aborted => ran' = ran]_vars
  <2>1. SUFFICES ASSUME Next, ran' # ran PROVE ~aborted OBVIOUS
  <2>2. QED BY <2>1, OnlyBeginExecution DEF BeginExecution, throwIfAborted
<1>2. QED BY <1>1, PTL DEF Spec, NoStartAfterAbort
-----------------------------------------------------------------------------
(* What depends on a failure                                               *)

\* A prerequisite of workspace w failed in the attempt; no process came up at port t.
PrerequisiteFailed(w) ==
  \E j \in DOMAIN results :
    /\ results[j].action.stage = "yes" /\ results[j].outcome \in Failures
    /\ results[j].action.space = w

NothingCameUp(t) ==
  \E j \in DOMAIN results : results[j].outcome = "notStarted" /\ results[j].port = t

\* While an attempt lasts, what it remembers of failures is what its results say.
Remembered ==
  pc \in Admitted \cup {"next", "record"} =>
    /\ \A w \in Spaces : w \in failedSpaces <=> PrerequisiteFailed(w)
    /\ \A t \in failedTargets : NothingCameUp(t)

\* Neither the workspace of an action that passed the checks has failed, nor is an action
\* skipped without a cause.
Checked ==
  /\ pc \in Admitted \/ (pc = "record" /\ outcome \in Executed)
       => action.space \notin failedSpaces
  /\ pc = "record" /\ outcome = "skipped"
       => \E j \in DOMAIN results : Undermines(results[j], action)

\* An attempt begins without results.
Afresh == pc = "plan" => results = <<>>

DInv == Afresh /\ Remembered /\ Checked /\ SkipsHaveCause /\ NothingRunsOnAFailure

\* What an action depends on are failures the attempt remembers.
LEMMA DependentUndermined ==
  ASSUME TInv, DInv, pc = "next", NEW a \in AllActions, Dependent(a)
  PROVE  \E j \in DOMAIN results : Undermines(results[j], a)
<1>1. /\ \A w \in Spaces : w \in failedSpaces <=> PrerequisiteFailed(w)
      /\ \A t \in failedTargets : NothingCameUp(t)
      /\ failedSpaces \subseteq Spaces
  BY DEF DInv, Remembered, TInv, TypeOK
<1>2. CASE a.space \in failedSpaces
  BY <1>1, <1>2 DEF PrerequisiteFailed, Undermines
<1>3. CASE a.space = None /\ NeedsTarget(a) /\ Cardinality(failedSpaces) = 1
  <2>1. failedSpaces # {} BY <1>3, FS_EmptySet
  <2>2. PICK w \in failedSpaces : TRUE BY <2>1
  <2>3. QED BY <1>1, <1>3, <2>2 DEF PrerequisiteFailed, Undermines
<1>4. CASE NeedsTarget(a) /\ a.target \in failedTargets
  BY <1>1, <1>4 DEF NothingCameUp, Undermines
<1>5. QED BY <1>2, <1>3, <1>4 DEF Dependent, dependsOnWorkspace

\* One more outcome keeps every earlier cause and failure in its place.
LEMMA DependsRecord ==
  ASSUME TInv, DInv, RecordOutcome
  PROVE  DInv'
<1>. DEFINE n == Len(results) + 1
<1>0. PICK e \in Entry : Records(e) BY Recorded DEF TInv
<1>1. /\ pc = "record" /\ pc' = "next" /\ results' = Append(results, e)
      /\ failedSpaces' = failedSpaces \cup
           (IF action.stage = "yes" /\ outcome \in Failures THEN {action.space} ELSE {})
      /\ \A t \in failedTargets' : t \in failedTargets \/ (outcome = "notStarted" /\ e.port = t)
  BY <1>0 DEF RecordOutcome, Records
<1>2. /\ results \in Seq(Entry) /\ e \in Entry /\ action.space \in Spaces
      /\ failedSpaces \subseteq Spaces
  BY <1>0, Fields DEF TInv, TypeOK
<1>3. /\ DOMAIN results = 1 .. Len(results) /\ Len(results) \in Nat
      /\ DOMAIN results' = 1 .. n /\ results'[n] = e
      /\ \A i \in DOMAIN results : results'[i] = results[i]
  BY <1>1, <1>2
<1>4. /\ e.action = action /\ e.outcome = outcome BY <1>0 DEF Records
<1>5. Remembered'
  <2>1. \A w \in Spaces : PrerequisiteFailed(w)' <=>
          \/ PrerequisiteFailed(w)
          \/ action.stage = "yes" /\ outcome \in Failures /\ action.space = w
    BY <1>3, <1>4 DEF PrerequisiteFailed
  <2>2. ASSUME NEW t, NothingCameUp(t) \/ (outcome = "notStarted" /\ e.port = t)
        PROVE  NothingCameUp(t)'
    BY <1>3, <1>4, <2>2 DEF NothingCameUp
  <2>3. /\ \A w \in Spaces : w \in failedSpaces <=> PrerequisiteFailed(w)
        /\ \A t \in failedTargets : NothingCameUp(t)
    BY <1>1 DEF DInv, Remembered
  <2>4. (\A w \in Spaces : w \in failedSpaces <=> PrerequisiteFailed(w))'
    BY <1>1, <2>1, <2>3
  <2>5. (\A t \in failedTargets : NothingCameUp(t))' BY <1>1, <2>2, <2>3
  <2>6. QED BY <2>4, <2>5 DEF Remembered
<1>6. Checked' BY <1>1 DEF Checked, Admitted
<1>7. SkipsHaveCause'
  <2>1. SUFFICES ASSUME NEW i \in 1 .. n, results'[i].outcome = "skipped"
                 PROVE  \E j \in 1 .. i - 1 : Undermines(results'[j], results'[i].action)
    BY <1>3 DEF SkipsHaveCause, Undermines, NeedsTarget
  <2>2. CASE i \in DOMAIN results
    BY <1>3, <2>1, <2>2 DEF DInv, SkipsHaveCause
  <2>3. CASE i = n
    <3>1. PICK j \in DOMAIN results : Undermines(results[j], action)
      BY <1>1, <1>3, <1>4, <2>1, <2>3 DEF DInv, Checked
    <3>2. j \in 1 .. i - 1 /\ results'[j] = results[j] /\ results'[i].action = action
      BY <1>3, <1>4, <2>3
    <3>3. QED BY <3>1, <3>2
  <2>4. QED BY <1>3, <2>2, <2>3
<1>8. NothingRunsOnAFailure'
  <2>1. SUFFICES ASSUME NEW i \in 1 .. n, results'[i].outcome \in Executed,
                        NEW j \in 1 .. i - 1, results'[j].action.stage = "yes",
                        results'[j].outcome \in Failures,
                        results'[j].action.space = results'[i].action.space
                 PROVE  FALSE
    BY <1>3 DEF NothingRunsOnAFailure
  <2>2. CASE i \in DOMAIN results
    BY <1>3, <2>1, <2>2 DEF DInv, NothingRunsOnAFailure
  <2>3. CASE i = n
    <3>1. j \in DOMAIN results /\ results'[j] = results[j] BY <1>3, <2>3
    <3>2. PrerequisiteFailed(action.space)
      BY <1>3, <1>4, <2>1, <2>3, <3>1 DEF PrerequisiteFailed
    <3>3. action.space \notin failedSpaces
      BY <1>1, <1>3, <1>4, <2>1, <2>3 DEF DInv, Checked
    <3>4. QED BY <1>1, <1>2, <3>2, <3>3 DEF DInv, Remembered
  <2>4. QED BY <1>3, <2>2, <2>3
<1>9. QED BY <1>1, <1>5, <1>6, <1>7, <1>8 DEF DInv, Afresh

\* Between two outcomes nothing happens to what the attempt remembers.
LEMMA DependsNext == TInv /\ DInv /\ [Next]_vars => DInv'
<1>1. SUFFICES ASSUME TInv, DInv, [Next]_vars PROVE DInv' OBVIOUS
<1>2. TypeOK BY <1>1 DEF TInv
<1>a. results' = results => SkipsHaveCause' /\ NothingRunsOnAFailure'
  BY <1>1 DEF DInv, SkipsHaveCause, NothingRunsOnAFailure
<1>b. ASSUME UNCHANGED <<results, failedSpaces, failedTargets>>,
             pc \in Admitted \cup {"next", "record"}
      PROVE  Remembered'
  BY <1>1, <1>b DEF DInv, Remembered, PrerequisiteFailed, NothingCameUp
<1>3. ASSUME UNCHANGED <<results, failedSpaces, failedTargets, action>>,
             pc \in Admitted, pc' \in Admitted \/ (pc' = "record" /\ outcome' # "skipped")
      PROVE  DInv'
  BY <1>1, <1>3, <1>a, <1>b DEF DInv, Afresh, Checked, Admitted
<1>4. ASSUME UNCHANGED results, pc' \in Ended \cup {"append"} PROVE DInv'
  BY <1>4, <1>a DEF DInv, Afresh, Remembered, Checked, Admitted, Ended
<1>5. CASE Abandon \/ Fail \/ CancelExecution \/ AppendRun
  BY <1>5, <1>4 DEF Abandon, Fail, CancelExecution, AppendRun, Ended, record
<1>6. CASE BeginAttempt
  <2>1. results = <<>> BY <1>1, <1>6 DEF BeginAttempt, DInv, Afresh
  <2>2. QED BY <1>6, <1>a, <2>1
         DEF BeginAttempt, DInv, Afresh, Remembered, Checked, PrerequisiteFailed, Admitted, record
<1>7. ASSUME NEW a \in Actions, Skip(a) PROVE DInv'
  <2>1. Dependent(applyOverrides(a)) /\ applyOverrides(a) \in AllActions /\ pc = "next"
    BY <1>2, <1>7, Overrides DEF Skip, Planned, TypeOK
  <2>2. \E j \in DOMAIN results : Undermines(results[j], applyOverrides(a))
    BY <1>1, <2>1, DependentUndermined
  <2>3. /\ UNCHANGED <<results, failedSpaces, failedTargets>> /\ action' = applyOverrides(a)
        /\ pc' = "record" /\ outcome' = "skipped"
    BY <1>7 DEF Skip, InHand, record, depends
  <2>4. Remembered' BY <2>1, <2>3, <1>b
  <2>5. \E j \in DOMAIN results' : Undermines(results'[j], action') BY <2>2, <2>3
  <2>6. Checked' BY <2>3, <2>5 DEF Checked, Admitted, Executed, Undermines, NeedsTarget
  <2>7. QED BY <2>3, <2>4, <2>6, <1>a DEF DInv, Afresh
<1>8. ASSUME NEW a \in Actions, Stop(a) \/ Preflight(a) PROVE DInv'
  <2>1. /\ UNCHANGED <<results, failedSpaces, failedTargets>> /\ pc = "next"
        /\ (pc' = "record" /\ outcome' \in {"stopped", "denied"}) \/ pc' = "memory"
    BY <1>8 DEF Stop, Preflight, Planned, record, depends
  <2>2. pc' = "memory" =>
          /\ action' = applyOverrides(a) /\ applyOverrides(a).space \notin failedSpaces
    BY <1>8 DEF Stop, Preflight, InHand, Dependent, dependsOnWorkspace
  <2>3. Checked' BY <2>1, <2>2 DEF Checked, Admitted, Executed
  <2>4. QED BY <2>1, <2>3, <1>a, <1>b DEF DInv, Afresh
<1>9. CASE BuildContext \/ evaluateCodeReview
  BY <1>9, <1>3 DEF BuildContext, evaluateCodeReview, AskCouncil, Admitted, record, depends
<1>10. CASE Decide BY <1>10, <1>3 DEF Decide, Admitted, record, depends
<1>11. CASE PassOn \/ BeginExecution
  BY <1>11, <1>3 DEF PassOn, BeginExecution, RunsAt, Admitted, current, record, depends
<1>12. CASE FinishExecution
  <2>1. outcome' \in Executed BY <1>12 DEF FinishExecution, OutcomesOf, Executed
  <2>2. QED BY <1>12, <2>1, <1>3 DEF FinishExecution, Admitted, Executed, record, depends
<1>13. CASE RecordOutcome BY <1>1, <1>13, DependsRecord
<1>14. CASE EndPlan
  BY <1>14 DEF EndPlan, DInv, Afresh, Remembered, Checked, SkipsHaveCause, NothingRunsOnAFailure,
     Admitted
<1>15. CASE RequestAbort \/ UNCHANGED vars
  BY <1>1, <1>15 DEF RequestAbort, vars, current, record, depends, DInv, Afresh, Remembered,
     Checked, SkipsHaveCause, NothingRunsOnAFailure, PrerequisiteFailed, NothingCameUp, Undermines,
     NeedsTarget
<1>16. ASSUME NEW g \in Council, NEW b \in Answers,
              GovernorAnswers(g, b) \/ GovernorTimesOut(g)
       PROVE  DInv'
  BY <1>16, <1>3 DEF GovernorAnswers, GovernorTimesOut, Admitted, current, record, depends
<1>17. Answers # {} BY DEF Answers
<1>18. QED BY <1>1, <1>5, <1>6, <1>7, <1>8, <1>9, <1>10, <1>11, <1>12, <1>13, <1>14, <1>15,
        <1>16, <1>17 DEF Next, Run

\* What failed in an attempt is known for all of it, and forgotten with it.
THEOREM Dependencies == Spec => []DInv
<1>1. Init => DInv
  BY DEF Init, DInv, Afresh, Remembered, Checked, SkipsHaveCause, NothingRunsOnAFailure,
     Admitted
<1>2. QED BY <1>1, TypesInit, TypesNext, DependsNext, PTL DEF Spec

\* An action is skipped only for a failure before it in its own attempt, of its workspace
\* or of the start of a process on the port it probes (evaluateDependentWorkspaceExecutionBlock,
\* evaluateDependentLiveRunTargetBlock).
THEOREM SkippedForACause == Spec => []SkipsHaveCause
<1>1. DInv => SkipsHaveCause BY DEF DInv
<1>2. QED BY <1>1, Dependencies, PTL

\* After a failed install, build or proof of a workspace nothing is executed in it before
\* the next attempt (rememberFailedWorkspaceExecutionDependency).
THEOREM FailedWorkspaceRests == Spec => []NothingRunsOnAFailure
<1>1. DInv => NothingRunsOnAFailure BY DEF DInv
<1>2. QED BY <1>1, Dependencies, PTL
-----------------------------------------------------------------------------
(* The output of an attempt                                                *)

BytesIn(s) == SumFunction([i \in DOMAIN s |-> s[i].size])

\* No entries have no output.
LEMMA NoBytes == BytesIn(<<>>) = 0
<1>. DEFINE f == [i \in DOMAIN <<>> |-> <<>>[i].size]
<1>1. f \in [{} -> Nat] /\ BytesIn(<<>>) = SumFunction(f) BY DEF BytesIn
<1>. HIDE DEF f
<1>2. QED BY <1>1, SumOfNone

\* An appended entry adds its own size.
LEMMA BytesAppend ==
  ASSUME NEW s \in Seq(Entry), NEW e \in Entry
  PROVE  BytesIn(s) \in Nat /\ BytesIn(Append(s, e)) = BytesIn(s) + e.size
<1>. DEFINE n == Len(s)
            f == [i \in DOMAIN s |-> s[i].size]
            h == [i \in DOMAIN Append(s, e) |-> Append(s, e)[i].size]
<1>1. /\ n \in Nat /\ DOMAIN s = 1 .. n /\ DOMAIN Append(s, e) = 1 .. n + 1
      /\ Append(s, e)[n + 1] = e /\ \A i \in 1 .. n : Append(s, e)[i] = s[i]
  OBVIOUS
<1>2. e.size \in Nat /\ \A i \in 1 .. n : s[i].size \in Nat
  <2>1. \A d \in Entry : d.size \in Nat BY DEF Entry
  <2>2. \A i \in 1 .. n : s[i] \in Entry OBVIOUS
  <2>3. QED BY <2>1, <2>2
<1>3. f \in [1 .. n -> Nat] BY <1>1, <1>2
<1>4. h \in [1 .. n + 1 -> Nat]
  <2>1. ASSUME NEW i \in 1 .. n + 1 PROVE Append(s, e)[i].size \in Nat
    <3>1. i = n + 1 \/ i \in 1 .. n BY <1>1
    <3>2. QED BY <1>1, <1>2, <3>1
  <2>2. QED BY <1>1, <2>1
<1>5. h[n + 1] = e.size /\ \A i \in 1 .. n : h[i] = f[i] BY <1>1
<1>6. BytesIn(s) = SumFunction(f) /\ BytesIn(Append(s, e)) = SumFunction(h) BY DEF BytesIn
<1>. HIDE DEF f, h, n
<1>7. QED BY <1>1, <1>3, <1>4, <1>5, <1>6, SumOfOneMore

Within(n) == \E largest \in OutputSizes : n < MaxBytes + largest

\* The limit leaves room for an output before anything is observed.
LEMMA NothingFits == Within(0)
<1>1. /\ MaxBytes \in Nat \ {0} /\ OutputSizes \subseteq Nat /\ OutputSizes # {}
  BY RunnerType DEF RunnerType
<1>2. PICK largest \in OutputSizes : TRUE BY <1>1
<1>3. largest \in Nat /\ 0 < MaxBytes + largest BY <1>1
<1>4. QED BY <1>3 DEF Within

\* The output in hand is none, or was begun within the limit.
InBounds ==
  \/ size = 0
  \/ size \in OutputSizes /\ bytesObserved < MaxBytes

OInv ==
  /\ Within(bytesObserved)
  /\ pc \in Admitted => size = 0 /\ bytesObserved < MaxBytes
  /\ pc = "record" => InBounds

\* Only what is already in hand comes on top of what was observed before the action.
LEMMA OutputNext == TInv /\ OInv /\ [Next]_vars => OInv'
<1>1. SUFFICES ASSUME TInv, OInv, [Next]_vars PROVE OInv' OBVIOUS
<1>2. /\ TypeOK /\ results \in Seq(Entry) /\ size \in Nat /\ bytesObserved = BytesIn(results)
      /\ MaxBytes \in Nat \ {0} /\ OutputSizes \subseteq Nat /\ OutputSizes # {}
  BY <1>1, RunnerType DEF TInv, TypeOK, RunnerType, bytesObserved, BytesIn
<1>3. ASSUME results' = results PROVE bytesObserved' = bytesObserved
  BY <1>3 DEF bytesObserved
<1>4. ASSUME results' = results, pc' \notin Admitted \cup {"record"} PROVE OInv'
  BY <1>1, <1>3, <1>4 DEF OInv
<1>5. ASSUME results' = results, size' = 0, pc' \notin Admitted PROVE OInv'
  BY <1>1, <1>3, <1>5 DEF OInv, InBounds
<1>6. ASSUME results' = results, size' = size, pc \in Admitted PROVE OInv'
  BY <1>1, <1>3, <1>6 DEF OInv, InBounds
<1>7. CASE Abandon \/ BeginAttempt \/ Fail \/ CancelExecution \/ AppendRun
  BY <1>7, <1>4 DEF Abandon, BeginAttempt, Fail, CancelExecution, AppendRun, Admitted, record
<1>8. ASSUME NEW a \in Actions, Skip(a) \/ Stop(a) PROVE OInv'
  BY <1>8, <1>5 DEF Skip, Stop, InHand, Admitted, record
<1>9. ASSUME NEW a \in Actions, Preflight(a) PROVE OInv'
  <2>1. results' = results /\ size' = 0 BY <1>9 DEF Preflight, InHand, record
  <2>2. bytesObserved < MaxBytes
    <3>1. bytesObserved \in Nat BY <1>2, NewEntry, Fields, BytesAppend DEF TypeOK
    <3>2. ~(bytesObserved >= MaxBytes) BY <1>9 DEF Preflight, Stopped, shouldStop
    <3>3. QED BY <1>2, <3>1, <3>2
  <2>3. QED BY <1>1, <1>3, <2>1, <2>2 DEF OInv, InBounds
<1>10. CASE BuildContext BY <1>10, <1>6 DEF BuildContext, Admitted, record
<1>11. CASE evaluateCodeReview BY <1>11, <1>6 DEF evaluateCodeReview, Admitted, record
<1>12. CASE Decide BY <1>12, <1>6 DEF Decide, Admitted, record
<1>13. CASE PassOn BY <1>13, <1>6 DEF PassOn, Admitted, current, record
<1>14. CASE BeginExecution
  BY <1>14, <1>6 DEF BeginExecution, RunsAt, Admitted, current, record
<1>15. CASE FinishExecution
  <2>1. results' = results /\ size' \in OutputSizes /\ pc = "running" /\ pc' = "record"
    BY <1>15 DEF FinishExecution, record
  <2>2. QED BY <1>1, <1>3, <2>1 DEF OInv, InBounds, Admitted
<1>16. CASE RecordOutcome
  <2>0. PICK e \in Entry : Records(e) BY <1>2, <1>16, Recorded
  <2>1. e \in Entry /\ e.size = size BY <2>0 DEF Records
  <2>2. pc = "record" /\ pc' = "next" /\ results' = Append(results, e)
    BY <1>16, <2>0 DEF RecordOutcome, Records
  <2>3. bytesObserved' = bytesObserved + size /\ bytesObserved \in Nat
    <3>1. bytesObserved' = BytesIn(Append(results, e)) BY <2>2 DEF bytesObserved, BytesIn
    <3>2. QED BY <1>2, <2>1, <3>1, BytesAppend
  <2>4. Within(bytesObserved')
    <3>1. CASE size = 0 BY <1>1, <2>3, <3>1 DEF OInv
    <3>2. CASE size \in OutputSizes /\ bytesObserved < MaxBytes
      BY <1>2, <2>3, <3>2 DEF Within
    <3>3. QED BY <1>1, <2>2, <3>1, <3>2 DEF OInv, InBounds
  <2>5. QED BY <2>2, <2>4 DEF OInv, Admitted
<1>17. CASE EndPlan
  <2>1. results' = <<>> /\ pc' \notin Admitted \cup {"record"} BY <1>17 DEF EndPlan, Admitted
  <2>2. bytesObserved' = 0 BY <2>1, NoBytes DEF bytesObserved, BytesIn
  <2>3. Within(0) BY NothingFits
  <2>4. QED BY <2>1, <2>2, <2>3 DEF OInv
<1>18. ASSUME UNCHANGED <<results, size, pc>> PROVE OInv'
  BY <1>1, <1>3, <1>18 DEF OInv, InBounds
<1>19. CASE RequestAbort BY <1>19, <1>18 DEF RequestAbort, current, record
<1>20. ASSUME NEW g \in Council, NEW b \in Answers,
              GovernorAnswers(g, b) \/ GovernorTimesOut(g)
       PROVE  OInv'
  BY <1>20, <1>18 DEF GovernorAnswers, GovernorTimesOut, current, record
<1>21. CASE UNCHANGED vars BY <1>21, <1>18 DEF vars, current, record
<1>22. Answers # {} BY DEF Answers
<1>23. QED BY <1>1, <1>7, <1>8, <1>9, <1>10, <1>11, <1>12, <1>13, <1>14, <1>15, <1>16, <1>17,
        <1>19, <1>20, <1>21, <1>22 DEF Next, Run

\* The output of an attempt passes its limit by that of one action at most: an action is
\* begun only below the limit (evaluateMissionStopDecision before each action).
THEOREM OutputWithinLimit == Spec => []OutputBounded
<1>1. Init => OInv
  <2>1. SUFFICES ASSUME Init PROVE OInv OBVIOUS
  <2>2. bytesObserved = 0 BY <2>1, NoBytes DEF Init, bytesObserved, BytesIn
  <2>3. Within(0) BY NothingFits
  <2>4. 0 < MaxBytes BY RunnerType DEF RunnerType
  <2>5. QED BY <2>1, <2>2, <2>3, <2>4 DEF Init, OInv, Admitted
<1>2. OInv => OutputBounded BY DEF OInv, Within, OutputBounded
<1>3. QED BY <1>1, <1>2, TypesInit, TypesNext, OutputNext, PTL DEF Spec
=============================================================================
