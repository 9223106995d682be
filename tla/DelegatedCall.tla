---------------------------- MODULE DelegatedCall ----------------------------
(***************************************************************************)
(* What delegating tasks to another agent promises: the agent runs a task  *)
(* at most once, and the caller, who gets one answer, is told that it      *)
(* completed only when that run completed.                                 *)
(***************************************************************************)
CONSTANT Tasks

VARIABLES
  run,     \* the other agent's run of each task
  answer   \* what the caller has made of it

RunStates == {"no", "running", "ok", "threw", "killed"}
Answers   == {"none", "completed", "failed", "local"}

Init == run = [t \in Tasks |-> "no"] /\ answer = [t \in Tasks |-> "none"]

\* The agent accepts the task, which is not to say that the caller hears of it.
Begin(t) == run[t] = "no" /\ run' = [run EXCEPT ![t] = "running"] /\ UNCHANGED answer

End(t, r) ==
  /\ run[t] = "running" /\ r \in {"ok", "threw"}
  /\ run' = [run EXCEPT ![t] = r] /\ UNCHANGED answer

\* The agent's process dies and takes its runs with it.
Die ==
  /\ run' = [t \in Tasks |-> IF run[t] = "running" THEN "killed" ELSE run[t]]
  /\ UNCHANGED answer

\* A caller may give up at any time, and run the task itself if it gives up early.
Give(t, a) ==
  /\ answer[t] = "none" /\ a \in Answers \ {"none"}
  /\ a = "completed" => run[t] = "ok"
  /\ answer' = [answer EXCEPT ![t] = a] /\ UNCHANGED run

Next ==
  \/ Die
  \/ \E t \in Tasks :
       \/ Begin(t)
       \/ \E r \in {"ok", "threw"} : End(t, r)
       \/ \E a \in Answers : Give(t, a)

Spec == Init /\ [][Next]_<<run, answer>>
=============================================================================
