------------------------- MODULE FederatedDelegation -------------------------
(***************************************************************************)
(* Delegating a task over HTTP: the calls that maybeRunOutboundFederated-  *)
(* Task makes through FederatedHttpClient, and the server they reach.  The *)
(* caller may hear nothing, late, or from a server that has restarted.     *)
(***************************************************************************)
EXTENDS FederatedServer

VARIABLES
  call,  \* how far the caller of each task is, or what it was left with
  net    \* what is on the connection it delegates over

vars == <<svars, call, net>>

Accepted == {"awaiting", "completed", "failed"}
Local    == {"turnedAway", "gaveUp"}    \* ends of a call; the caller runs the task itself
Ends     == Local \cup {"completed", "failed"}
Calls    == {"idle", "delegating"} \cup Accepted \cup Local
\* The body is being read; orphan: for a caller that has hung up.
Open     == {"reading", "orphan"}
Traffic  == {"none", "request", "accepted", "rejected"} \cup Open

TypeOK == ServerTypeOK /\ call \in [Tasks -> Calls] /\ net \in [Tasks -> Traffic]

Init ==
  /\ ServerInit
  /\ call = [t \in Tasks |-> "idle"] /\ net = [t \in Tasks |-> "none"]

Serving == srv \in {"up", "closing"}

\* One call goes from a state to the next, and its connection carries n.
Becomes(t, from, to, n) ==
  /\ call[t] = from
  /\ call' = [call EXCEPT ![t] = to] /\ net' = [net EXCEPT ![t] = n]
  /\ UNCHANGED svars
-----------------------------------------------------------------------------
(* The caller.                                                             *)

delegate(t) == Becomes(t, "idle", "delegating", "request")

\* The task was accepted and its id is known, or the caller goes on alone.
Delegated(t) ==
  \/ net[t] = "accepted" /\ Becomes(t, "delegating", "awaiting", "none")
  \/ net[t] = "rejected" /\ Becomes(t, "delegating", "turnedAway", "none")

\* The connection is refused or reset, or the timer of the request aborts it.  The
\* server may be left with a body it has read to the end.
DelegateFails(t) ==
  Becomes(t, "delegating", "gaveUp", IF net[t] = "reading" THEN "orphan" ELSE "none")

\* Mutant: what is no longer pending is taken for completed.
NotPendingIsDone(t) ==
  IF Serving /\ results[t] = "pending" THEN Becomes(t, "awaiting", "awaiting", "none")
  ELSE IF Serving /\ results[t] \in Terminal THEN Becomes(t, "awaiting", "completed", "none")
  ELSE Becomes(t, "awaiting", "failed", "none")

\* One poll of the loop, at the moment the server reads its table for it
\* (handleResultPoll).  An answer that is not pending ends the wait, and so do an
\* entry that is not there and a server that does not answer.
pollResult(t) ==
  IF Serving /\ results[t] # "none" THEN
    Becomes(t, "awaiting", IF results[t] = "pending" THEN "awaiting" ELSE results[t], "none")
  ELSE Becomes(t, "awaiting", "failed", "none")

\* Mutant: the loop has no deadline.
NoDeadline(t) == FALSE /\ Becomes(t, "awaiting", "failed", "none")

\* A poll or its answer is lost, or the deadline has passed when the loop looks at it.
awaitResult(t) == Becomes(t, "awaiting", "failed", "none")

CallerStep(t) ==
  \/ delegate(t) \/ Delegated(t) \/ DelegateFails(t)
  \/ pollResult(t) \/ awaitResult(t)
-----------------------------------------------------------------------------
(* The server's side of a connection.  One kept alive carries requests     *)
(* until the server has closed it.                                         *)

Carries(t, n) == net' = [net EXCEPT ![t] = n] /\ UNCHANGED call

\* readBody begins.
TakeRequest(t) ==
  Serving /\ net[t] = "request" /\ Carries(t, "reading") /\ UNCHANGED svars

\* What reaches the caller, if it still listens.
Reply(t, r) == Carries(t, IF net[t] = "reading" THEN r ELSE "none")

\* Mutant: the caller of an accepted task is answered as if it was not.
AcceptAnd403(t) ==
  /\ Serving /\ net[t] \in Open
  /\ AcceptTask(t) /\ Reply(t, "rejected")
  /\ UNCHANGED <<srv, disk, faults>>

\* handleDelegate and the gateway: the task is accepted ...
Accept(t) ==
  /\ Serving /\ net[t] \in Open
  /\ AcceptTask(t) /\ Reply(t, "accepted")
  /\ UNCHANGED <<srv, disk, faults>>

\* Mutant: a body too large is answered with something the caller does not know.
RejectAs413(t) ==
  Serving /\ net[t] \in Open /\ Reply(t, "tooLarge") /\ UNCHANGED svars

\* ... or the body, the credentials, the contract or the quote turn it away.
Reject(t) ==
  Serving /\ net[t] \in Open /\ Reply(t, "rejected") /\ UNCHANGED svars

\* server.close() calls back once no connection has a request under way.
Closed ==
  /\ srv = "closing" /\ \A t \in Tasks : net[t] \notin Open
  /\ srv' = "draining"
  /\ UNCHANGED <<table, disk, run, faults, call, net>>

\* A kill resets every connection.
Killed == Die /\ net' = [t \in Tasks |-> "none"] /\ UNCHANGED call

ServerTask(t) ==
  TakeRequest(t) \/ Accept(t) \/ Reject(t)
-----------------------------------------------------------------------------
Next ==
  \/ ServerStep /\ UNCHANGED <<call, net>>
  \/ Closed \/ Killed
  \/ \E t \in Tasks : CallerStep(t) \/ ServerTask(t)

\* A server that is stopping and a run that goes on come to an end; the request has its
\* timer and the wait its deadline.
Fairness ==
  /\ WF_vars(Closed)
  /\ WF_vars((waitForAcceptedTasksToSettle \/ Stopped) /\ UNCHANGED <<call, net>>)
  /\ WF_vars((PersistWrites \/ \E ok \in BOOLEAN : PersistEnds(ok)) /\ UNCHANGED <<call, net>>)
  /\ \A t \in Tasks :
       /\ WF_vars(\E ok \in BOOLEAN : TaskEnds(t, ok) /\ UNCHANGED <<call, net>>)
       /\ WF_vars(Accept(t) \/ Reject(t))
       /\ WF_vars(DelegateFails(t))
       /\ WF_vars(awaitResult(t))

Spec     == Init /\ [][Next]_vars
FairSpec == Spec /\ Fairness
-----------------------------------------------------------------------------
(* Properties.                                                             *)

\* A change of the table reaches the file although writes are coalesced: when none is
\* under way and the last one did not fail, the file holds the table.
CoalescedWrites == srv # "down" /\ persist = "idle" /\ ~failed => file = results

\* An entry of the table says what became of its task: failed also of one that
\* completed under a server being stopped, never of another.  As long as nothing was
\* killed and no write failed, stops and starts included, a pending one still runs;
\* no poll would ever find the others ended.
EntriesAreTrue ==
  \A t \in Tasks :
    /\ results[t] = "completed" => run[t] = "ok"
    /\ results[t] = "failed" => run[t] \in {"threw", "dropped"}
    /\ faults = 0 /\ results[t] = "pending" => run[t] = "running"

\* The caller's decision to run a task itself because it was turned away, or to wait
\* for it, agrees with the server: the one never runs there, the other has.
HeardIsSo ==
  \A t \in Tasks :
    /\ call[t] = "turnedAway" => run[t] = "no"
    /\ call[t] \in Accepted => run[t] # "no"

Call == INSTANCE DelegatedCall WITH
  run    <- [t \in Tasks |-> IF run[t] = "dropped" THEN "ok" ELSE run[t]],
  answer <- [t \in Tasks |-> IF call[t] \in Local THEN "local"
                             ELSE IF call[t] \in Ends THEN call[t] ELSE "none"]

\* The caller is told that a task completed only when its one run did, whatever the
\* server forgot, wrote late, evicted or read back from its file.
RefinesDelegatedCall == Call!Spec

\* A server told to stop stops or is killed, also while tasks run and callers hang up.
StopEnds == srv = "closing" ~> srv = "down"

\* Every delegation ends, also one whose entry stays pending after a restart.
CallEnds == \A t \in Tasks : call[t] = "delegating" ~> call[t] \in Ends
=============================================================================
