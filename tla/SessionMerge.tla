---------------------------- MODULE SessionMerge ----------------------------
(***************************************************************************)
(* A conversation session as the worker queue sees it, and the merge the   *)
(* JSON session store applies when it writes one: what sessionMerging.ts   *)
(* does to queuedJobs, recentJobs and runningJobId.                        *)
(*                                                                         *)
(* Jobs are numbered in the order of their createdAt.  Of a job's record   *)
(* we keep the status, with "recovered" for a failed job that carries the  *)
(* recoveryTrace of stale-session recovery, and the final delivery.  The   *)
(* result summary is set exactly when the status is "completed".           *)
(***************************************************************************)
EXTENDS FiniteSets, Naturals, Sequences

CONSTANT NumJobs
ASSUME NumJobsType == NumJobs \in Nat

Jobs  == 1..NumJobs
NoJob == 0

Terminal   == {"completed", "failed", "recovered"}
Statuses   == {"absent", "running"} \cup Terminal
Deliveries == {"none", "sent", "failed"}
Record     == [status : Statuses, delivery : Deliveries]

\* recent[j] is absent while job j is queued, or not yet created.
Absent == [status |-> "absent", delivery |-> "none"]

Session == [queue : Seq(Jobs), running : Jobs \cup {NoJob}, recent : [Jobs -> Record]]

EmptySession == [queue |-> <<>>, running |-> NoJob, recent |-> [j \in Jobs |-> Absent]]

Present(s, j)  == s.recent[j].status # "absent"
Elements(q)    == {q[i] : i \in DOMAIN q}
Known(s)       == Elements(s.queue) \cup {j \in Jobs : Present(s, j)}
-----------------------------------------------------------------------------
\* Which of two records of one job survives: a test that only one of them passes
\* decides, in the order of the code's tests; without one the incoming record.
IsTerminal(r)  == r.status \in Terminal
IsAttempted(r) == r.delivery # "none"
HasResult(r)   == r.status = "completed"
HasTrace(r)    == r.status = "recovered"

\* Mutants: the incoming record wins; a delivery made does not count.
TakeIncoming(e, i) == i
IgnoreDelivery(e, i) ==
  IF IsTerminal(e) # IsTerminal(i)    THEN IF IsTerminal(e) THEN e ELSE i
  ELSE IF HasResult(e) # HasResult(i) THEN IF HasResult(e) THEN e ELSE i
  ELSE i

choosePreferredConversationJob(e, i) ==
  IF IsTerminal(e) # IsTerminal(i)        THEN IF IsTerminal(e) THEN e ELSE i
  ELSE IF IsAttempted(e) # IsAttempted(i) THEN IF IsAttempted(e) THEN e ELSE i
  ELSE IF HasResult(e) # HasResult(i)     THEN IF HasResult(e) THEN e ELSE i
  ELSE IF HasTrace(e) # HasTrace(i)       THEN IF HasTrace(e) THEN e ELSE i
  ELSE i

\* Mutant: the incoming records replace the existing ones.
IncomingRecords(e, i) == i

\* A record that only one side has is kept.
mergeRecentJobs(e, i) ==
  [j \in Jobs |-> IF i[j].status = "absent" THEN e[j]
                  ELSE IF e[j].status = "absent" THEN i[j]
                  ELSE choosePreferredConversationJob(e[j], i[j])]

\* mergeConversationJobs sorts by createdAt, the newest job first.
NewestFirst(S) ==
  CHOOSE q \in [1..Cardinality(S) -> S] : \A a, b \in DOMAIN q : a < b => q[a] > q[b]

\* Mutant: only the incoming queue counts.
IncomingQueue(e, i, recent) == NewestFirst({j \in Elements(i) : recent[j].status = "absent"})

mergeQueuedJobs(e, i, recent) ==
  NewestFirst({j \in Elements(e) \cup Elements(i) : recent[j].status = "absent"})

\* Mutant: the incoming id is not checked against the job's status.
IncomingRunning(e, i, queue, recent) == IF i # NoJob THEN i ELSE e

selectRunningJobId(e, i, queue, recent) ==
  LET runnable == {j \in Jobs : j \in Elements(queue) \/ recent[j].status = "running"}
  IN  IF i \in runnable THEN i ELSE IF e \in runnable THEN e ELSE NoJob

mergeConversationSession(e, i) ==
  LET recent == mergeRecentJobs(e.recent, i.recent)
      queue  == mergeQueuedJobs(e.queue, i.queue, recent)
  IN  [queue |-> queue,
       running |-> selectRunningJobId(e.running, i.running, queue, recent),
       recent |-> recent]
=============================================================================
