----------------------- MODULE ConversationQueue_proofs -----------------------
(***************************************************************************)
(* Proofs about one conversation, for any number and mix of requests: what *)
(* the operations on a session keep, what the store's operations keep, the *)
(* types over either store, and the safety of the JSON store, whatever old *)
(* copies of the session are written back and however often the process    *)
(* dies.                                                                   *)
(***************************************************************************)
EXTENDS ConversationQueue, SessionMerge_proofs
-----------------------------------------------------------------------------
\* The operations on a session.

\* Younger keeps the elements above the bound, each once if the queue has it once.
LEMMA YoungerKeeps ==
  ASSUME NEW q \in Seq(Jobs), NEW stale \in Jobs
  PROVE  /\ Younger(q, stale) \in Seq(Jobs)
         /\ Elements(Younger(q, stale)) = {j \in Elements(q) : j > stale}
         /\ (\A a, b \in DOMAIN q : q[a] = q[b] => a = b) =>
              \A a, b \in DOMAIN Younger(q, stale) :
                Younger(q, stale)[a] = Younger(q, stale)[b] => a = b
<1> DEFINE kept == {n \in DOMAIN q : q[n] > stale}
           n == Cardinality(kept)
           at == CHOOSE p \in Lists(kept) : Ascending(p)
           t == [i \in 1 .. n |-> q[at[i]]]
<1>1. kept \in SUBSET Nat /\ IsFiniteSet(kept) /\ n \in Nat
  <2>1. Len(q) \in Nat /\ DOMAIN q = 1 .. Len(q)
    OBVIOUS
  <2>2. IsFiniteSet(DOMAIN q)
    BY <2>1, FS_Interval
  <2> QED BY <2>1, <2>2, FS_Subset, FS_CardinalityType
<1>2. at \in Lists(kept) /\ Ascending(at)
  <2> HIDE DEF kept
  <2> QED BY <1>1, ListedUp
<1>3. Younger(q, stale) = t
  BY DEF Younger, Lists, Ascending
<1>4. /\ Elements(at) = kept
      /\ DOMAIN at = 1 .. n
      /\ \A a, b \in 1 .. n : at[a] = at[b] => a = b
  <2> HIDE DEF kept, at
  <2> QED BY <1>1, <1>2, ListsAll DEF Lists
<1>5. \A a \in 1 .. n : at[a] \in DOMAIN q /\ q[at[a]] > stale /\ q[at[a]] \in Jobs
  <2>1. \A a \in 1 .. n : at[a] \in kept
    <3> HIDE DEF kept, at
    <3> QED BY <1>4 DEF Elements
  <2> HIDE DEF at
  <2> QED BY <2>1
<1> HIDE DEF at
<1>6. t \in Seq(Jobs)
  BY <1>1, <1>5
<1>7. Elements(t) = {j \in Elements(q) : j > stale}
  <2>1. \A i \in kept : \E a \in 1 .. n : at[a] = i
    BY <1>4 DEF Elements
  <2>2. \A x : x \in Elements(t) => x \in Elements(q) /\ x > stale
    BY <1>5 DEF Elements
  <2>3. ASSUME NEW i \in DOMAIN q, q[i] > stale PROVE q[i] \in Elements(t)
    <3>1. PICK a \in 1 .. n : at[a] = i
      BY <2>1, <2>3
    <3>2. t[a] = q[i] /\ a \in DOMAIN t
      BY <3>1
    <3> HIDE DEF t
    <3> QED BY <3>2 DEF Elements
  <2> HIDE DEF t
  <2> QED BY <2>2, <2>3 DEF Elements
<1>8. ASSUME \A a, b \in DOMAIN q : q[a] = q[b] => a = b
      PROVE  \A a, b \in DOMAIN t : t[a] = t[b] => a = b
  BY <1>4, <1>5, <1>8
<1> HIDE DEF t, n, kept
<1> QED BY <1>3, <1>6, <1>7, <1>8

\* t knows the jobs that s knows, and none with a record or an end has lost it.
Keeps(s, t) ==
  /\ Known(s) \subseteq Known(t)
  /\ \A j \in Jobs : /\ Present(s, j) => Present(t, j)
                     /\ IsTerminal(s.recent[j]) => IsTerminal(t.recent[j])

\* t knows no other job than s, and none runs only in t.
NothingNew(s, t) ==
  /\ Known(t) \subseteq Known(s)
  /\ \A j \in Jobs : t.recent[j].status = "running" => s.recent[j].status = "running"

\* A job the session does not know can be queued.
LEMMA Enqueuing ==
  ASSUME NEW s \in Session, NEW r \in Jobs
  PROVE  LET t == enqueueConversationJob(s, r)
         IN  /\ t \in Session
             /\ t.recent = s.recent
             /\ Known(t) = Known(s) \cup {r}
             /\ Sound(s) /\ r \notin Known(s) => Sound(t)
<1> DEFINE t == enqueueConversationJob(s, r)
<1>1. /\ s.queue \in Seq(Jobs) /\ s.running \in Jobs \cup {NoJob} /\ s.recent \in [Jobs -> Record]
      /\ t = [queue |-> Append(s.queue, r), running |-> s.running, recent |-> s.recent]
  BY DEF Session, enqueueConversationJob
<1> DEFINE p == Append(s.queue, r)
<1>2. /\ p \in Seq(Jobs)
      /\ DOMAIN p = 1 .. Len(s.queue) + 1
      /\ DOMAIN s.queue = 1 .. Len(s.queue) /\ Len(s.queue) \in Nat
      /\ \A i \in 1 .. Len(s.queue) : p[i] = s.queue[i]
      /\ p[Len(s.queue) + 1] = r
  BY <1>1
<1>3. t.queue = p /\ t.running = s.running /\ t.recent = s.recent
  BY <1>1
<1> HIDE DEF p, t
<1>4. Elements(p) = Elements(s.queue) \cup {r}
  <2>1. \A i \in 1 .. Len(s.queue) + 1 : i \in 1 .. Len(s.queue) \/ i = Len(s.queue) + 1
    BY <1>2
  <2> QED BY <1>2, <2>1 DEF Elements
<1>5. Known(t) = Known(s) \cup {r}
  BY <1>3, <1>4 DEF Known, Present
<1>6. t \in Session
  BY <1>1, <1>2, <1>3 DEF Session, t, p
<1>7. ASSUME Sound(s), r \notin Known(s) PROVE Sound(t)
  <2>1. r \notin Elements(s.queue) /\ ~Present(s, r)
    BY <1>7 DEF Known
  <2>2. \A a \in 1 .. Len(s.queue) : s.queue[a] # r
    BY <2>1, <1>2 DEF Elements
  <2>3. \A i \in DOMAIN p : i \in 1 .. Len(s.queue) \/ i = Len(s.queue) + 1
    BY <1>2
  <2>4. \A a, b \in DOMAIN p : p[a] = p[b] => a = b
    BY <1>2, <1>7, <2>2, <2>3 DEF Sound
  <2>5. \A a \in DOMAIN p : ~Present(s, p[a])
    BY <1>2, <1>7, <2>1, <2>3 DEF Sound
  <2> QED BY <1>3, <1>7, <2>4, <2>5 DEF Sound, Present
<1> QED BY <1>3, <1>5, <1>6, <1>7 DEF t

\* The parts of a session, and the session with one of them replaced.
LEMMA Parts ==
  ASSUME NEW s \in Session
  PROVE  s.queue \in Seq(Jobs) /\ s.running \in Jobs \cup {NoJob} /\ s.recent \in [Jobs -> Record]
BY DEF Session

\* Replacing the queue leaves the rest.
LEMMA WithQueue ==
  ASSUME NEW s \in Session, NEW q \in Seq(Jobs)
  PROVE  LET t == [s EXCEPT !.queue = q]
         IN  t \in Session /\ t.queue = q /\ t.running = s.running /\ t.recent = s.recent
BY DEF Session

\* Replacing the running job leaves the rest.
LEMMA WithRunning ==
  ASSUME NEW s \in Session, NEW j \in Jobs \cup {NoJob}
  PROVE  LET t == [s EXCEPT !.running = j]
         IN  t \in Session /\ t.queue = s.queue /\ t.running = j /\ t.recent = s.recent
BY DEF Session

\* Replacing the records leaves the rest.
LEMMA WithRecords ==
  ASSUME NEW s \in Session, NEW recs \in [Jobs -> Record]
  PROVE  LET t == [s EXCEPT !.recent = recs]
         IN  t \in Session /\ t.queue = s.queue /\ t.running = s.running /\ t.recent = recs
BY DEF Session

\* Claiming moves the head of the queue to the records; no other record changes.
LEMMA Claiming ==
  ASSUME NEW s \in Session, s.queue # <<>>
  PROVE  LET j == Head(s.queue)
             t == markQueuedJobRunning(s, j)
         IN  /\ j \in Jobs
             /\ t \in Session
             /\ \A k \in Jobs : k # j => t.recent[k] = s.recent[k]
             /\ Present(t, j)
             /\ Sound(s) => ~Present(s, j) /\ Sound(t) /\ Keeps(s, t) /\ Known(t) = Known(s)
<1> DEFINE j == Head(s.queue)
           t == markQueuedJobRunning(s, j)
           rec == [status |-> "running", delivery |-> "none"]
           p == Tail(s.queue)
<1>1. /\ s.queue \in Seq(Jobs) /\ s.running \in Jobs \cup {NoJob} /\ s.recent \in [Jobs -> Record]
  BY DEF Session
<1>2. /\ p \in Seq(Jobs) /\ j \in Jobs /\ j = s.queue[1]
      /\ Len(s.queue) \in Nat \ {0}
      /\ DOMAIN p = 1 .. Len(s.queue) - 1
      /\ DOMAIN s.queue = 1 .. Len(s.queue)
      /\ \A i \in DOMAIN p : i + 1 \in DOMAIN s.queue /\ p[i] = s.queue[i + 1]
  BY <1>1
<1>3. rec \in Record /\ rec.status = "running"
  BY DEF Record, Statuses, Deliveries
<1>4. /\ t.queue = p /\ t.running = j /\ t.recent = [s.recent EXCEPT ![j] = rec]
      /\ t \in Session
  <2> DEFINE u == [s EXCEPT !.queue = p]
             v == [u EXCEPT !.running = j]
             w == [v EXCEPT !.recent = [v.recent EXCEPT ![j] = rec]]
  <2>1. u \in Session /\ u.queue = p /\ u.recent = s.recent
    <3> HIDE DEF p
    <3> QED BY <1>2, WithQueue
  <2>2. v \in Session /\ v.queue = p /\ v.running = j /\ v.recent = s.recent
    <3> HIDE DEF u, p, j
    <3> QED BY <1>2, <2>1, WithRunning
  <2>3. w \in Session /\ w.queue = p /\ w.running = j /\ w.recent = [s.recent EXCEPT ![j] = rec]
    <3> DEFINE recs == [v.recent EXCEPT ![j] = rec]
    <3> HIDE DEF v, rec, j, p
    <3>1. recs \in [Jobs -> Record] /\ recs = [s.recent EXCEPT ![j] = rec]
      BY <1>1, <1>3, <2>2
    <3> HIDE DEF recs
    <3>2. [v EXCEPT !.recent = recs] \in Session
      BY <2>2, <3>1, WithRecords
    <3> QED BY <2>2, <3>1, WithRecords DEF recs
  <2>4. t = w
    BY DEF markQueuedJobRunning
  <2> HIDE DEF w
  <2> QED BY <2>3, <2>4
<1> HIDE DEF p, t, j, rec
<1>5. t \in Session
  BY <1>4
<1>6. /\ \A k \in Jobs : k # j => t.recent[k] = s.recent[k]
      /\ t.recent[j] = rec
      /\ Present(t, j)
  BY <1>1, <1>2, <1>3, <1>4 DEF Present
<1>7. ASSUME Sound(s)
      PROVE  ~Present(s, j) /\ Sound(t) /\ Keeps(s, t) /\ Known(t) = Known(s)
  <2>1. ~Present(s, j)
    BY <1>2, <1>7 DEF Sound
  <2>2. \A i \in DOMAIN p : p[i] # j /\ p[i] \in Jobs
    BY <1>2, <1>7 DEF Sound
  <2>3. Elements(s.queue) = Elements(p) \cup {j}
    <3>1. \A i \in DOMAIN s.queue : i = 1 \/ (i - 1 \in DOMAIN p /\ s.queue[i] = p[i - 1])
      BY <1>2
    <3>2. 1 \in DOMAIN s.queue
      BY <1>2
    <3>3. \A x \in Elements(s.queue) : x \in Elements(p) \/ x = j
      BY <1>2, <3>1 DEF Elements
    <3>4. \A x \in Elements(p) : x \in Elements(s.queue)
      BY <1>2 DEF Elements
    <3>5. j \in Elements(s.queue)
      BY <1>2, <3>2 DEF Elements
    <3> QED BY <3>3, <3>4, <3>5
  <2>4. ASSUME NEW a \in DOMAIN p, NEW b \in DOMAIN p, p[a] = p[b] PROVE a = b
    <3>1. a + 1 = b + 1
      BY <1>2, <1>7, <2>4 DEF Sound
    <3>2. a \in Nat /\ b \in Nat
      BY <1>2
    <3> QED BY <3>1, <3>2
  <2>5. \A a \in DOMAIN p : ~Present(t, p[a])
    BY <1>2, <1>6, <1>7, <2>2 DEF Sound, Present
  <2>6. Sound(t)
    BY <1>4, <1>6, <2>4, <2>5 DEF Sound
  <2>7. \A k \in Jobs : Present(t, k) <=> Present(s, k) \/ k = j
    BY <1>6 DEF Present
  <2>8. Known(t) = Known(s)
    BY <1>2, <1>4, <2>3, <2>7 DEF Known
  <2>9. \A k \in Jobs : IsTerminal(s.recent[k]) => IsTerminal(t.recent[k])
    BY <1>6, <2>1 DEF IsTerminal, Terminal, Present
  <2> QED BY <2>1, <2>6, <2>7, <2>8, <2>9 DEF Keeps
<1> QED BY <1>2, <1>5, <1>6, <1>7 DEF t, j

\* Replacing the record of one job leaves the rest.
LEMMA WithRecord ==
  ASSUME NEW s \in Session, NEW j \in Jobs, NEW rec \in Record
  PROVE  LET t == [s EXCEPT !.recent[j] = rec]
         IN  /\ t \in Session /\ t.queue = s.queue /\ t.running = s.running
             /\ t.recent = [s.recent EXCEPT ![j] = rec]
<1> DEFINE recs == [s.recent EXCEPT ![j] = rec]
<1>1. recs \in [Jobs -> Record]
  BY Parts
<1> HIDE DEF recs
<1>2. LET t == [s EXCEPT !.recent = recs]
      IN  t \in Session /\ t.queue = s.queue /\ t.running = s.running /\ t.recent = recs
  BY <1>1, WithRecords
<1> QED BY <1>2 DEF recs

\* The records the operations write.
LEMMA EndedRecord ==
  ASSUME NEW rec \in Record, NEW r \in Results
  PROVE  Ended(rec, r) \in Record /\ IsTerminal(Ended(rec, r))
BY DEF Ended, Status, Record, Statuses, IsTerminal, Terminal

\* A delivery is written into a record without touching its status.
LEMMA DeliveredRecord ==
  ASSUME NEW rec \in Record, NEW d \in Deliveries
  PROVE  LET t == [rec EXCEPT !.delivery = d]
         IN  t \in Record /\ t.status = rec.status /\ t.delivery = d
BY DEF Record

\* A recovered job has ended, and counts as one whose delivery was tried.
LEMMA RecoveredRecord ==
  ASSUME NEW rec \in Record
  PROVE  RecoveredJob(rec) \in Record /\ RecoveredJob(rec).status = "recovered"
<1>1. rec.delivery \in Deliveries
  BY DEF Record
<1> QED BY <1>1 DEF RecoveredJob, Record, Statuses, Terminal, Deliveries

\* t is s with one record of a job, that has one already, replaced, and at most the
\* running job cleared.
Rewritten(s, t, j, rec) ==
  /\ t \in Session
  /\ t.queue = s.queue
  /\ t.running \in {s.running, NoJob}
  /\ t.recent = [s.recent EXCEPT ![j] = rec]

\* Such a change loses nothing, if the new record is there, and ended when the old was.
LEMMA Rewriting ==
  ASSUME NEW s \in Session, NEW t, NEW j \in Jobs, NEW rec \in Record, Rewritten(s, t, j, rec),
         Present(s, j), rec.status # "absent", IsTerminal(s.recent[j]) => IsTerminal(rec)
  PROVE  /\ t.recent[j] = rec /\ Present(t, j)
         /\ Keeps(s, t) /\ Known(t) = Known(s)
         /\ Sound(s) => Sound(t)
         /\ (rec.status = "running" => s.recent[j].status = "running") => NothingNew(s, t)
<1>1. /\ t.recent[j] = rec
      /\ \A k \in Jobs : k # j => t.recent[k] = s.recent[k]
      /\ t.queue = s.queue /\ s.queue \in Seq(Jobs)
      /\ t.running \in {s.running, NoJob} /\ s.running \in Jobs \cup {NoJob}
  BY Parts DEF Rewritten
<1>2. \A k \in Jobs : Present(t, k) <=> Present(s, k)
  BY <1>1 DEF Present
<1>3. \A k \in Jobs : IsTerminal(s.recent[k]) => IsTerminal(t.recent[k])
  BY <1>1
<1>4. Known(t) = Known(s)
  BY <1>1, <1>2 DEF Known
<1>5. \A a \in DOMAIN s.queue : s.queue[a] \in Jobs
  BY <1>1
<1>6. Sound(s) => Sound(t)
  BY <1>1, <1>2, <1>5 DEF Sound
<1> QED BY <1>1, <1>2, <1>3, <1>4, <1>6 DEF Keeps, NothingNew

\* The end of an execution, written on the object that is held.
LEMMA Settling ==
  ASSUME NEW s \in Session, NEW j \in Jobs, NEW r \in Results
  PROVE  LET t == [s EXCEPT !.recent[j] = Ended(@, r)]
         IN  Rewritten(s, t, j, Ended(s.recent[j], r))
<1> DEFINE rec == Ended(s.recent[j], r)
<1>1. rec \in Record
  BY Parts, EndedRecord
<1> HIDE DEF rec
<1>2. Rewritten(s, [s EXCEPT !.recent[j] = rec], j, rec)
  BY <1>1, WithRecord DEF Rewritten
<1> QED BY <1>2 DEF rec

\* The outcome of an execution, written on the session read after it.
LEMMA Recording ==
  ASSUME NEW s \in Session, NEW j \in Jobs, NEW r \in Results
  PROVE  Rewritten(s, persistExecutedJobOutcome(s, j, r), j, Ended(s.recent[j], r))
<1> DEFINE u == [s EXCEPT !.running = NoJob]
           rec == Ended(s.recent[j], r)
<1>1. u \in Session /\ u.queue = s.queue /\ u.running = NoJob /\ u.recent = s.recent
  BY WithRunning
<1>2. rec \in Record
  BY Parts, EndedRecord
<1>3. persistExecutedJobOutcome(s, j, r) = [u EXCEPT !.recent[j] = Ended(u.recent[j], r)]
  BY DEF persistExecutedJobOutcome
<1>4. persistExecutedJobOutcome(s, j, r) = [u EXCEPT !.recent[j] = rec]
  <2> HIDE DEF u
  <2> QED BY <1>1, <1>3
<1> HIDE DEF u, rec
<1>5. Rewritten(s, [u EXCEPT !.recent[j] = rec], j, rec)
  BY <1>1, <1>2, WithRecord DEF Rewritten
<1> QED BY <1>4, <1>5 DEF rec

\* The minimal record written when the outcome could not be saved.
LEMMA Salvaging ==
  ASSUME NEW s \in Session, NEW j \in Jobs, NEW r \in Results
  PROVE  LET rec == [Ended(s.recent[j], r) EXCEPT !.delivery = "none"]
         IN  /\ rec \in Record /\ IsTerminal(rec)
             /\ Rewritten(s, recoverPostExecutionPersistenceFailure(s, j, r), j, rec)
<1> DEFINE u == [s EXCEPT !.running = NoJob]
           rec == [Ended(s.recent[j], r) EXCEPT !.delivery = "none"]
<1>1. u \in Session /\ u.queue = s.queue /\ u.running = NoJob /\ u.recent = s.recent
  BY WithRunning
<1>2. rec \in Record /\ IsTerminal(rec)
  <2>1. "none" \in Deliveries /\ s.recent[j] \in Record
    BY Parts DEF Deliveries
  <2> QED BY <2>1, EndedRecord, DeliveredRecord DEF IsTerminal
<1>3. recoverPostExecutionPersistenceFailure(s, j, r)
        = [u EXCEPT !.recent[j] = [Ended(u.recent[j], r) EXCEPT !.delivery = "none"]]
  BY DEF recoverPostExecutionPersistenceFailure
<1>4. recoverPostExecutionPersistenceFailure(s, j, r) = [u EXCEPT !.recent[j] = rec]
  <2> HIDE DEF u
  <2> QED BY <1>1, <1>3
<1> HIDE DEF u, rec
<1>5. Rewritten(s, [u EXCEPT !.recent[j] = rec], j, rec)
  BY <1>1, <1>2, WithRecord DEF Rewritten
<1> QED BY <1>2, <1>4, <1>5 DEF rec

\* The final delivery, written on the session that is held.
LEMMA Delivering ==
  ASSUME NEW s \in Session, NEW j \in Jobs, NEW ok \in BOOLEAN
  PROVE  \E rec \in Record :
           /\ rec.status = s.recent[j].status /\ IsAttempted(rec)
           /\ Rewritten(s, finalDelivery(s, j, ok), j, rec)
<1> DEFINE d == IF ok THEN "sent" ELSE "failed"
           rec == [s.recent[j] EXCEPT !.delivery = d]
<1>1. d \in Deliveries /\ d # "none"
  BY DEF Deliveries
<1> HIDE DEF d
<1>2. rec \in Record /\ rec.status = s.recent[j].status /\ rec.delivery = d
  BY <1>1, Parts, DeliveredRecord
<1>3. finalDelivery(s, j, ok) = [s EXCEPT !.recent[j] = rec]
  BY DEF finalDelivery, d
<1> HIDE DEF rec
<1>4. Rewritten(s, [s EXCEPT !.recent[j] = rec], j, rec)
  BY <1>2, WithRecord DEF Rewritten
<1> QED BY <1>1, <1>2, <1>3, <1>4 DEF IsAttempted

\* Recovery of queued jobs gives them records, of a running job an end; it loses nothing.
LEMMA StaleRecovery ==
  ASSUME NEW s \in Session, NEW stale \in Jobs
  PROVE  LET t == recoverStaleQueuedJobs(s, stale)
         IN  t \in Session /\ (Sound(s) => Sound(t) /\ Keeps(s, t) /\ NothingNew(s, t))
<1> DEFINE t == recoverStaleQueuedJobs(s, stale)
           q == Younger(s.queue, stale)
           old == {j \in Elements(s.queue) : j <= stale}
           recs == [j \in Jobs |-> IF j \in old THEN RecoveredJob(Absent) ELSE s.recent[j]]
           u == [s EXCEPT !.queue = q]
<1>1. CASE s.running # NoJob
  <2>1. t = s
    BY <1>1 DEF recoverStaleQueuedJobs
  <2> QED BY <2>1 DEF Keeps, NothingNew
<1>2. CASE s.running = NoJob
  <2>1. s.queue \in Seq(Jobs) /\ s.recent \in [Jobs -> Record]
    BY Parts
  <2>2. /\ q \in Seq(Jobs) /\ Elements(q) = {j \in Elements(s.queue) : j > stale}
        /\ (\A a, b \in DOMAIN s.queue : s.queue[a] = s.queue[b] => a = b) =>
             \A a, b \in DOMAIN q : q[a] = q[b] => a = b
    BY <2>1, YoungerKeeps
  <2>3. RecoveredJob(Absent) \in Record /\ RecoveredJob(Absent).status = "recovered"
    <3>1. Absent \in Record
      BY DEF Absent, Record, Statuses, Deliveries
    <3> QED BY <3>1, RecoveredRecord
  <2>4. recs \in [Jobs -> Record]
    BY <2>1, <2>3
  <2>5. u \in Session /\ u.queue = q /\ u.running = NoJob /\ u.recent = s.recent
    <3> HIDE DEF q
    <3> QED BY <1>2, <2>2, WithQueue
  <2>6. t = [u EXCEPT !.recent = [j \in Jobs |-> IF j \in Elements(s.queue) /\ j <= stale
                                                   THEN RecoveredJob(Absent) ELSE u.recent[j]]]
    BY <1>2 DEF recoverStaleQueuedJobs
  <2>7. t = [u EXCEPT !.recent = recs]
    <3>1. recs = [j \in Jobs |-> IF j \in Elements(s.queue) /\ j <= stale
                                   THEN RecoveredJob(Absent) ELSE u.recent[j]]
      <4> HIDE DEF u
      <4> QED BY <2>5
    <3> QED BY <2>6, <3>1
  <2> HIDE DEF u, recs, t, q
  <2>8. t \in Session /\ t.queue = q /\ t.running = NoJob /\ t.recent = recs
    BY <2>4, <2>5, <2>7, WithRecords
  <2>9. ASSUME Sound(s) PROVE Sound(t) /\ Keeps(s, t) /\ NothingNew(s, t)
    <3>1. /\ Elements(s.queue) \subseteq Jobs
          /\ \A j \in Elements(s.queue) : j > stale <=> ~(j <= stale)
      <4>1. Elements(s.queue) \subseteq Jobs
        BY <2>1 DEF Elements
      <4>2. stale \in Nat /\ \A j \in Jobs : j \in Nat
        BY DEF Jobs
      <4>3. \A j \in Elements(s.queue) : j \in Nat
        BY <4>1, <4>2
      <4> QED BY <4>1, <4>2, <4>3
    <3>2. \A j \in Jobs : /\ j \in old => recs[j].status = "recovered"
                          /\ j \notin old => recs[j] = s.recent[j]
      BY <2>3 DEF recs
    <3>3. \A j \in Elements(s.queue) : ~Present(s, j)
      BY <2>9 DEF Sound, Elements
    <3>4. \A j \in Jobs : Present(t, j) <=> Present(s, j) \/ j \in old
      BY <2>8, <3>2 DEF Present
    <3>5. Elements(q) = Elements(s.queue) \ old
      BY <2>2, <3>1
    <3>6. \A j \in Elements(q) : ~Present(t, j)
      BY <3>1, <3>3, <3>4, <3>5
    <3>7. Sound(t)
      <4>1. \A a \in DOMAIN q : ~Present(t, q[a])
        BY <3>6 DEF Elements
      <4> QED BY <2>2, <2>8, <2>9, <4>1 DEF Sound
    <3>8. Known(t) = Known(s)
      BY <2>8, <3>1, <3>4, <3>5 DEF Known
    <3>9. \A j \in Jobs : IsTerminal(s.recent[j]) => IsTerminal(t.recent[j])
      BY <2>8, <3>2 DEF IsTerminal, Terminal
    <3>10. NothingNew(s, t)
      BY <2>8, <3>2, <3>8 DEF NothingNew
    <3> QED BY <3>4, <3>7, <3>8, <3>9, <3>10 DEF Keeps
  <2> QED BY <2>8, <2>9 DEF t
<1> QED BY <1>1, <1>2

\* Recovery of the running job.
LEMMA RunningRecovery ==
  ASSUME NEW s \in Session
  PROVE  LET t == recoverRunningJob(s)
         IN  t \in Session /\ (Sound(s) => Sound(t) /\ Keeps(s, t) /\ NothingNew(s, t))
<1> DEFINE t == recoverRunningJob(s)
           u == [s EXCEPT !.running = NoJob]
           j == s.running
           rec == RecoveredJob(s.recent[j])
<1>1. CASE j = NoJob
  <2>1. t = s
    BY <1>1 DEF recoverRunningJob
  <2> QED BY <2>1 DEF Keeps, NothingNew
<1>2. CASE j # NoJob
  <2>1. j \in Jobs /\ s.recent \in [Jobs -> Record]
    BY <1>2, Parts
  <2>2. u \in Session /\ u.queue = s.queue /\ u.running = NoJob /\ u.recent = s.recent
    BY WithRunning
  <2>3. rec \in Record /\ rec.status = "recovered"
    BY <2>1, RecoveredRecord
  <2>4. t = [u EXCEPT !.recent[j] = RecoveredJob(u.recent[j])]
    BY <1>2 DEF recoverRunningJob
  <2>5. t = [u EXCEPT !.recent[j] = rec]
    <3> HIDE DEF u
    <3> QED BY <2>2, <2>4
  <2> HIDE DEF u, rec, t
  <2>6. Rewritten(s, t, j, rec)
    BY <2>1, <2>2, <2>3, <2>5, WithRecord DEF Rewritten
  <2>7. ASSUME Sound(s) PROVE Sound(t) /\ Keeps(s, t) /\ NothingNew(s, t)
    <3>1. Present(s, j)
      BY <1>2, <2>7 DEF Sound
    <3>2. IsTerminal(rec) /\ rec.status # "absent" /\ rec.status # "running"
      BY <2>3 DEF IsTerminal, Terminal
    <3> QED BY <2>1, <2>3, <2>6, <2>7, <3>1, <3>2, Rewriting
  <2> QED BY <2>6, <2>7 DEF Rewritten, t
<1> QED BY <1>1, <1>2

\* What a request finds after recoverStaleRunningJobIfNeeded.
LEMMA Recovering ==
  ASSUME NEW s \in Session, NEW t \in Recoveries(s)
  PROVE  t \in Session /\ (Sound(s) => Sound(t) /\ Keeps(s, t) /\ NothingNew(s, t))
<1>1. \/ t = s
      \/ \E k \in Jobs : t = recoverStaleQueuedJobs(s, k)
      \/ t = recoverRunningJob(s)
  BY DEF Recoveries
<1>2. CASE t = s
  BY <1>2 DEF Keeps, NothingNew
<1>3. CASE \E k \in Jobs : t = recoverStaleQueuedJobs(s, k)
  BY <1>3, StaleRecovery
<1>4. CASE t = recoverRunningJob(s)
  BY <1>4, RunningRecovery
<1> QED BY <1>1, <1>2, <1>3, <1>4

-----------------------------------------------------------------------------
\* The store: objects, reads and writes.  The types of its variables, and of the rest.

\* The part of TypeOK about the store; the JSON store always has an object.
StoreOK ==
  /\ file \in Session
  /\ mem \in Objs \cup {NoObj}
  /\ Backend = "json" => mem \in Objs
  /\ heap \in [Objs -> Session]
  /\ ref \in [Actors -> Objs \cup {NoObj}]
  /\ out \in [Writers -> Seq(Session)]

\* There is always an object that is not held: one more than the actors and the store hold.
LEMMA FreeObject ==
  ASSUME ref \in [Actors -> Objs \cup {NoObj}]
  PROVE  Fresh \in Objs /\ Fresh \notin Live
<1> DEFINE held == {ref[a] : a \in Actors}
<1>1. IsFiniteSet(Actors) /\ Cardinality(Actors) = NumJobs + 1
  <2>1. Actors = 0 .. NumJobs
    BY NumJobsType DEF Actors, Requests, Jobs, Worker
  <2> QED BY <2>1, NumJobsType, FS_Interval
<1>2. ref \in Surjection(Actors, held)
  <2>1. ref \in [Actors -> held]
    OBVIOUS
  <2>2. \A x \in held : \E a \in Actors : ref[a] = x
    OBVIOUS
  <2> HIDE DEF held
  <2> QED BY <2>1, <2>2 DEF Surjection
<1>3. IsFiniteSet(held) /\ Cardinality(held) <= NumJobs + 1 /\ Cardinality(held) \in Nat
  <2> HIDE DEF held
  <2> QED BY <1>1, <1>2, FS_Surjection, FS_CardinalityType
<1>4. Live = held \cup {mem}
  BY DEF Live
<1> HIDE DEF held
<1>5. IsFiniteSet(Live) /\ Cardinality(Live) <= NumJobs + 2 /\ Cardinality(Live) \in Nat
  <2>1. IsFiniteSet(Live)
    BY <1>3, <1>4, FS_AddElement
  <2>2. Cardinality(Live) \in {Cardinality(held), Cardinality(held) + 1}
    BY <1>3, <1>4, FS_AddElement
  <2> QED BY <1>3, <2>1, <2>2, NumJobsType
<1>6. IsFiniteSet(Objs) /\ Cardinality(Objs) = NumJobs + 3
  BY NumJobsType, FS_Interval DEF Objs
<1>7. Objs \ Live # {}
  <2> SUFFICES ASSUME Objs \subseteq Live PROVE FALSE
    OBVIOUS
  <2>1. NumJobs + 3 <= Cardinality(Live)
    BY <1>5, <1>6, FS_Subset
  <2> QED BY <1>5, <2>1, NumJobsType
<1>8. Objs \ Live \in SUBSET Nat
  BY DEF Objs
<1>9. \E o \in Objs \ Live : \A x \in Objs \ Live : o <= x
  BY <1>7, <1>8, Smallest
<1>10. \E o \in Objs : o \notin Live /\ \A x \in Objs \ Live : o <= x
  BY <1>9
<1> QED BY <1>10 DEF Fresh

\* The session a conversation begins with.
LEMMA EmptyOne ==
  EmptySession \in Session /\ Sound(EmptySession) /\ Known(EmptySession) = {}
<1>1. Absent \in Record /\ Absent.status = "absent"
  BY DEF Absent, Record, Statuses, Deliveries
<1>2. /\ EmptySession \in Session /\ EmptySession.queue = <<>> /\ EmptySession.running = NoJob
      /\ EmptySession.recent = [j \in Jobs |-> Absent]
  BY <1>1 DEF EmptySession, Session
<1>3. \A j \in Jobs : ~Present(EmptySession, j)
  BY <1>1, <1>2 DEF Present
<1> QED BY <1>2, <1>3 DEF Sound, Known, Elements

\* What the store hands out, and the object it is, or becomes.
LEMMA Getting ==
  ASSUME StoreOK
  PROVE  GetSession \in Session /\ Got \in Objs
BY FreeObject DEF StoreOK, GetSession, Got

\* What Store does: only object o, and what nobody holds, changes.
LEMMA Storing ==
  ASSUME StoreOK, NEW o, NEW s \in Session, Store(o, s)
  PROVE  /\ heap' \in [Objs -> Session]
         /\ \A x \in Objs : /\ heap'[x] \in {EmptySession, s, heap[x]}
                            /\ x \in Live' => heap'[x] = IF x = o THEN s ELSE heap[x]
BY EmptyOne DEF Store, StoreOK

\* No actor loses its object, or anything that is in it.
Grown(b) == ref[b] \in Objs => ref'[b] = ref[b] /\ Keeps(heap[ref[b]], heap'[ref[b]])

\* No object has got other contents than s.
OnlyNew(s) == \A x \in Objs : heap'[x] \in {EmptySession, s, heap[x]}

\* Every session keeps what it has.
LEMMA KeepsSame == ASSUME NEW s PROVE Keeps(s, s)
BY DEF Keeps

\* Taking the store's object and changing it.
LEMMA Taking ==
  ASSUME StoreOK, NEW a \in Actors, NEW s \in Session, Take(a, s)
  PROVE  /\ mem' \in Objs \cup {NoObj} /\ mem' = mem
         /\ heap' \in [Objs -> Session] /\ OnlyNew(s)
         /\ ref' \in [Actors -> Objs \cup {NoObj}]
         /\ ref'[a] \in Objs /\ heap'[ref'[a]] = s
         /\ \A b \in Actors : b # a => ref'[b] = ref[b]
         /\ Backend = "json" /\ Keeps(heap[mem], s) =>
              heap'[mem] = s /\ \A b \in Actors : b # a => Grown(b)
<1>1. /\ mem' = mem /\ ref' = [ref EXCEPT ![a] = Got] /\ Store(Got, s) /\ Got \in Objs
      /\ mem \in Objs \cup {NoObj} /\ ref \in [Actors -> Objs \cup {NoObj}]
  BY Getting DEF Take, StoreOK
<1>2. /\ ref' \in [Actors -> Objs \cup {NoObj}] /\ ref'[a] = Got
      /\ \A b \in Actors : b # a => ref'[b] = ref[b]
  BY <1>1
<1>3. mem' \in Live' /\ \A b \in Actors : ref'[b] \in Live'
  BY DEF Live
<1>4. /\ heap' \in [Objs -> Session] /\ OnlyNew(s)
      /\ \A x \in Objs : x \in Live' => heap'[x] = IF x = Got THEN s ELSE heap[x]
  BY <1>1, Storing DEF OnlyNew
<1>5. ASSUME Backend = "json", Keeps(heap[mem], s)
      PROVE  heap'[mem] = s /\ \A b \in Actors : b # a => Grown(b)
  <2>1. Got = mem
    BY <1>5 DEF Got
  <2> QED BY <1>1, <1>2, <1>3, <1>4, <1>5, <2>1, KeepsSame DEF Grown
<1> QED BY <1>1, <1>2, <1>3, <1>4, <1>5

\* Changing the object that is held.
LEMMA Updating ==
  ASSUME StoreOK, NEW a \in Actors, NEW s \in Session, Update(a, s), ref[a] \in Objs
  PROVE  /\ mem' = mem /\ ref' = ref
         /\ heap' \in [Objs -> Session] /\ OnlyNew(s) /\ heap'[ref[a]] = s
         /\ Backend = "json" /\ Keeps(heap[ref[a]], s) =>
              Keeps(heap[mem], heap'[mem]) /\ \A b \in Actors : Grown(b)
<1>1. mem' = mem /\ ref' = ref /\ Store(ref[a], s)
  BY DEF Update
<1>2. mem \in Live' /\ \A b \in Actors : ref[b] \in Live'
  BY <1>1 DEF Live
<1>3. /\ heap' \in [Objs -> Session] /\ OnlyNew(s)
      /\ \A x \in Objs : x \in Live' => heap'[x] = IF x = ref[a] THEN s ELSE heap[x]
  BY <1>1, Storing DEF OnlyNew
<1>4. ASSUME Backend = "json", Keeps(heap[ref[a]], s)
      PROVE  Keeps(heap[mem], heap'[mem]) /\ \A b \in Actors : Grown(b)
  BY <1>1, <1>2, <1>3, <1>4, KeepsSame DEF Grown, StoreOK
<1> QED BY <1>1, <1>2, <1>3, <1>4

\* Letting an object go.
LEMMA Dropping ==
  ASSUME StoreOK, NEW a \in Actors, Drop(a)
  PROVE  /\ mem' = mem /\ heap' \in [Objs -> Session] /\ OnlyNew(EmptySession)
         /\ ref' \in [Actors -> Objs \cup {NoObj}]
         /\ \A b \in Actors : b # a => ref'[b] = ref[b] /\ Grown(b)
         /\ Backend = "json" => heap'[mem] = heap[mem]
<1>1. mem' = mem /\ ref' = [ref EXCEPT ![a] = NoObj] /\ Store(NoObj, EmptySession)
  BY DEF Drop, Without
<1>2. NoObj \notin Objs
  BY DEF NoObj, Objs
<1>3. /\ ref' \in [Actors -> Objs \cup {NoObj}]
      /\ \A b \in Actors : b # a => ref'[b] = ref[b]
  BY <1>1 DEF StoreOK
<1>4. mem' \in Live' /\ \A b \in Actors : ref'[b] \in Live'
  BY DEF Live
<1>5. /\ heap' \in [Objs -> Session] /\ OnlyNew(EmptySession)
      /\ \A x \in Objs : x \in Live' => heap'[x] = heap[x]
  <2>1. EmptySession \in Session
    BY EmptyOne
  <2>2. /\ heap' \in [Objs -> Session]
        /\ \A x \in Objs : /\ heap'[x] \in {EmptySession, heap[x]}
                           /\ x \in Live' => heap'[x] = IF x = NoObj THEN EmptySession ELSE heap[x]
    BY <1>1, <2>1, Storing
  <2> QED BY <1>2, <2>2 DEF OnlyNew
<1>6. \A b \in Actors : b # a => Grown(b)
  BY <1>3, <1>4, <1>5, KeepsSame DEF Grown
<1> QED BY <1>1, <1>3, <1>4, <1>5, <1>6 DEF StoreOK

\* The store's object is a new one, and no actor's changes.
LEMMA Remembering ==
  ASSUME StoreOK, NEW s \in Session, NEW refs \in [Actors -> Objs \cup {NoObj}],
         Remember(s, refs), \A b \in Actors : refs[b] \in {ref[b], NoObj}
  PROVE  /\ mem' \in Objs \cup {NoObj} /\ (Backend = "json" => mem' \in Objs /\ heap'[mem'] = s)
         /\ heap' \in [Objs -> Session] /\ OnlyNew(s)
         /\ ref' = refs
         /\ \A b \in Actors : refs[b] = ref[b] => Grown(b)
<1>1. /\ ref' = refs /\ Store(mem', s) /\ mem' = IF Backend = "json" THEN Fresh ELSE NoObj
  BY DEF Remember
<1>2. Fresh \in Objs /\ Fresh \notin Live
  BY FreeObject DEF StoreOK
<1>3. mem' \in Live' /\ \A b \in Actors : ref'[b] \in Live'
  BY DEF Live
<1>4. /\ heap' \in [Objs -> Session] /\ OnlyNew(s)
      /\ \A x \in Objs : x \in Live' => heap'[x] = IF x = mem' THEN s ELSE heap[x]
  BY <1>1, Storing DEF OnlyNew
<1>5. NoObj \notin Objs
  BY DEF NoObj, Objs
<1>6. ASSUME NEW b \in Actors, refs[b] = ref[b] PROVE Grown(b)
  <2>1. ref[b] \in Live
    BY DEF Live
  <2>2. ref[b] \in Objs => ref[b] # mem'
    BY <1>1, <1>2, <1>5, <2>1
  <2> QED BY <1>1, <1>3, <1>4, <1>6, <2>2, KeepsSame DEF Grown
<1> QED BY <1>1, <1>2, <1>3, <1>4, <1>6

\* A setSession that is over leaves no copy.
LEMMA Cleared ==
  ASSUME StoreOK, NEW a \in Writers, out' = [out EXCEPT ![a] = <<>>]
  PROVE  out' \in [Writers -> Seq(Session)] /\ \A b \in Writers : b # a => out'[b] = out[b]
<1>1. <<>> \in Seq(Session)
  OBVIOUS
<1> QED BY <1>1 DEF StoreOK

\* Writing the session: the file becomes what was merged, over either backend.
LEMMA Committing ==
  ASSUME StoreOK, NEW a \in Writers, NEW refs \in {ref, Without(Worker)}, Commit(a, refs)
  PROVE  /\ StoreOK' /\ file' = Merged(a) /\ ref' = refs
         /\ Head(out[a]) \in Session /\ out' = [out EXCEPT ![a] = <<>>]
         /\ Backend = "json" => heap'[mem'] = file'
         /\ OnlyNew(file')
         /\ \A b \in Actors : refs[b] = ref[b] => Grown(b)
         /\ \A b \in Actors : b # Worker => ref'[b] = ref[b] /\ Grown(b)
<1>1. out[a] # <<>> /\ out[a] \in Seq(Session) /\ file \in Session
  BY DEF Commit, StoreOK
<1>2. Head(out[a]) \in Session
  BY <1>1
<1>3. Merged(a) \in Session
  BY <1>1, <1>2, Merging DEF Merged
<1>4. /\ refs \in [Actors -> Objs \cup {NoObj}]
      /\ \A b \in Actors : refs[b] \in {ref[b], NoObj} /\ (b # Worker => refs[b] = ref[b])
  BY DEF StoreOK, Without
<1>5. Remember(Merged(a), refs) /\ file' = Merged(a) /\ out' = [out EXCEPT ![a] = <<>>]
  BY DEF Commit
<1>6. out' \in [Writers -> Seq(Session)]
  BY <1>5, Cleared
<1> QED BY <1>2, <1>3, <1>4, <1>5, <1>6, Remembering DEF StoreOK

\* A write that throws leaves the file, and the store's object as it was or merged.
LEMMA Failing ==
  ASSUME StoreOK, NEW a \in Actors, FailCommit(a)
  PROVE  /\ StoreOK' /\ file' = file /\ out' = [out EXCEPT ![a] = <<>>]
         /\ Head(out[a]) \in Session /\ out[a] # <<>> /\ SaveErrors
         /\ \A b \in Actors : b # a => ref'[b] = ref[b] /\ Grown(b)
         /\ \/ OnlyNew(EmptySession) /\ (Backend = "json" => heap'[mem'] = heap[mem])
            \/ Backend = "json" /\ OnlyNew(Merged(a)) /\ heap'[mem'] = Merged(a)
<1>1. /\ out[a] # <<>> /\ out[a] \in Seq(Session) /\ file \in Session
      /\ file' = file /\ out' = [out EXCEPT ![a] = <<>>] /\ SaveErrors
  BY DEF FailCommit, StoreOK, Writers
<1>2. Head(out[a]) \in Session
  BY <1>1
<1>3. Merged(a) \in Session
  BY <1>1, <1>2, Merging DEF Merged
<1>4. out' \in [Writers -> Seq(Session)]
  BY <1>1, Cleared DEF Writers
<1>5. CASE Drop(a)
  BY <1>1, <1>2, <1>5, <1>4, Dropping DEF StoreOK
<1>6. CASE Backend = "json" /\ Remember(Merged(a), Without(a))
  <2>1. /\ Without(a) \in [Actors -> Objs \cup {NoObj}]
        /\ \A b \in Actors : Without(a)[b] \in {ref[b], NoObj}
        /\ \A b \in Actors : b # a => Without(a)[b] = ref[b]
    BY DEF StoreOK, Without
  <2> QED BY <1>1, <1>2, <1>3, <1>6, <1>4, <2>1, Remembering DEF StoreOK
<1> QED BY <1>5, <1>6 DEF FailCommit

\* Where a request, and the worker, holds an object; where the worker has a job.
Holding == {"routing", "turn", "saving", "saved"}
Working == {"claim", "exec", "outcome", "record", "recall", "store", "salvage", "quiet", "send"}
AtWork  == wpc \notin {"off", "poll"}

\* Who holds an object, and when the worker has a job.
Phases ==
  /\ Backend = "json" => mem \in Objs
  /\ \A r \in Requests : ipc[r] \in Holding => ref[r] \in Objs
  /\ wpc \in Working => ref[Worker] \in Objs
  /\ AtWork => job \in Jobs

TInv == TypeOK /\ Phases

\* The part of TypeOK about everything else.
RestOK ==
  /\ ipc \in [Requests -> IPcs]
  /\ mustStart \in [Requests -> BOOLEAN]
  /\ wpc \in WPcs /\ job \in Jobs \cup {NoJob} /\ result \in Results
  /\ rechecks \in Nat /\ bound \in BOOLEAN
  /\ started \in [Jobs -> Nat] /\ sent \in [Jobs -> Nat] /\ crashes \in 0..MaxCrashes
  /\ setting \in Settings

\* The type invariant, taken apart.
LEMMA TypesApart == TInv <=> StoreOK /\ RestOK /\ Phases
BY DEF TInv, TypeOK, StoreOK, RestOK, Phases

\* A request's step, if it keeps the types of the store and the holding of the others.
LEMMA RequestTypes ==
  ASSUME TInv, NEW r \in Requests, NEW l \in IPcs, Goto(r, l),
         mustStart' \in [Requests -> BOOLEAN], wpc' = wpc \/ (wpc = "off" /\ wpc' = "poll"),
         bound' \in BOOLEAN, UNCHANGED <<job, result, rechecks, history>>,
         StoreOK', \A b \in Actors : b # r => ref'[b] = ref[b], l \in Holding => ref'[r] \in Objs
  PROVE  TInv'
<1>1. RestOK'
  BY TypesApart DEF RestOK, Goto, history, WPcs, MaxCrashes
<1>2. Phases'
  <2>1. r # Worker /\ Worker \in Actors /\ Requests \subseteq Actors
    BY DEF Requests, Jobs, Worker, Actors
  <2>2. \A q \in Requests : ipc'[q] \in Holding => ref'[q] \in Objs
    BY <2>1 DEF Goto, TInv, Phases, TypeOK
  <2>3. wpc' \in Working => wpc' = wpc
    BY DEF Working
  <2>4. (wpc' \in Working => ref'[Worker] \in Objs) /\ (AtWork' => job' \in Jobs)
    BY <2>1, <2>3 DEF TInv, Phases, AtWork
  <2>5. Backend = "json" => mem' \in Objs
    BY DEF StoreOK
  <2> QED BY <2>2, <2>4, <2>5 DEF Phases
<1> QED BY <1>1, <1>2, TypesApart, PTL

\* A step of the worker, if it keeps the types and leaves the requests their objects.
LEMMA WorkerTypes ==
  ASSUME TInv, UNCHANGED <<ipc, mustStart, setting, crashes>>, wpc' \in WPcs,
         job' \in Jobs \cup {NoJob}, result' \in Results, rechecks' \in Nat, bound' \in BOOLEAN,
         started' \in [Jobs -> Nat], sent' \in [Jobs -> Nat],
         StoreOK', \A b \in Actors : b # Worker => ref'[b] = ref[b],
         wpc' \in Working => ref'[Worker] \in Objs, AtWork' => job' \in Jobs
  PROVE  TInv'
<1>1. RestOK'
  BY TypesApart DEF RestOK, MaxCrashes
<1>2. \A q \in Requests : ipc'[q] \in Holding => ref'[q] \in Objs
  BY DEF TInv, Phases, Requests, Jobs, Worker, Actors
<1>3. Phases'
  BY <1>2 DEF Phases, StoreOK
<1> QED BY <1>1, <1>3, TypesApart, PTL

\* The conversation begins with nothing held.
LEMMA InitTInv == Init => TInv
<1> SUFFICES ASSUME Init PROVE TInv
  OBVIOUS
<1>1. 1 \in Objs
  BY NumJobsType DEF Objs
<1>2. MaxCrashes \in Nat
  BY OptionsType DEF Init, Setting, MaxCrashes
<1>3. TypeOK
  <2>1. <<>> \in Seq(Session) /\ EmptySession \in Session
    BY EmptyOne
  <2>2. StoreOK
    BY <1>1, <2>1 DEF Init, StoreOK
  <2>3. ipc \in [Requests -> IPcs] /\ wpc \in WPcs /\ result \in Results
    BY DEF Init, IPcs, WPcs, Results
  <2>4. mustStart \in [Requests -> BOOLEAN] /\ bound \in BOOLEAN
    BY Zenon DEF Init
  <2>5. RestOK
    BY <1>2, <2>3, <2>4 DEF Init, RestOK
  <2> QED BY <2>2, <2>5 DEF TypeOK, StoreOK, RestOK
<1>4. Phases
  BY <1>1 DEF Init, Phases, Holding, Working, AtWork
<1> QED BY <1>3, <1>4 DEF TInv

\* What a request or the worker passes to setSession.
LEMMA Passing ==
  ASSUME StoreOK, NEW a \in Writers, NEW s \in Session, SetSession(a, s)
  PROVE  /\ out' \in [Writers -> Seq(Session)] /\ out'[a] = <<s>>
         /\ \A b \in Writers : b # a => out'[b] = out[b]
<1>1. <<s>> \in Seq(Session)
  OBVIOUS
<1> QED BY <1>1 DEF SetSession, StoreOK

\* A request's step keeps the types.
LEMMA RequestStepTypes ==
  ASSUME TInv, NEW r \in Requests, RequestStep(r) \/ CommitRequest(r) \/ FailRequest(r)
  PROVE  TInv'
<1> USE DEF IPcs, Holding
<1>1. StoreOK /\ RestOK /\ Phases /\ r \in Actors /\ r \in Writers /\ r \in Jobs
  BY TypesApart DEF Actors, Writers, Requests
<1>2. CASE ReceiveMessage(r)
  <2>1. PICK s \in Recoveries(GetSession) : Take(r, s)
    BY <1>2 DEF ReceiveMessage
  <2>2. s \in Session
    BY <1>1, Getting, Recovering
  <2>3. StoreOK' /\ ref'[r] \in Objs /\ \A b \in Actors : b # r => ref'[b] = ref[b]
    BY <1>1, <1>2, <2>1, <2>2, Taking DEF StoreOK, ReceiveMessage
  <2> QED BY <1>1, <1>2, <2>3, RequestTypes DEF ReceiveMessage, RestOK, loop
<1>3. CASE EnqueueSystemJob(r)
  <2> DEFINE s == enqueueConversationJob(GetSession, r)
  <2>1. s \in Session
    BY <1>1, Getting, Enqueuing
  <2>2. Take(r, s) /\ SetSession(r, s) /\ file' = file
    BY <1>3 DEF EnqueueSystemJob
  <2> HIDE DEF s
  <2>3. StoreOK' /\ ref'[r] \in Objs /\ \A b \in Actors : b # r => ref'[b] = ref[b]
    BY <1>1, <2>1, <2>2, Taking, Passing DEF StoreOK
  <2> QED BY <1>1, <1>3, <2>3, RequestTypes DEF EnqueueSystemJob, RestOK, loop
<1>4. CASE EnqueueJob(r)
  <2> DEFINE s == enqueueConversationJob(heap[ref[r]], r)
  <2>1. ref[r] \in Objs
    BY <1>1, <1>4 DEF EnqueueJob, Phases
  <2>2. s \in Session
    BY <1>1, <2>1, Enqueuing DEF StoreOK
  <2>3. Update(r, s) /\ file' = file /\ out' = out
    BY <1>4 DEF EnqueueJob
  <2>4. mustStart' \in [Requests -> BOOLEAN]
    BY <1>1, <1>4 DEF EnqueueJob, RestOK
  <2> HIDE DEF s
  <2>5. StoreOK' /\ ref' = ref
    BY <1>1, <2>1, <2>2, <2>3, Updating DEF StoreOK
  <2> QED BY <1>1, <1>4, <2>1, <2>4, <2>5, RequestTypes DEF EnqueueJob, RestOK, loop
<1>5. CASE SaveRequest(r)
  <2>1. ref[r] \in Objs
    BY <1>1, <1>5 DEF SaveRequest, Phases
  <2>2. SetSession(r, heap[ref[r]]) /\ heap[ref[r]] \in Session
        /\ UNCHANGED <<file, mem, heap, ref>>
    BY <1>1, <1>5, <2>1 DEF SaveRequest, StoreOK
  <2>3. StoreOK'
    BY <1>1, <2>2, Passing DEF StoreOK
  <2> QED BY <1>1, <1>5, <2>1, <2>2, <2>3, RequestTypes DEF SaveRequest, RestOK, loop
<1>6. CASE CommitRequest(r)
  <2>1. ref[r] \in Objs
    BY <1>1, <1>6 DEF CommitRequest, Phases
  <2>2. StoreOK' /\ ref' = ref
    BY <1>1, <1>6, Committing DEF CommitRequest
  <2> QED BY <1>1, <1>6, <2>1, <2>2, RequestTypes DEF CommitRequest, RestOK, loop
<1>7. CASE FailRequest(r)
  <2>1. StoreOK' /\ \A b \in Actors : b # r => ref'[b] = ref[b]
    BY <1>1, <1>7, Failing DEF FailRequest
  <2> QED BY <1>1, <1>7, <2>1, RequestTypes DEF FailRequest, RestOK, loop
<1>8. CASE FinishRequest(r)
  <2>1. StoreOK' /\ \A b \in Actors : b # r => ref'[b] = ref[b]
    BY <1>1, <1>8, Dropping DEF StoreOK, FinishRequest
  <2>2. /\ wpc' = wpc \/ (wpc = "off" /\ wpc' = "poll")
        /\ bound' \in BOOLEAN
        /\ UNCHANGED <<job, result, rechecks>>
    BY <1>1, <1>8 DEF FinishRequest, StartWorker, DontStart, loop, RestOK
  <2>3. mustStart' \in [Requests -> BOOLEAN]
    BY <1>1, <1>8 DEF FinishRequest, RestOK
  <2> QED BY <1>1, <1>8, <2>1, <2>2, <2>3, RequestTypes DEF FinishRequest
<1> QED BY <1>2, <1>3, <1>4, <1>5, <1>6, <1>7, <1>8 DEF RequestStep

\* A step of the worker keeps the types.
LEMMA LoopStepTypes ==
  ASSUME TInv,
         \/ LoopStep \/ StartExecution \/ CommitOutcome \/ FailOutcome \/ FinishDelivery
         \/ CommitProgress \/ ReportProgress
  PROVE  TInv'
<1> USE DEF WPcs, Working, AtWork
<1>1. /\ StoreOK /\ RestOK /\ Phases
      /\ Worker \in Actors /\ Worker \in Writers /\ Progress \in Writers
      /\ GetSession \in Session /\ Got \in Objs
  BY TypesApart, Getting DEF Actors, Writers
<1>2. CASE ClaimJob
  <2> DEFINE s == markQueuedJobRunning(GetSession, job')
  <2>1. s \in Session /\ job' \in Jobs
    BY <1>1, <1>2, Claiming DEF ClaimJob
  <2>2. Take(Worker, s) /\ SetSession(Worker, s) /\ file' = file
    BY <1>2 DEF ClaimJob
  <2> HIDE DEF s
  <2>3. StoreOK' /\ ref'[Worker] \in Objs /\ \A b \in Actors : b # Worker => ref'[b] = ref[b]
    BY <1>1, <2>1, <2>2, Taking, Passing DEF StoreOK
  <2> QED BY <1>1, <1>2, <2>1, <2>3, WorkerTypes DEF ClaimJob, Step, RestOK, history
<1>3. CASE LeaveQueue
  BY <1>1, <1>3, WorkerTypes DEF LeaveQueue, Step, RestOK, history, store, StoreOK, Phases
<1>4. CASE RecheckQueue
  <2>1. wpc' \in {wpc, "poll"} /\ bound' \in BOOLEAN /\ (wpc' # wpc => wpc' = "poll")
    BY <1>1, <1>4 DEF RecheckQueue, RestOK
  <2>2. UNCHANGED <<file, mem, heap, ref, out, ipc, mustStart, job,
                    result, started, sent, crashes, setting>>
    BY <1>4 DEF RecheckQueue, store, history
  <2>3. rechecks' \in Nat
    BY <1>1, <1>4 DEF RecheckQueue, RestOK
  <2>4. StoreOK'
    BY <1>1, <2>2 DEF StoreOK
  <2> QED BY <1>1, <2>1, <2>2, <2>3, <2>4, WorkerTypes DEF RestOK, Phases
<1>5. CASE \E r \in Results : SettleExecution(r)
  <2>1. PICK r \in Results : SettleExecution(r)
    BY <1>5
  <2> DEFINE s == [heap[ref[Worker]] EXCEPT !.recent[job] = Ended(@, r)]
  <2>2. ref[Worker] \in Objs /\ job \in Jobs
    BY <1>1, <2>1 DEF SettleExecution, Phases
  <2>3. s \in Session
    BY <1>1, <2>2, Settling DEF StoreOK, Rewritten
  <2>4. Update(Worker, s) /\ file' = file /\ out' = out
    BY <2>1 DEF SettleExecution
  <2> HIDE DEF s
  <2>5. StoreOK' /\ ref' = ref
    BY <1>1, <2>2, <2>3, <2>4, Updating DEF StoreOK
  <2> QED BY <1>1, <2>1, <2>2, <2>5, WorkerTypes DEF SettleExecution, Step, RestOK, history
<1>6. CASE ReadOutcomeSession
  <2>1. StoreOK' /\ ref'[Worker] \in Objs /\ \A b \in Actors : b # Worker => ref'[b] = ref[b]
    BY <1>1, <1>6, Taking DEF StoreOK, ReadOutcomeSession
  <2> QED BY <1>1, <1>6, <2>1, WorkerTypes DEF ReadOutcomeSession, Step, RestOK, history, Phases
<1>7. CASE RecordOutcome
  <2> DEFINE s == persistExecutedJobOutcome(heap[ref[Worker]], job, result)
  <2>1. ref[Worker] \in Objs /\ job \in Jobs
    BY <1>1, <1>7 DEF RecordOutcome, Phases
  <2>2. s \in Session
    BY <1>1, <2>1, Recording DEF StoreOK, RestOK, Rewritten
  <2>3. Update(Worker, s) /\ file' = file /\ out' = out
    BY <1>7 DEF RecordOutcome
  <2> HIDE DEF s
  <2>4. StoreOK' /\ ref' = ref
    BY <1>1, <2>1, <2>2, <2>3, Updating DEF StoreOK
  <2> QED BY <1>1, <1>7, <2>1, <2>4, WorkerTypes DEF RecordOutcome, Step, RestOK, history
<1>8. CASE SaveOutcome
  <2>1. ref[Worker] \in Objs /\ job \in Jobs
    BY <1>1, <1>8 DEF SaveOutcome, Phases
  <2>2. /\ SetSession(Worker, heap[ref[Worker]]) /\ heap[ref[Worker]] \in Session
        /\ UNCHANGED <<file, mem, heap, ref>>
    BY <1>1, <1>8, <2>1 DEF SaveOutcome, StoreOK
  <2>3. StoreOK'
    BY <1>1, <2>2, Passing DEF StoreOK
  <2> QED BY <1>1, <1>8, <2>1, <2>2, <2>3, WorkerTypes DEF SaveOutcome, Step, RestOK, history
<1>9. CASE SalvageOutcome
  <2> DEFINE s == recoverPostExecutionPersistenceFailure(GetSession, job, result)
  <2>1. job \in Jobs
    BY <1>1, <1>9 DEF SalvageOutcome, Phases
  <2>2. s \in Session
    BY <1>1, <2>1, Salvaging DEF RestOK, Rewritten
  <2>3. Take(Worker, s) /\ SetSession(Worker, s) /\ file' = file
    BY <1>9 DEF SalvageOutcome
  <2> HIDE DEF s
  <2>4. StoreOK' /\ ref'[Worker] \in Objs /\ \A b \in Actors : b # Worker => ref'[b] = ref[b]
    BY <1>1, <2>2, <2>3, Taking, Passing DEF StoreOK
  <2> QED BY <1>1, <1>9, <2>1, <2>4, WorkerTypes DEF SalvageOutcome, Step, RestOK, history
<1>10. CASE CloseQuietly \/ \E ok \in BOOLEAN : SendFinal(ok)
  <2>1. ref[Worker] \in Objs /\ job \in Jobs
    BY <1>1, <1>10 DEF CloseQuietly, SendFinal, Phases
  <2>2. PICK ok \in BOOLEAN :
           /\ Update(Worker, finalDelivery(heap[ref[Worker]], job, ok))
           /\ SetSession(Worker, finalDelivery(heap[ref[Worker]], job, ok))
    <3>1. CASE CloseQuietly
      BY <3>1 DEF CloseQuietly
    <3>2. CASE \E ok \in BOOLEAN : SendFinal(ok)
      BY <3>2 DEF SendFinal
    <3> QED BY <1>10, <3>1, <3>2
  <2> DEFINE Rest ==
        /\ sent' \in [Jobs -> Nat] /\ Step("delivered")
        /\ UNCHANGED <<file, ipc, mustStart, job, result, rechecks, bound, started,
                       crashes, setting>>
  <2>3. Rest
    <3>1. CASE CloseQuietly
      BY <1>1, <3>1 DEF CloseQuietly, RestOK, history
    <3>2. ASSUME NEW got \in BOOLEAN, SendFinal(got) PROVE Rest
      BY <1>1, <2>1, <3>2 DEF SendFinal, RestOK
    <3> QED BY <1>10, <3>1, <3>2
  <2> DEFINE s == finalDelivery(heap[ref[Worker]], job, ok)
  <2>4. s \in Session
    BY <1>1, <2>1, Delivering DEF StoreOK, Rewritten
  <2> HIDE DEF s
  <2>5. StoreOK' /\ ref' = ref
    BY <1>1, <2>1, <2>2, <2>3, <2>4, Updating, Passing DEF StoreOK, s
  <2> QED BY <1>1, <2>1, <2>3, <2>5, WorkerTypes DEF Step, RestOK
<1>11. CASE ReadDelivery
  <2>1. CASE Step("send") /\ Take(Worker, GetSession) /\ UNCHANGED <<job, result>>
    <3>1. StoreOK' /\ ref'[Worker] \in Objs /\ \A b \in Actors : b # Worker => ref'[b] = ref[b]
      BY <1>1, <1>11, <2>1, Taking DEF StoreOK, ReadDelivery
    <3> QED BY <1>1, <1>11, <2>1, <3>1, WorkerTypes DEF ReadDelivery, Step, RestOK, history, Phases
  <2>2. CASE NextJob /\ UNCHANGED <<mem, heap, ref>>
    <3>1. StoreOK'
      BY <1>1, <1>11, <2>2 DEF StoreOK, ReadDelivery
    <3> QED BY <1>1, <1>11, <2>2, <3>1, WorkerTypes
            DEF ReadDelivery, NextJob, Step, RestOK, history, Results
  <2> QED BY <1>11, <2>1, <2>2 DEF ReadDelivery
<1>12. CASE StartExecution
  <2>1. StoreOK' /\ ref' = ref
    BY <1>1, <1>12, Committing DEF StartExecution
  <2>2. started' \in [Jobs -> Nat]
    BY <1>1, <1>12 DEF StartExecution, RestOK, Phases
  <2> QED BY <1>1, <1>12, <2>1, <2>2, WorkerTypes DEF StartExecution, Step, RestOK, Phases
<1>13. CASE CommitOutcome
  <2>1. CASE Commit(Worker, ref) /\ Step("quiet")
    <3>1. StoreOK' /\ ref' = ref
      BY <1>1, <2>1, Committing
    <3> QED BY <1>1, <1>13, <2>1, <3>1, WorkerTypes DEF CommitOutcome, Step, RestOK, history, Phases
  <2>2. CASE Commit(Worker, Without(Worker)) /\ Step("deliver")
    <3>1. StoreOK' /\ \A b \in Actors : b # Worker => ref'[b] = ref[b]
      BY <1>1, <2>2, Committing DEF Without
    <3> QED BY <1>1, <1>13, <2>2, <3>1, WorkerTypes DEF CommitOutcome, Step, RestOK, history, Phases
  <2> QED BY <1>13, <2>1, <2>2 DEF CommitOutcome
<1>14. CASE FailOutcome
  <2>1. StoreOK' /\ \A b \in Actors : b # Worker => ref'[b] = ref[b]
    BY <1>1, <1>14, Failing DEF FailOutcome
  <2> QED BY <1>1, <1>14, <2>1, WorkerTypes DEF FailOutcome, Step, RestOK, history, Phases
<1>15. CASE FinishDelivery
  <2>1. StoreOK' /\ \A b \in Actors : b # Worker => ref'[b] = ref[b]
    BY <1>1, <1>15, Committing DEF FinishDelivery
  <2> QED BY <1>1, <1>15, <2>1, WorkerTypes
          DEF FinishDelivery, NextJob, Step, RestOK, history, Results
<1>16. CASE CommitProgress
  <2>1. StoreOK' /\ ref' = ref
    BY <1>1, <1>16, Committing DEF CommitProgress
  <2> QED BY <1>1, <1>16, <2>1, WorkerTypes DEF CommitProgress, RestOK, history, loop, Phases
<1>17. CASE ReportProgress
  <2>1. StoreOK'
    BY <1>1, <1>17, Passing DEF StoreOK, ReportProgress
  <2> QED BY <1>1, <1>17, <2>1, WorkerTypes DEF ReportProgress, RestOK, history, loop, Phases
<1> QED BY <1>2, <1>3, <1>4, <1>5, <1>6, <1>7, <1>8, <1>9, <1>10, <1>11, <1>12, <1>13, <1>14,
           <1>15, <1>16, <1>17 DEF LoopStep

\* Every step keeps the types; so do the reload for another conversation and a crash.
LEMMA NextTInv == TInv /\ [Next]_vars => TInv'
<1> SUFFICES ASSUME TInv, [Next]_vars PROVE TInv'
  OBVIOUS
<1>1. StoreOK /\ RestOK /\ Phases
  BY TypesApart
<1>2. CASE OtherConversationSaves
  <2>1. StoreOK' /\ ref' = ref
    BY <1>1, <1>2, Remembering DEF StoreOK, OtherConversationSaves
  <2>2. RestOK'
    BY <1>1, <1>2 DEF OtherConversationSaves, RestOK, loop, history, MaxCrashes
  <2>3. Phases'
    BY <1>1, <1>2, <2>1 DEF OtherConversationSaves, Phases, AtWork, loop, StoreOK
  <2> QED BY <2>1, <2>2, <2>3, TypesApart, PTL
<1>3. CASE Crash
  <2>1. 1 \in Objs /\ MaxCrashes \in Nat
    BY <1>1, NumJobsType, OptionsType DEF Objs, RestOK, Setting, MaxCrashes
  <2>2. StoreOK'
    BY <1>1, <1>3, <2>1, EmptyOne DEF StoreOK, Crash
  <2>3. ipc' \in [Requests -> IPcs] /\ wpc' \in WPcs /\ result' \in Results
    BY <1>1, <1>3 DEF Crash, RestOK, IPcs, WPcs, Results
  <2>4. mustStart' \in [Requests -> BOOLEAN] /\ bound' \in BOOLEAN
    BY <1>3, Zenon DEF Crash
  <2>5. RestOK'
    BY <1>1, <1>3, <2>1, <2>3, <2>4 DEF Crash, RestOK, MaxCrashes
  <2>6. Phases'
    BY <1>1, <1>3, <2>1 DEF Crash, Phases, AtWork, Holding, Working, RestOK
  <2> QED BY <2>2, <2>5, <2>6, TypesApart, PTL
<1>4. CASE UNCHANGED vars
  BY <1>4 DEF TInv, TypeOK, Phases, AtWork, MaxCrashes, vars, store, loop, history
<1> QED BY <1>2, <1>3, <1>4, RequestStepTypes, LoopStepTypes DEF Next, Commits

\* So the types, with who holds what, hold of every behaviour over either store.
LEMMA TypesHold == Spec => []TInv
BY InitTInv, NextTInv, PTL DEF Spec

\* Every variable keeps its type, for any number and mix of requests over either store.
THEOREM Typing == Spec => []TypeOK
<1>1. TInv => TypeOK
  BY DEF TInv
<1> QED BY <1>1, TypesHold, PTL

-----------------------------------------------------------------------------
\* The invariant over the JSON store, and what a step must show to keep it.

\* Every copy of the session: in the file, in an object, or on its way to the store.
Sessions ==
  {file} \cup {heap[o] : o \in Objs} \cup {Head(out[a]) : a \in {b \in Writers : out[b] # <<>>}}

SoundSessions == \A s \in Sessions : Sound(s)

\* A request that has not enqueued its job yet is unknown to every copy of the session.
Unknown ==
  \A r \in Requests : ipc[r] \in {"idle", "routing"} => \A s \in Sessions : r \notin Known(s)

\* The store's object has everything that is in the file.
Ahead == Keeps(file, heap[mem])

\* Without a crash: what runs in any copy is in the worker's hand or has ended in the file.
InHand(j) == (AtWork /\ job = j) \/ IsTerminal(file.recent[j])

RunningInHand ==
  crashes = 0 => \A s \in Sessions : \A j \in Jobs : s.recent[j].status = "running" => InHand(j)

FileRuns == file.running # NoJob => file.recent[file.running].status = "running"

\* The job of a request is in its object, then in its copy, then in the file.
RequestInv(r) ==
  /\ ipc[r] = "turn" => Enqueues(r) /\ r \in Known(heap[ref[r]])
  /\ ipc[r] = "saving" /\ Enqueues(r) /\ out[r] # <<>> => r \in Known(Head(out[r]))
  /\ ipc[r] \in {"saved", "done"} /\ Enqueues(r) => r \in Known(file)

\* The worker's object has its job's record, later its end; so has its copy, then the file.
WorkerInv ==
  /\ wpc = "claim" => started[job] = 0
  /\ wpc = "claim" /\ out[Worker] # <<>> => Present(Head(out[Worker]), job)
  /\ AtWork /\ wpc # "claim" => started[job] = 1
  /\ AtWork /\ wpc # "delivered" => sent[job] = 0
  /\ wpc \in {"claim", "exec", "record"} => Present(heap[ref[Worker]], job)
  /\ wpc \in {"recall", "store", "salvage", "quiet", "send"} =>
       IsTerminal(heap[ref[Worker]].recent[job])
  /\ wpc \in {"store", "salvage"} /\ out[Worker] # <<>> =>
       IsTerminal(Head(out[Worker]).recent[job])
  /\ wpc \in {"deliver", "quiet", "send", "delivered"} => IsTerminal(file.recent[job])
  /\ wpc = "delivered" /\ out[Worker] # <<>> => Settled(Head(out[Worker]).recent[job])

\* What was started is in the file, and was started once; what was delivered is so there.
Recorded(j) ==
  /\ started[j] <= 1
  /\ started[j] = 1 => Present(file, j)
  /\ started[j] = 0 => sent[j] = 0
  /\ sent[j] <= 1
  /\ sent[j] = 1 /\ crashes = 0 => (wpc = "delivered" /\ job = j) \/ Settled(file.recent[j])

Copies == SoundSessions /\ Unknown /\ RunningInHand /\ FileRuns

SInv ==
  /\ Ahead
  /\ Copies
  /\ \A r \in Requests : RequestInv(r)
  /\ WorkerInv
  /\ \A j \in Jobs : Recorded(j)

\* Keeping what one session has is transitive.
LEMMA KeepsOn == ASSUME NEW s, NEW t, NEW u, Keeps(s, t), Keeps(t, u) PROVE Keeps(s, u)
BY DEF Keeps

\* The sessions after a step: those before, and one more.
LEMMA OneMore ==
  ASSUME StoreOK, NEW s, OnlyNew(s), file' \in {file, s},
         \A b \in Writers : out'[b] \in {out[b], <<>>, <<s>>}
  PROVE  Sessions' \subseteq Sessions \cup {EmptySession, s}
<1>1. {heap[o] : o \in Objs}' \subseteq Sessions \cup {EmptySession, s}
  BY DEF OnlyNew, Sessions
<1>2. ASSUME NEW b \in Writers, out'[b] # <<>>
      PROVE Head(out'[b]) \in Sessions \cup {EmptySession, s}
  <2>1. CASE out'[b] = out[b]
    BY <1>2, <2>1 DEF Sessions
  <2>2. CASE out'[b] = <<s>>
    BY <2>2
  <2> QED BY <1>2, <2>1, <2>2
<1>3. Sessions' = {file'} \cup {heap[o] : o \in Objs}'
                    \cup {Head(out'[a]) : a \in {b \in Writers : out'[b] # <<>>}}
  BY DEF Sessions
<1> QED BY <1>1, <1>2, <1>3 DEF Sessions

\* So the invariants about all copies hold after a step, if they do of the one it makes.
LEMMA CopiesKept ==
  ASSUME Copies, NEW s, Sessions' \subseteq Sessions \cup {EmptySession, s}, Sound(s),
         \A r \in Requests : ipc'[r] \in {"idle", "routing"} =>
            ipc[r] \in {"idle", "routing"} /\ r \notin Known(s),
         crashes' = crashes,
         crashes = 0 => \A j \in Jobs : InHand(j) => InHand(j)',
         crashes = 0 => \A j \in Jobs : s.recent[j].status = "running" =>
            InHand(j)' \/ \E t \in Sessions : t.recent[j].status = "running",
         FileRuns'
  PROVE  Copies'
<1>1. SoundSessions'
  BY EmptyOne DEF Copies, SoundSessions
<1>2. Unknown'
  <2> SUFFICES ASSUME NEW r \in Requests, ipc'[r] \in {"idle", "routing"}, NEW t \in Sessions'
               PROVE  r \notin Known(t)
    BY DEF Unknown
  <2> QED BY EmptyOne DEF Copies, Unknown
<1>3. RunningInHand'
  <2> SUFFICES ASSUME crashes = 0, NEW t \in Sessions', NEW j \in Jobs,
                      t.recent[j].status = "running"
               PROVE  InHand(j)'
    BY DEF RunningInHand
  <2>1. EmptySession.recent[j].status = "absent"
    BY DEF EmptySession, Absent
  <2> QED BY <2>1 DEF Copies, RunningInHand
<1> QED BY <1>1, <1>2, <1>3 DEF Copies

\* A request that does not move keeps its invariant, if its object and the file keep theirs.
LEMMA RequestKept ==
  ASSUME TInv, NEW r \in Requests, RequestInv(r), ipc'[r] = ipc[r], out'[r] = out[r],
         setting' = setting, Grown(r), Keeps(file, file')
  PROVE  RequestInv(r)'
<1>1. ipc[r] = "turn" => ref[r] \in Objs
  BY DEF TInv, Phases, Holding
<1>2. Known(file) \subseteq Known(file')
  BY DEF Keeps
<1>3. ipc[r] = "turn" => Known(heap[ref[r]]) \subseteq Known(heap'[ref'[r]])
  BY <1>1 DEF Grown, Keeps
<1> QED BY <1>2, <1>3 DEF RequestInv, Enqueues, KindOf

\* So does the worker.
LEMMA WorkerKept ==
  ASSUME TInv, WorkerInv, wpc' = wpc, job' = job, out'[Worker] = out[Worker],
         UNCHANGED <<started, sent>>, Grown(Worker), Keeps(file, file')
  PROVE  WorkerInv'
<1>1. AtWork => job \in Jobs
  BY DEF TInv, Phases
<1>2. wpc \in {"claim", "exec", "record", "recall", "store", "salvage", "quiet", "send"} =>
        /\ Present(heap[ref[Worker]], job) => Present(heap'[ref'[Worker]], job)
        /\ IsTerminal(heap[ref[Worker]].recent[job]) => IsTerminal(heap'[ref'[Worker]].recent[job])
  <2> SUFFICES ASSUME wpc \in {"claim", "exec", "record", "recall", "store", "salvage",
                              "quiet", "send"}
               PROVE  ref[Worker] \in Objs /\ job \in Jobs
    BY DEF Grown, Keeps
  <2> QED BY DEF TInv, Phases, Working, AtWork
<1>3. AtWork /\ IsTerminal(file.recent[job]) => IsTerminal(file'.recent[job])
  BY <1>1 DEF Keeps
<1> QED BY <1>2, <1>3 DEF WorkerInv, AtWork

\* Nothing that was recorded is lost from the file, or started or sent meanwhile.
LEMMA RecordsKept ==
  ASSUME NEW j \in Jobs, Recorded(j), UNCHANGED <<started, sent, crashes>>,
         Present(file, j) => Present(file', j), Settled(file.recent[j]) => Settled(file'.recent[j]),
         wpc = "delivered" /\ job = j =>
           (wpc' = "delivered" /\ job' = j) \/ Settled(file'.recent[j])
  PROVE  Recorded(j)'
BY DEF Recorded

\* What a write merges into the file keeps both, is known to no one new and starts nothing.
LEMMA MergedCopy ==
  ASSUME StoreOK, Copies, Backend = "json", NEW a \in Writers, out[a] # <<>>
  PROVE  LET i == Head(out[a])
             m == Merged(a)
         IN  /\ i \in Sessions /\ m \in Session /\ Sound(m)
             /\ Keeps(file, m) /\ Keeps(i, m)
             /\ \A j \in Jobs : Settled(file.recent[j]) \/ Settled(i.recent[j])
                    => Settled(m.recent[j])
             /\ m.running # NoJob => m.recent[m.running].status = "running"
             /\ \A r \in Requests : ipc[r] \in {"idle", "routing"} => r \notin Known(m)
             /\ \A j \in Jobs : m.recent[j].status = "running" =>
                  \E t \in Sessions : t.recent[j].status = "running"
<1> DEFINE i == Head(out[a])
           m == Merged(a)
<1>1. /\ i \in Sessions /\ i \in Session /\ file \in Sessions /\ file \in Session
      /\ m = mergeConversationSession(file, i)
  BY DEF StoreOK, Sessions, Merged
<1>2. Sound(i) /\ Sound(file)
  BY <1>1 DEF Copies, SoundSessions
<1> HIDE DEF i, m
<1>3. /\ m \in Session
      /\ Known(m) = Known(file) \cup Known(i)
      /\ \A j \in Jobs :
           /\ m.recent[j] \in {file.recent[j], i.recent[j]}
           /\ Present(m, j) <=> Present(file, j) \/ Present(i, j)
           /\ IsTerminal(file.recent[j]) \/ IsTerminal(i.recent[j]) => IsTerminal(m.recent[j])
           /\ Settled(file.recent[j]) \/ Settled(i.recent[j]) => Settled(m.recent[j])
  BY <1>1, Merging
<1>4. Sound(m) /\ (m.running # NoJob => m.recent[m.running].status = "running")
  BY <1>1, <1>2, MergedSound
<1>5. \A r \in Requests : ipc[r] \in {"idle", "routing"} => r \notin Known(m)
  BY <1>1, <1>3 DEF Copies, Unknown
<1>6. Keeps(file, m) /\ Keeps(i, m)
  BY <1>3 DEF Keeps
<1>7. \A j \in Jobs : m.recent[j].status = "running" =>
        \E t \in Sessions : t.recent[j].status = "running"
  BY <1>1, <1>3
<1> QED BY <1>1, <1>3, <1>4, <1>5, <1>6, <1>7 DEF i, m

\* The same of the file after a write.
LEMMA CommitKeeps ==
  ASSUME StoreOK, Copies, Backend = "json",
         NEW a \in Writers, NEW refs \in {ref, Without(Worker)}, Commit(a, refs)
  PROVE  /\ out[a] # <<>> /\ Ahead' /\ FileRuns' /\ Sound(file')
         /\ Keeps(file, file') /\ Keeps(Head(out[a]), file')
         /\ \A j \in Jobs : Settled(file.recent[j]) \/ Settled(Head(out[a]).recent[j])
                              => Settled(file'.recent[j])
         /\ Sessions' \subseteq Sessions \cup {EmptySession, file'}
         /\ \A r \in Requests : ipc[r] \in {"idle", "routing"} => r \notin Known(file')
         /\ \A j \in Jobs : file'.recent[j].status = "running" =>
              \E t \in Sessions : t.recent[j].status = "running"
         /\ \A b \in Writers : b # a => out'[b] = out[b]
<1>1. out[a] # <<>>
  BY DEF Commit
<1>2. /\ file' = Merged(a) /\ out' = [out EXCEPT ![a] = <<>>]
      /\ heap'[mem'] = file' /\ OnlyNew(file')
  BY Committing
<1>3. \A b \in Writers : out'[b] \in {out[b], <<>>} /\ (b # a => out'[b] = out[b])
  BY <1>2 DEF StoreOK
<1>4. Sessions' \subseteq Sessions \cup {EmptySession, file'}
  BY <1>2, <1>3, OneMore
<1>5. Ahead'
  BY <1>2 DEF Ahead, Keeps
<1> QED BY <1>1, <1>2, <1>3, <1>4, <1>5, MergedCopy DEF FileRuns

\* What a write that throws leaves, one session s being new.
FailedWrite(a) ==
  \E s \in Session :
    /\ Sessions' \subseteq Sessions \cup {EmptySession, s} /\ Sound(s)
    /\ \A r \in Requests : ipc[r] \in {"idle", "routing"} => r \notin Known(s)
    /\ \A j \in Jobs : s.recent[j].status = "running" =>
         \E t \in Sessions : t.recent[j].status = "running"
    /\ file' = file /\ Ahead'
    /\ \A b \in Actors : b # a => Grown(b)
    /\ \A b \in Writers : b # a => out'[b] = out[b]

\* Either nothing, or the merge of the copy in the store's object.
LEMMA FailingKeeps ==
  ASSUME StoreOK, Copies, Ahead, Backend = "json", NEW a \in Actors, FailCommit(a)
  PROVE  FailedWrite(a)
<1>1. /\ file' = file /\ out' = [out EXCEPT ![a] = <<>>] /\ out[a] # <<>> /\ a \in Writers
      /\ \A b \in Actors : b # a => Grown(b)
  BY Failing DEF Writers
<1>2. \A b \in Writers : out'[b] \in {out[b], <<>>} /\ (b # a => out'[b] = out[b])
  BY <1>1 DEF StoreOK
<1>3. CASE OnlyNew(EmptySession) /\ heap'[mem'] = heap[mem]
  <2>1. Sessions' \subseteq Sessions \cup {EmptySession, EmptySession}
    BY <1>1, <1>2, <1>3, OneMore
  <2>2. \A j \in Jobs : EmptySession.recent[j].status # "running"
    BY DEF EmptySession, Absent
  <2>3. Ahead'
    BY <1>1, <1>3 DEF Ahead
  <2> QED BY <1>1, <1>2, <2>1, <2>2, <2>3, EmptyOne DEF FailedWrite
<1>4. CASE OnlyNew(Merged(a)) /\ heap'[mem'] = Merged(a)
  <2>1. Sessions' \subseteq Sessions \cup {EmptySession, Merged(a)}
    BY <1>1, <1>2, <1>4, OneMore
  <2>2. /\ Merged(a) \in Session /\ Sound(Merged(a)) /\ Keeps(file, Merged(a))
        /\ \A r \in Requests : ipc[r] \in {"idle", "routing"} => r \notin Known(Merged(a))
        /\ \A j \in Jobs : Merged(a).recent[j].status = "running" =>
             \E t \in Sessions : t.recent[j].status = "running"
    BY <1>1, MergedCopy
  <2>3. Ahead'
    BY <1>1, <1>4, <2>2 DEF Ahead
  <2> QED BY <1>1, <1>2, <2>1, <2>2, <2>3 DEF FailedWrite
<1> QED BY <1>3, <1>4, Failing

\* The invariant after a step of actor a, from what the step must show.
LEMMA Stepping ==
  ASSUME TInv, SInv, NEW a \in Writers, NEW s, Sessions' \subseteq Sessions \cup {EmptySession, s},
         Sound(s),
         \A r \in Requests : ipc'[r] \in {"idle", "routing"} =>
            ipc[r] \in {"idle", "routing"} /\ r \notin Known(s),
         UNCHANGED <<setting, crashes>>,
         crashes = 0 => \A j \in Jobs : InHand(j) => InHand(j)',
         crashes = 0 => \A j \in Jobs : s.recent[j].status = "running" =>
            InHand(j)' \/ \E t \in Sessions : t.recent[j].status = "running",
         FileRuns', Ahead', Keeps(file, file'),
         \A b \in Actors : b # a => Grown(b),
         \A r \in Requests : r # a => ipc'[r] = ipc[r] /\ out'[r] = out[r],
         a \in Requests => RequestInv(a)', WorkerInv', \A j \in Jobs : Recorded(j)'
  PROVE  SInv'
<1>1. Copies'
  BY CopiesKept DEF SInv
<1>2. \A r \in Requests : RequestInv(r)'
  <2> SUFFICES ASSUME NEW r \in Requests, r # a PROVE RequestInv(r)'
    OBVIOUS
  <2>1. RequestInv(r) /\ r \in Actors
    BY DEF SInv, Actors
  <2> QED BY <2>1, RequestKept
<1> QED BY <1>1, <1>2 DEF SInv

-----------------------------------------------------------------------------
\* The steps of a request.

\* The invariant after a step of a request: the worker has not moved, or its loop began.
LEMMA RequestStepping ==
  ASSUME TInv, SInv, NEW r \in Requests, NEW s, Sessions' \subseteq Sessions \cup {EmptySession, s},
         Sound(s),
         \A q \in Requests : ipc'[q] \in {"idle", "routing"} =>
            ipc[q] \in {"idle", "routing"} /\ q \notin Known(s),
         \A j \in Jobs : s.recent[j].status = "running" =>
            \E t \in Sessions : t.recent[j].status = "running",
         UNCHANGED <<job, history>>, wpc' = wpc \/ (wpc = "off" /\ wpc' = "poll"),
         FileRuns', Ahead', Keeps(file, file'),
         \A j \in Jobs : Settled(file.recent[j]) => Settled(file'.recent[j]),
         \A b \in Actors : b # r => Grown(b),
         \A b \in Writers : b # r => out'[b] = out[b],
         \A q \in Requests : q # r => ipc'[q] = ipc[q],
         RequestInv(r)'
  PROVE  SInv'
<1>1. /\ Worker \in Actors /\ Worker \in Writers /\ Worker # r /\ r \in Writers
      /\ Requests \subseteq Writers
  BY DEF Actors, Writers, Requests, Jobs, Worker
<1>2. UNCHANGED <<started, sent, crashes, setting>>
  BY DEF history
<1>3. WorkerInv'
  <2>1. CASE wpc' = wpc
    BY <1>1, <1>2, <2>1, WorkerKept DEF SInv
  <2>2. CASE wpc' = "poll"
    BY <2>2 DEF WorkerInv, AtWork
  <2> QED BY <2>1, <2>2
<1>4. \A j \in Jobs : InHand(j) => InHand(j)'
  BY DEF InHand, AtWork, Keeps
<1>5. \A j \in Jobs : Recorded(j)'
  BY <1>2, RecordsKept DEF SInv, Keeps
<1> QED BY <1>1, <1>2, <1>3, <1>4, <1>5, Stepping

\* A request's step keeps the invariant over the JSON store.
LEMMA RequestStepSInv ==
  ASSUME TInv, SInv, Backend = "json",
         NEW r \in Requests, RequestStep(r) \/ CommitRequest(r) \/ FailRequest(r)
  PROVE  SInv'
<1>1. /\ StoreOK /\ RestOK /\ Phases /\ r \in Actors /\ r \in Writers /\ r \in Jobs
      /\ mem \in Objs /\ GetSession = heap[mem] /\ heap[mem] \in Session
      /\ heap[mem] \in Sessions /\ EmptySession \in Session
  BY TypesApart, EmptyOne DEF Actors, Writers, Requests, StoreOK, GetSession, Sessions
<1>2. Copies /\ Ahead /\ FileRuns /\ RequestInv(r) /\ \A s \in Sessions : Sound(s)
  BY DEF SInv, Copies, SoundSessions
<1>3. \A q \in Requests : ipc[q] \in {"idle", "routing"} => \A s \in Sessions : q \notin Known(s)
  BY <1>2 DEF Copies, Unknown
<1>4. file' = file => /\ Keeps(file, file') /\ FileRuns'
                      /\ \A j \in Jobs : Settled(file.recent[j]) => Settled(file'.recent[j])
  BY <1>2, KeepsSame DEF FileRuns
<1>5. \A q \in Requests : q # r => \A l : Goto(r, l) => ipc'[q] = ipc[q]
  BY DEF Goto
<1>6. \A l : Goto(r, l) => ipc'[r] = l
  BY <1>1 DEF Goto, RestOK
<1>7. CASE ReceiveMessage(r)
  <2>1. PICK s \in Recoveries(GetSession) : Take(r, s)
    BY <1>7 DEF ReceiveMessage
  <2>2. s \in Session /\ Sound(s) /\ Keeps(heap[mem], s) /\ NothingNew(heap[mem], s)
    BY <1>1, <1>2, Recovering
  <2>3. /\ UNCHANGED <<file, out, mustStart, loop, history>> /\ Goto(r, "routing")
        /\ ipc[r] = "idle"
    BY <1>7 DEF ReceiveMessage, Arrives
  <2>4. /\ mem' = mem /\ OnlyNew(s) /\ heap'[mem] = s
        /\ \A b \in Actors : b # r => Grown(b)
    BY <1>1, <2>1, <2>2, Taking
  <2>5. Sessions' \subseteq Sessions \cup {EmptySession, s}
    BY <1>1, <2>3, <2>4, OneMore
  <2>6. Ahead'
    BY <1>2, <2>2, <2>3, <2>4, KeepsOn DEF Ahead
  <2>7. \A q \in Requests : ipc'[q] \in {"idle", "routing"} =>
           ipc[q] \in {"idle", "routing"} /\ q \notin Known(s)
    BY <1>1, <1>3, <1>5, <2>2, <2>3 DEF NothingNew
  <2>8. \A j \in Jobs : s.recent[j].status = "running" =>
           \E t \in Sessions : t.recent[j].status = "running"
    BY <1>1, <2>2 DEF NothingNew
  <2>9. RequestInv(r)'
    BY <1>6, <2>3 DEF RequestInv
  <2> QED BY <1>4, <1>5, <2>2, <2>3, <2>4, <2>5, <2>6, <2>7, <2>8, <2>9, RequestStepping DEF loop
<1>8. CASE EnqueueSystemJob(r)
  <2> DEFINE s == enqueueConversationJob(heap[mem], r)
  <2>1. /\ Take(r, s) /\ SetSession(r, s) /\ ipc[r] = "idle"
        /\ UNCHANGED <<file, mustStart, loop, history>> /\ Goto(r, "saving")
    BY <1>1, <1>8 DEF EnqueueSystemJob, Arrives
  <2>2. r \notin Known(heap[mem])
    BY <1>1, <1>3, <2>1
  <2>3. s \in Session /\ Sound(s) /\ s.recent = heap[mem].recent
        /\ Known(s) = Known(heap[mem]) \cup {r}
    BY <1>1, <1>2, <2>2, Enqueuing
  <2> HIDE DEF s
  <2>4. Keeps(heap[mem], s)
    BY <2>3 DEF Keeps, Present
  <2>5. /\ mem' = mem /\ OnlyNew(s) /\ heap'[mem] = s
        /\ \A b \in Actors : b # r => Grown(b)
    BY <1>1, <2>1, <2>3, <2>4, Taking
  <2>6. out'[r] = <<s>> /\ \A b \in Writers : b # r => out'[b] = out[b]
    BY <1>1, <2>1, <2>3, Passing
  <2>7. Sessions' \subseteq Sessions \cup {EmptySession, s}
    BY <1>1, <2>1, <2>5, <2>6, OneMore
  <2>8. Ahead'
    BY <1>2, <2>1, <2>4, <2>5, KeepsOn DEF Ahead
  <2>9. \A q \in Requests : ipc'[q] \in {"idle", "routing"} =>
           ipc[q] \in {"idle", "routing"} /\ q \notin Known(s)
    BY <1>1, <1>3, <1>5, <1>6, <2>1, <2>3
  <2>10. \A j \in Jobs : s.recent[j].status = "running" =>
            \E t \in Sessions : t.recent[j].status = "running"
    BY <1>1, <2>3
  <2>11. RequestInv(r)'
    BY <1>6, <2>1, <2>3, <2>6 DEF RequestInv
  <2> QED BY <1>4, <1>5, <2>1, <2>3, <2>5, <2>6, <2>7, <2>8, <2>9, <2>10, <2>11, RequestStepping
          DEF loop
<1>9. CASE EnqueueJob(r)
  <2> DEFINE e == heap[ref[r]]
             s == enqueueConversationJob(e, r)
  <2>1. /\ Update(r, s) /\ ipc[r] = "routing" /\ Enqueues(r)
        /\ UNCHANGED <<file, out, loop, history>> /\ Goto(r, "turn")
    BY <1>9 DEF EnqueueJob
  <2>2. ref[r] \in Objs
    BY <1>1, <2>1 DEF Phases, Holding
  <2>3. e \in Session /\ e \in Sessions /\ r \notin Known(e)
    BY <1>1, <1>3, <2>1, <2>2 DEF StoreOK, Sessions
  <2> HIDE DEF e
  <2>4. s \in Session /\ Sound(s) /\ s.recent = e.recent /\ Known(s) = Known(e) \cup {r}
    BY <1>1, <1>2, <2>3, Enqueuing
  <2> HIDE DEF s
  <2>5. Keeps(e, s)
    BY <2>4 DEF Keeps, Present
  <2>6. /\ mem' = mem /\ ref' = ref /\ OnlyNew(s) /\ heap'[ref[r]] = s
        /\ Keeps(heap[mem], heap'[mem]) /\ \A b \in Actors : Grown(b)
    BY <1>1, <2>1, <2>2, <2>4, <2>5, Updating DEF e
  <2>7. Sessions' \subseteq Sessions \cup {EmptySession, s}
    BY <1>1, <2>1, <2>6, OneMore
  <2>8. Ahead'
    BY <1>2, <2>1, <2>6, KeepsOn DEF Ahead
  <2>9. \A q \in Requests : ipc'[q] \in {"idle", "routing"} =>
           ipc[q] \in {"idle", "routing"} /\ q \notin Known(s)
    BY <1>3, <1>5, <1>6, <2>1, <2>3, <2>4
  <2>10. \A j \in Jobs : s.recent[j].status = "running" =>
            \E t \in Sessions : t.recent[j].status = "running"
    BY <2>3, <2>4
  <2>11. RequestInv(r)'
    BY <1>6, <2>1, <2>4, <2>6 DEF RequestInv, Enqueues, KindOf, history
  <2> QED BY <1>4, <1>5, <2>1, <2>4, <2>6, <2>7, <2>8, <2>9, <2>10, <2>11, RequestStepping
          DEF loop
<1>10. CASE SaveRequest(r)
  <2> DEFINE s == heap[ref[r]]
  <2>1. /\ SetSession(r, s) /\ ipc[r] \in {"turn", "routing"}
        /\ ipc[r] = "turn" \/ ~Enqueues(r)
        /\ UNCHANGED <<file, mem, heap, ref, loop, history>> /\ Goto(r, "saving")
    BY <1>10 DEF SaveRequest
  <2>2. ref[r] \in Objs
    BY <1>1, <2>1 DEF Phases, Holding
  <2>3. s \in Session /\ s \in Sessions /\ Sound(s)
    BY <1>1, <1>2, <2>2 DEF StoreOK, Sessions
  <2>4. Enqueues(r) => r \in Known(s)
    BY <1>2, <2>1 DEF RequestInv
  <2>5. \A b \in Actors : Grown(b)
    BY <2>1, KeepsSame DEF Grown
  <2>6. OnlyNew(s)
    BY <2>1 DEF OnlyNew
  <2> HIDE DEF s
  <2>7. out'[r] = <<s>> /\ \A b \in Writers : b # r => out'[b] = out[b]
    BY <1>1, <2>1, <2>3, Passing
  <2>8. Sessions' \subseteq Sessions \cup {EmptySession, s}
    BY <1>1, <2>1, <2>6, <2>7, OneMore
  <2>9. Ahead'
    BY <1>2, <2>1 DEF Ahead
  <2>10. \A q \in Requests : ipc'[q] \in {"idle", "routing"} =>
           ipc[q] \in {"idle", "routing"} /\ q \notin Known(s)
    BY <1>3, <1>5, <1>6, <2>1, <2>3
  <2>11. RequestInv(r)'
    BY <1>6, <2>1, <2>4, <2>7 DEF RequestInv, Enqueues, KindOf, history
  <2> QED BY <1>4, <1>5, <2>1, <2>3, <2>5, <2>7, <2>8, <2>9, <2>10, <2>11, RequestStepping
          DEF loop
<1>11. CASE CommitRequest(r)
  <2>1. /\ Commit(r, ref) /\ ipc[r] = "saving"
        /\ UNCHANGED <<loop, history>> /\ Goto(r, "saved")
    BY <1>11 DEF CommitRequest
  <2>2. \A b \in Actors : Grown(b)
    BY <1>1, <2>1, Committing
  <2>3. RequestInv(r)'
    <3>1. Keeps(Head(out[r]), file') /\ out[r] # <<>>
      BY <1>1, <1>2, <2>1, CommitKeeps
    <3> QED BY <1>2, <1>6, <2>1, <3>1 DEF RequestInv, Enqueues, KindOf, history, Keeps
  <2> QED BY <1>1, <1>2, <1>5, <1>6, <2>1, <2>2, <2>3, CommitKeeps, RequestStepping DEF loop
<1>12. CASE FailRequest(r)
  <2>1. /\ FailCommit(r) /\ ipc[r] = "saving"
        /\ UNCHANGED <<loop, history>> /\ Goto(r, "failed")
    BY <1>12 DEF FailRequest
  <2>2. RequestInv(r)'
    BY <1>6, <2>1 DEF RequestInv
  <2>3. FailedWrite(r)
    BY <1>1, <1>2, <2>1, FailingKeeps
  <2> QED BY <1>4, <1>5, <1>6, <2>1, <2>2, <2>3, RequestStepping DEF loop, FailedWrite
<1>13. CASE FinishRequest(r)
  <2>1. /\ Drop(r) /\ ipc[r] = "saved"
        /\ UNCHANGED <<file, out, history, job>> /\ Goto(r, "done")
        /\ wpc' = wpc \/ (wpc = "off" /\ wpc' = "poll")
    BY <1>13 DEF FinishRequest, StartWorker, DontStart, loop
  <2>2. /\ mem' = mem /\ heap'[mem] = heap[mem] /\ OnlyNew(EmptySession)
        /\ \A b \in Actors : b # r => Grown(b)
    BY <1>1, <2>1, Dropping
  <2>3. Sessions' \subseteq Sessions \cup {EmptySession, EmptySession}
    BY <1>1, <2>1, <2>2, OneMore
  <2>4. Ahead'
    BY <1>2, <2>1, <2>2 DEF Ahead
  <2>5. \A j \in Jobs : EmptySession.recent[j].status # "running"
    BY DEF EmptySession, Absent
  <2>6. RequestInv(r)'
    BY <1>2, <1>6, <2>1 DEF RequestInv, Enqueues, KindOf, history
  <2>7. \A q \in Requests : ipc'[q] \in {"idle", "routing"} => ipc[q] \in {"idle", "routing"}
    BY <1>5, <1>6, <2>1
  <2> QED BY <1>4, <1>5, <2>1, <2>2, <2>3, <2>4, <2>5, <2>6, <2>7, EmptyOne, RequestStepping
<1> QED BY <1>7, <1>8, <1>9, <1>10, <1>11, <1>12, <1>13 DEF RequestStep

-----------------------------------------------------------------------------
\* The steps of the worker.

\* The invariant after a step of the worker, or of its progress reports.
LEMMA WorkerStepping ==
  ASSUME TInv, SInv, NEW a \in {Worker, Progress},
         NEW s, Sessions' \subseteq Sessions \cup {EmptySession, s}, Sound(s),
         \A q \in Requests : ipc[q] \in {"idle", "routing"} => q \notin Known(s),
         UNCHANGED <<ipc, setting, crashes>>,
         \A j \in Jobs : InHand(j) => InHand(j)',
         \A j \in Jobs : s.recent[j].status = "running" =>
            InHand(j)' \/ \E t \in Sessions : t.recent[j].status = "running",
         FileRuns', Ahead', Keeps(file, file'),
         \A b \in Actors : b # a => Grown(b), \A b \in Writers : b # a => out'[b] = out[b],
         WorkerInv', \A j \in Jobs : Recorded(j)'
  PROVE  SInv'
<1>1. /\ a \in Writers /\ a \notin Requests /\ Requests \subseteq Actors
      /\ Requests \subseteq Writers
  BY NumJobsType DEF Actors, Writers, Requests, Jobs, Worker, Progress
<1> QED BY <1>1, Stepping

\* Nothing is lost by a step that leaves the sessions alone.
LEMMA Untouched ==
  ASSUME UNCHANGED store
  PROVE  /\ Sessions' = Sessions /\ Keeps(file, file')
         /\ \A b \in Actors : Grown(b)
         /\ \A b \in Writers : out'[b] = out[b]
         /\ (Ahead => Ahead') /\ (FileRuns => FileRuns')
BY KeepsSame DEF store, Sessions, Grown, Ahead, FileRuns

\* The claim of a job, and the loop's ways out of the queue.
LEMMA QueueStepSInv ==
  ASSUME TInv, SInv, Backend = "json", ClaimJob \/ LeaveQueue \/ RecheckQueue
  PROVE  SInv'
<1>1. /\ StoreOK /\ RestOK /\ Worker \in Actors /\ Worker \in Writers
      /\ mem \in Objs /\ GetSession = heap[mem] /\ heap[mem] \in Session /\ heap[mem] \in Sessions
      /\ Copies /\ Ahead /\ FileRuns /\ WorkerInv /\ \A s \in Sessions : Sound(s)
      /\ \A j \in Jobs : Recorded(j)
      /\ \A q \in Requests : ipc[q] \in {"idle", "routing"} => \A s \in Sessions : q \notin Known(s)
  BY TypesApart DEF Actors, Writers, StoreOK, GetSession, Sessions, SInv, Copies, SoundSessions,
                    Unknown
<1>2. CASE ClaimJob
  <2> DEFINE s == markQueuedJobRunning(heap[mem], job')
  <2>1. /\ wpc = "poll" /\ heap[mem].queue # <<>> /\ job' = Head(heap[mem].queue)
        /\ Take(Worker, s) /\ SetSession(Worker, s) /\ wpc' = "claim"
        /\ UNCHANGED <<file, ipc, started, sent, crashes, setting>>
    BY <1>1, <1>2 DEF ClaimJob, Step, history
  <2>2. /\ job' \in Jobs /\ s \in Session
        /\ \A k \in Jobs : k # job' => s.recent[k] = heap[mem].recent[k]
        /\ Present(s, job') /\ ~Present(heap[mem], job') /\ Sound(s) /\ Keeps(heap[mem], s)
        /\ Known(s) = Known(heap[mem])
    BY <1>1, <2>1, Claiming
  <2> HIDE DEF s
  <2>3. /\ mem' = mem /\ OnlyNew(s) /\ heap'[mem] = s /\ heap'[ref'[Worker]] = s
        /\ \A b \in Actors : b # Worker => Grown(b)
    BY <1>1, <2>1, <2>2, Taking
  <2>4. out'[Worker] = <<s>> /\ \A b \in Writers : b # Worker => out'[b] = out[b]
    BY <1>1, <2>1, <2>2, Passing
  <2>5. Sessions' \subseteq Sessions \cup {EmptySession, s}
    BY <1>1, <2>1, <2>3, <2>4, OneMore
  <2>6. Ahead' /\ FileRuns' /\ Keeps(file, file')
    BY <1>1, <2>1, <2>2, <2>3, KeepsOn, KeepsSame DEF Ahead, FileRuns
  <2>7. \A j \in Jobs : InHand(j) => InHand(j)'
    BY <2>1 DEF InHand, AtWork
  <2>8. \A j \in Jobs : s.recent[j].status = "running" =>
           InHand(j)' \/ \E t \in Sessions : t.recent[j].status = "running"
    BY <1>1, <2>1, <2>2 DEF InHand, AtWork
  <2>9. started[job'] = 0 /\ sent[job'] = 0
    <3>1. ~Present(file, job')
      BY <1>1, <2>2 DEF Ahead, Keeps
    <3>2. started[job'] \in Nat /\ started[job'] <= 1 /\ started[job'] # 1
      BY <1>1, <2>2, <3>1 DEF Recorded, RestOK
    <3> QED BY <1>1, <2>2, <3>2 DEF Recorded
  <2>10. WorkerInv'
    BY <2>1, <2>2, <2>3, <2>4, <2>9 DEF WorkerInv, AtWork
  <2>11. \A j \in Jobs : Recorded(j)'
    BY <1>1, <2>1, RecordsKept
  <2>12. \A q \in Requests : ipc[q] \in {"idle", "routing"} => q \notin Known(s)
    BY <1>1, <2>2
  <2> QED BY <2>1, <2>2, <2>3, <2>4, <2>5, <2>6, <2>7, <2>8, <2>10, <2>11, <2>12, WorkerStepping
<1>3. CASE LeaveQueue \/ RecheckQueue
  <2>1. /\ UNCHANGED store /\ UNCHANGED <<ipc, job, started, sent, crashes, setting>>
        /\ wpc' = wpc \/ (wpc = "poll" /\ wpc' = "off") \/ (wpc = "off" /\ wpc' = "poll")
    BY <1>3 DEF LeaveQueue, RecheckQueue, Step, history
  <2>2. UNCHANGED <<file, out>> /\ \A b \in Actors : Grown(b)
    BY <2>1, Untouched DEF store
  <2>3. \A j \in Jobs : InHand(j) => InHand(j)'
    BY <2>1, <2>2 DEF InHand, AtWork
  <2>4. WorkerInv'
    <3>1. CASE wpc' = wpc
      BY <1>1, <2>1, <2>2, <3>1, WorkerKept, KeepsSame
    <3>2. CASE wpc' \in {"off", "poll"}
      BY <3>2 DEF WorkerInv, AtWork
    <3> QED BY <2>1, <3>1, <3>2
  <2>5. \A j \in Jobs : Recorded(j)'
    BY <1>1, <2>1, <2>2, RecordsKept
  <2>6. Sessions' \subseteq Sessions \cup {EmptySession, heap[mem]}
    BY <2>1, Untouched
  <2> QED BY <1>1, <2>1, <2>2, <2>3, <2>4, <2>5, <2>6, Untouched, WorkerStepping
<1> QED BY <1>2, <1>3

\* The worker changes the object it holds, in one record that it knows of, and may hand it on.
LEMMA HeldStepSInv ==
  ASSUME TInv, SInv, Backend = "json", ref[Worker] \in Objs, job \in Jobs, AtWork, AtWork',
         NEW s, NEW rec \in Record, Rewritten(heap[ref[Worker]], s, job, rec),
         Present(heap[ref[Worker]], job), IsTerminal(rec),
         Update(Worker, s), out' = out \/ SetSession(Worker, s),
         UNCHANGED <<file, ipc, job, setting, crashes>>,
         heap'[ref'[Worker]] = s /\ (out'[Worker] = out[Worker] \/ out'[Worker] = <<s>>)
           => WorkerInv',
         \A j \in Jobs : Recorded(j)'
  PROVE  SInv'
<1> DEFINE e == heap[ref[Worker]]
<1>1. /\ StoreOK /\ Worker \in Actors /\ Worker \in Writers
      /\ e \in Session /\ e \in Sessions
      /\ Copies /\ Ahead /\ FileRuns /\ \A t \in Sessions : Sound(t)
      /\ \A q \in Requests : ipc[q] \in {"idle", "routing"} => \A t \in Sessions : q \notin Known(t)
  BY TypesApart DEF Actors, Writers, StoreOK, Sessions, SInv, Copies, SoundSessions, Unknown
<1> HIDE DEF e
<1>2. rec.status # "absent" /\ rec.status # "running"
  BY DEF IsTerminal, Terminal
<1>3. /\ s \in Session /\ Keeps(e, s) /\ Known(s) = Known(e) /\ Sound(s) /\ NothingNew(e, s)
  <2>1. Rewritten(e, s, job, rec) /\ Present(e, job)
    BY DEF e
  <2>2. s \in Session
    BY <2>1 DEF Rewritten
  <2> QED BY <1>1, <1>2, <2>1, <2>2, Rewriting
<1>4. /\ mem' = mem /\ ref' = ref /\ OnlyNew(s) /\ heap'[ref[Worker]] = s
      /\ Keeps(heap[mem], heap'[mem]) /\ \A b \in Actors : Grown(b)
  BY <1>1, <1>3, Updating DEF e
<1>5. /\ out'[Worker] = out[Worker] \/ out'[Worker] = <<s>>
      /\ \A b \in Writers : b # Worker => out'[b] = out[b]
  BY <1>1, <1>3, Passing
<1>6. Sessions' \subseteq Sessions \cup {EmptySession, s}
  BY <1>1, <1>4, <1>5, OneMore
<1>7. Ahead' /\ FileRuns' /\ Keeps(file, file')
  BY <1>1, <1>4, KeepsOn, KeepsSame DEF Ahead, FileRuns
<1>8. \A j \in Jobs : InHand(j) => InHand(j)'
  BY DEF InHand
<1>9. \A q \in Requests : ipc[q] \in {"idle", "routing"} => q \notin Known(s)
  BY <1>1, <1>3
<1>10. \A j \in Jobs : s.recent[j].status = "running" =>
         \E t \in Sessions : t.recent[j].status = "running"
  BY <1>1, <1>3 DEF NothingNew
<1>11. WorkerInv'
  BY <1>4, <1>5
<1> QED BY <1>3, <1>4, <1>5, <1>6, <1>7, <1>8, <1>9, <1>10, <1>11, WorkerStepping

\* Nothing else that the invariant says of the jobs changes in a step that starts or sends none.
LEMMA RecordedStill ==
  ASSUME SInv, UNCHANGED <<file, started, sent, crashes>>, wpc # "delivered"
  PROVE  \A j \in Jobs : Recorded(j)'
BY RecordsKept DEF SInv

\* The execution ends: the job's record in the object held gets its end.
LEMMA SettleSInv ==
  ASSUME TInv, SInv, Backend = "json", NEW r \in Results, SettleExecution(r)
  PROVE  SInv'
<1> DEFINE e == heap[ref[Worker]]
           s == [e EXCEPT !.recent[job] = Ended(@, r)]
           rec == Ended(e.recent[job], r)
<1>1. /\ wpc = "exec" /\ wpc' = "outcome" /\ Update(Worker, s)
      /\ UNCHANGED <<file, out, ipc, job, started, sent, crashes, setting>>
  BY DEF SettleExecution, Step, history
<1>2. /\ ref[Worker] \in Objs /\ job \in Jobs /\ WorkerInv /\ e \in Session
  BY <1>1, TypesApart DEF SInv, Phases, Working, AtWork, StoreOK
<1>3. Rewritten(e, s, job, rec) /\ rec \in Record /\ IsTerminal(rec)
  BY <1>2, Settling, Parts, EndedRecord
<1> HIDE DEF s, rec
<1>4. WorkerInv'
  BY <1>1, <1>2 DEF WorkerInv, AtWork
<1>5. \A j \in Jobs : Recorded(j)'
  BY <1>1, RecordedStill
<1> QED BY <1>1, <1>2, <1>3, <1>4, <1>5, HeldStepSInv DEF WorkerInv, AtWork

\* The outcome is written into the session read after the execution.
LEMMA RecordSInv ==
  ASSUME TInv, SInv, Backend = "json", RecordOutcome
  PROVE  SInv'
<1> DEFINE e == heap[ref[Worker]]
           s == persistExecutedJobOutcome(e, job, result)
           rec == Ended(e.recent[job], result)
<1>1. /\ wpc = "record" /\ wpc' = "recall" /\ Update(Worker, s)
      /\ UNCHANGED <<file, out, ipc, job, started, sent, crashes, setting>>
  BY DEF RecordOutcome, Step, history
<1>2. /\ ref[Worker] \in Objs /\ job \in Jobs /\ WorkerInv /\ e \in Session /\ result \in Results
  BY <1>1, TypesApart DEF SInv, Phases, Working, AtWork, StoreOK, RestOK
<1>3. Rewritten(e, s, job, rec) /\ rec \in Record /\ IsTerminal(rec)
  BY <1>2, Recording, Parts, EndedRecord
<1> HIDE DEF s, rec
<1>4. s.recent[job] = rec
  BY <1>2, <1>3, Parts DEF Rewritten
<1>5. ASSUME heap'[ref'[Worker]] = s PROVE WorkerInv'
  BY <1>1, <1>2, <1>3, <1>4, <1>5 DEF WorkerInv, AtWork
<1>6. \A j \in Jobs : Recorded(j)'
  BY <1>1, RecordedStill
<1> QED BY <1>1, <1>2, <1>3, <1>5, <1>6, HeldStepSInv DEF WorkerInv, AtWork

\* The final message is sent, or the job closed without one.
LEMMA DeliverSInv ==
  ASSUME TInv, SInv, Backend = "json", CloseQuietly \/ \E ok \in BOOLEAN : SendFinal(ok)
  PROVE  SInv'
<1> DEFINE e == heap[ref[Worker]]
<1>1. PICK ok \in BOOLEAN :
        LET s == finalDelivery(e, job, ok)
        IN  /\ Update(Worker, s) /\ SetSession(Worker, s)
            /\ sent' = sent \/ sent' = [sent EXCEPT ![job] = @ + 1]
            /\ wpc \in {"quiet", "send"} /\ wpc' = "delivered"
            /\ UNCHANGED <<file, ipc, job, started, crashes, setting>>
  BY DEF CloseQuietly, SendFinal, Step, history
<1> DEFINE s == finalDelivery(e, job, ok)
<1>2. /\ ref[Worker] \in Objs /\ job \in Jobs /\ WorkerInv /\ e \in Session /\ StoreOK
      /\ sent \in [Jobs -> Nat] /\ started \in [Jobs -> Nat] /\ Worker \in Writers
  BY <1>1, TypesApart DEF SInv, Phases, Working, AtWork, StoreOK, RestOK, Writers, Actors
<1>3. PICK rec \in Record :
        rec.status = e.recent[job].status /\ IsAttempted(rec) /\ Rewritten(e, s, job, rec)
  BY <1>2, Delivering
<1>4. /\ Update(Worker, s) /\ SetSession(Worker, s)
      /\ sent' = sent \/ sent' = [sent EXCEPT ![job] = @ + 1]
      /\ wpc \in {"quiet", "send"} /\ wpc' = "delivered"
      /\ UNCHANGED <<file, ipc, job, started, crashes, setting>>
  BY <1>1
<1> HIDE DEF s
<1>5. IsTerminal(e.recent[job]) /\ Present(e, job)
  BY <1>2, <1>4 DEF WorkerInv, IsTerminal, Terminal, Present
<1>6. IsTerminal(rec) /\ Settled(rec)
  BY <1>3, <1>5 DEF IsTerminal, Settled
<1>7. s.recent[job] = rec /\ s \in Session
  BY <1>2, <1>3, Parts DEF Rewritten
<1>8. WorkerInv'
  <2>1. out'[Worker] = <<s>>
    BY <1>2, <1>4, <1>7, Passing
  <2>2. started[job] = 1 /\ IsTerminal(file.recent[job])
    BY <1>2, <1>4 DEF WorkerInv, AtWork
  <2> QED BY <1>4, <1>6, <1>7, <2>1, <2>2 DEF WorkerInv, AtWork
<1>9. ASSUME NEW j \in Jobs PROVE Recorded(j)'
  <2>1. Recorded(j)
    BY DEF SInv
  <2>2. CASE j = job
    <3>1. sent[job] = 0 /\ sent'[job] \in {0, 1} /\ started[job] = 1
      BY <1>2, <1>4 DEF WorkerInv, AtWork
    <3> QED BY <1>4, <2>1, <2>2, <3>1 DEF Recorded
  <2>3. CASE j # job
    <3>1. sent'[j] = sent[j]
      BY <1>2, <1>4, <2>3
    <3> QED BY <1>4, <2>1, <2>3, <3>1 DEF Recorded
  <2> QED BY <2>2, <2>3
<1> QED BY <1>2, <1>3, <1>4, <1>5, <1>6, <1>8, <1>9, HeldStepSInv DEF AtWork

\* The worker takes the store's object, changes it at most in one record, and may hand it on.
LEMMA TakenStepSInv ==
  ASSUME TInv, SInv, Backend = "json", AtWork, AtWork',
         NEW s \in Session, Keeps(heap[mem], s), NothingNew(heap[mem], s), Sound(s),
         Take(Worker, s), out' = out \/ SetSession(Worker, s),
         UNCHANGED <<file, ipc, job, setting, crashes>>,
         heap'[ref'[Worker]] = s /\ (out'[Worker] = out[Worker] \/ out'[Worker] = <<s>>)
           => WorkerInv',
         \A j \in Jobs : Recorded(j)'
  PROVE  SInv'
<1> DEFINE e == heap[mem]
<1>1. /\ StoreOK /\ Worker \in Actors /\ Worker \in Writers
      /\ e \in Sessions /\ mem \in Objs
      /\ Copies /\ Ahead /\ FileRuns
      /\ \A q \in Requests : ipc[q] \in {"idle", "routing"} => \A t \in Sessions : q \notin Known(t)
  BY TypesApart DEF Actors, Writers, StoreOK, Sessions, SInv, Copies, Unknown
<1> HIDE DEF e
<1>2. /\ mem' = mem /\ OnlyNew(s) /\ heap'[mem] = s /\ heap'[ref'[Worker]] = s
      /\ \A b \in Actors : b # Worker => Grown(b)
  BY <1>1, Taking
<1>3. /\ out'[Worker] = out[Worker] \/ out'[Worker] = <<s>>
      /\ \A b \in Writers : b # Worker => out'[b] = out[b]
  BY <1>1, Passing
<1>4. Sessions' \subseteq Sessions \cup {EmptySession, s}
  BY <1>1, <1>2, <1>3, OneMore
<1>5. Ahead' /\ FileRuns' /\ Keeps(file, file')
  BY <1>1, <1>2, KeepsOn, KeepsSame DEF Ahead, FileRuns
<1>6. \A j \in Jobs : InHand(j) => InHand(j)'
  BY DEF InHand
<1>7. \A q \in Requests : ipc[q] \in {"idle", "routing"} => q \notin Known(s)
  BY <1>1 DEF NothingNew, e
<1>8. \A j \in Jobs : s.recent[j].status = "running" =>
         \E t \in Sessions : t.recent[j].status = "running"
  BY <1>1 DEF NothingNew, e
<1>9. WorkerInv'
  BY <1>2, <1>3
<1> QED BY <1>2, <1>3, <1>4, <1>5, <1>6, <1>7, <1>8, <1>9, WorkerStepping

\* A job that was started has its record in the store's object too.
LEMMA StartedThere ==
  ASSUME TInv, SInv, Backend = "json", job \in Jobs, started[job] = 1
  PROVE  Present(heap[mem], job)
BY DEF SInv, Recorded, Ahead, Keeps

\* The session is read after the execution.
LEMMA ReadOutcomeSInv ==
  ASSUME TInv, SInv, Backend = "json", ReadOutcomeSession
  PROVE  SInv'
<1> DEFINE e == heap[mem]
<1>1. /\ wpc = "outcome" /\ wpc' = "record" /\ Take(Worker, e)
      /\ UNCHANGED <<file, out, ipc, job, started, sent, crashes, setting>>
  BY DEF ReadOutcomeSession, Step, history, GetSession
<1>2. /\ mem \in Objs /\ job \in Jobs /\ WorkerInv /\ e \in Session /\ Sound(e)
  BY <1>1, TypesApart DEF SInv, Phases, AtWork, StoreOK, Copies, SoundSessions, Sessions
<1>3. started[job] = 1 /\ sent[job] = 0
  BY <1>1, <1>2 DEF WorkerInv, AtWork
<1>4. Present(e, job)
  BY <1>2, <1>3, StartedThere
<1>5. Keeps(e, e) /\ NothingNew(e, e)
  BY DEF Keeps, NothingNew
<1> HIDE DEF e
<1>6. ASSUME heap'[ref'[Worker]] = e PROVE WorkerInv'
  BY <1>1, <1>2, <1>3, <1>4, <1>6 DEF WorkerInv, AtWork
<1>7. \A j \in Jobs : Recorded(j)'
  BY <1>1, RecordedStill
<1> QED BY <1>1, <1>2, <1>5, <1>6, <1>7, TakenStepSInv DEF AtWork, e

\* The minimal record, written into the session read after the save failed.
LEMMA SalvageSInv ==
  ASSUME TInv, SInv, Backend = "json", SalvageOutcome
  PROVE  SInv'
<1> DEFINE e == heap[mem]
           s == recoverPostExecutionPersistenceFailure(e, job, result)
           rec == [Ended(e.recent[job], result) EXCEPT !.delivery = "none"]
<1>1. /\ wpc = "lost" /\ wpc' = "salvage" /\ Take(Worker, s) /\ SetSession(Worker, s)
      /\ UNCHANGED <<file, ipc, job, started, sent, crashes, setting>>
  BY DEF SalvageOutcome, Step, history, GetSession
<1>2. /\ mem \in Objs /\ job \in Jobs /\ WorkerInv /\ e \in Session /\ Sound(e)
      /\ result \in Results /\ StoreOK /\ Worker \in Writers
  BY <1>1, TypesApart
     DEF SInv, Phases, AtWork, StoreOK, RestOK, Copies, SoundSessions, Sessions, Writers, Actors
<1>3. started[job] = 1 /\ sent[job] = 0
  BY <1>1, <1>2 DEF WorkerInv, AtWork
<1>4. Present(e, job)
  BY <1>2, <1>3, StartedThere
<1>5. Rewritten(e, s, job, rec) /\ rec \in Record /\ IsTerminal(rec)
  BY <1>2, Salvaging
<1> HIDE DEF s, rec, e
<1>6. rec.status # "absent" /\ rec.status # "running"
  BY <1>5 DEF IsTerminal, Terminal
<1>7. /\ s.recent[job] = rec /\ Keeps(e, s) /\ Sound(s) /\ NothingNew(e, s)
  BY <1>2, <1>4, <1>5, <1>6, Rewriting
<1>8. s \in Session
  BY <1>5 DEF Rewritten
<1>9. out'[Worker] = <<s>>
  BY <1>1, <1>2, <1>8, Passing
<1>10. ASSUME heap'[ref'[Worker]] = s PROVE WorkerInv'
  BY <1>1, <1>2, <1>3, <1>5, <1>7, <1>9, <1>10 DEF WorkerInv, AtWork
<1>11. \A j \in Jobs : Recorded(j)'
  BY <1>1, RecordedStill
<1> QED BY <1>1, <1>2, <1>7, <1>8, <1>10, <1>11, TakenStepSInv DEF AtWork, e

\* The session is read for the final message; or there is nothing to deliver any more.
LEMMA ReadDeliverySInv ==
  ASSUME TInv, SInv, Backend = "json", ReadDelivery
  PROVE  SInv'
<1> DEFINE e == heap[mem]
<1>1. /\ wpc = "deliver"
      /\ UNCHANGED <<file, out, ipc, started, sent, crashes, setting>>
  BY DEF ReadDelivery, history
<1>2. /\ mem \in Objs /\ job \in Jobs /\ WorkerInv /\ e \in Session /\ e \in Sessions /\ Sound(e)
      /\ \A q \in Requests : ipc[q] \in {"idle", "routing"} => q \notin Known(e)
  BY <1>1, TypesApart
     DEF SInv, Phases, AtWork, StoreOK, Copies, SoundSessions, Unknown, Sessions
<1>3. started[job] = 1 /\ sent[job] = 0 /\ IsTerminal(file.recent[job])
  BY <1>1, <1>2 DEF WorkerInv, AtWork
<1>4. IsTerminal(e.recent[job])
  BY <1>2, <1>3 DEF SInv, Ahead, Keeps
<1>5. Keeps(e, e) /\ NothingNew(e, e)
  BY DEF Keeps, NothingNew
<1>6. \A j \in Jobs : Recorded(j)'
  BY <1>1, RecordedStill
<1>7. CASE Step("send") /\ Take(Worker, GetSession) /\ UNCHANGED <<job, result>>
  <2>1. wpc' = "send" /\ Take(Worker, e) /\ job' = job
    BY <1>7 DEF Step, GetSession
  <2> HIDE DEF e
  <2>2. ASSUME heap'[ref'[Worker]] = e PROVE WorkerInv'
    BY <1>1, <1>2, <1>3, <1>4, <2>1, <2>2 DEF WorkerInv, AtWork
  <2> QED BY <1>1, <1>2, <1>5, <1>6, <2>1, <2>2, TakenStepSInv DEF AtWork, e
<1>8. CASE NextJob /\ UNCHANGED <<mem, heap, ref>>
  <2>1. UNCHANGED store /\ wpc' = "poll"
    BY <1>1, <1>8 DEF NextJob, Step, store
  <2>2. \A j \in Jobs : InHand(j) => InHand(j)'
    BY <1>1, <1>3 DEF InHand
  <2>3. WorkerInv'
    BY <2>1 DEF WorkerInv, AtWork
  <2>4. Sessions' \subseteq Sessions \cup {EmptySession, e}
    BY <2>1, Untouched
  <2>5. Ahead /\ FileRuns
    BY DEF SInv, Copies
  <2> QED BY <1>1, <1>2, <1>6, <2>1, <2>2, <2>3, <2>4, <2>5, Untouched, WorkerStepping
<1> QED BY <1>7, <1>8 DEF ReadDelivery

\* The outcome, or a progress report, is handed to the store: only the copy is new.
LEMMA HandOnSInv ==
  ASSUME TInv, SInv, Backend = "json", SaveOutcome \/ ReportProgress
  PROVE  SInv'
<1> DEFINE a == IF wpc = "recall" THEN Worker ELSE Progress
           s == IF wpc = "recall" THEN heap[ref[Worker]] ELSE heap[mem]
<1>1. /\ SetSession(a, s)
      /\ UNCHANGED <<file, mem, heap, ref, ipc, job, started, sent, crashes, setting>>
      /\ \/ wpc = "recall" /\ wpc' = "store"
         \/ wpc = "exec" /\ wpc' = wpc
  BY DEF SaveOutcome, ReportProgress, Step, history, loop, GetSession
<1>2. a \in {Worker, Progress} /\ a \in Writers /\ Worker \in Writers /\ Worker # Progress
  BY NumJobsType DEF Writers, Actors, Worker, Progress
<1>3. /\ StoreOK /\ Phases /\ WorkerInv /\ Ahead /\ FileRuns
      /\ \A t \in Sessions : Sound(t)
      /\ \A q \in Requests : ipc[q] \in {"idle", "routing"} => \A t \in Sessions : q \notin Known(t)
  BY TypesApart DEF SInv, Copies, SoundSessions, Unknown
<1>4. s \in Session /\ s \in Sessions
  BY <1>1, <1>3 DEF Phases, Working, StoreOK, Sessions
<1>5. wpc = "recall" => a = Worker /\ IsTerminal(s.recent[job])
  BY <1>3 DEF WorkerInv
<1>6. wpc = "exec" => a = Progress
  OBVIOUS
<1> HIDE DEF a, s
<1>7. out'[a] = <<s>> /\ \A b \in Writers : b # a => out'[b] = out[b]
  BY <1>1, <1>2, <1>3, <1>4, Passing
<1>8. OnlyNew(s) /\ \A b \in Actors : Grown(b)
  BY <1>1, KeepsSame DEF OnlyNew, Grown
<1>9. Sessions' \subseteq Sessions \cup {EmptySession, s}
  BY <1>1, <1>2, <1>3, <1>7, <1>8, OneMore
<1>10. Ahead' /\ FileRuns' /\ Keeps(file, file')
  BY <1>1, <1>3, KeepsSame DEF Ahead, FileRuns
<1>11. \A j \in Jobs : InHand(j) => InHand(j)'
  BY <1>1 DEF InHand, AtWork
<1>12. WorkerInv'
  <2>1. CASE wpc = "recall"
    <3>1. out'[Worker] = <<s>> /\ wpc' = "store"
      BY <1>1, <1>5, <1>7, <2>1
    <3>2. started[job] = 1 /\ sent[job] = 0 /\ IsTerminal(heap[ref[Worker]].recent[job])
      BY <1>3, <2>1 DEF WorkerInv, AtWork
    <3> QED BY <1>1, <1>5, <2>1, <3>1, <3>2 DEF WorkerInv, AtWork
  <2>2. CASE wpc = "exec"
    <3>1. out'[Worker] = out[Worker] /\ wpc' = wpc
      BY <1>1, <1>2, <1>6, <1>7, <2>2
    <3>2. Worker \in Actors
      BY DEF Actors
    <3> QED BY <1>1, <1>3, <1>8, <1>10, <3>1, <3>2, WorkerKept
  <2> QED BY <1>1, <2>1, <2>2
<1>13. \A j \in Jobs : Recorded(j)'
  BY <1>1, RecordedStill
<1>14. Sound(s) /\ \A q \in Requests : ipc[q] \in {"idle", "routing"} => q \notin Known(s)
  BY <1>3, <1>4
<1> QED BY <1>1, <1>2, <1>4, <1>7, <1>8, <1>9, <1>10, <1>11, <1>12, <1>13, <1>14, WorkerStepping

\* A write of the worker, or of a progress report, goes through.
LEMMA CommitStepSInv ==
  ASSUME TInv, SInv, Backend = "json",
         StartExecution \/ CommitProgress \/ CommitOutcome \/ FinishDelivery
  PROVE  SInv'
<1> DEFINE a == IF StartExecution \/ CommitOutcome \/ FinishDelivery THEN Worker ELSE Progress
<1>1. PICK refs \in {ref, Without(Worker)} : Commit(a, refs) /\ (wpc' \in Working => refs = ref)
  BY DEF StartExecution, CommitProgress, CommitOutcome, FinishDelivery, NextJob, Step, loop, Working
<1>2. a \in {Worker, Progress} /\ a \in Writers /\ Worker \in Actors /\ Worker \in Writers
      /\ Worker # Progress
  BY NumJobsType DEF Writers, Actors, Worker, Progress
<1>3. UNCHANGED <<ipc, sent, crashes, setting>>
  BY DEF StartExecution, CommitProgress, CommitOutcome, FinishDelivery, history
<1>4. /\ StoreOK /\ RestOK /\ Phases /\ Copies /\ WorkerInv /\ \A j \in Jobs : Recorded(j)
  BY TypesApart DEF SInv
<1>5. \/ /\ StartExecution /\ wpc = "claim" /\ wpc' = "exec" /\ job' = job /\ a = Worker
         /\ started' = [started EXCEPT ![job] = @ + 1]
      \/ CommitProgress /\ UNCHANGED <<wpc, job, started>> /\ a = Progress
      \/ /\ CommitOutcome /\ wpc \in {"store", "salvage"} /\ wpc' \in {"quiet", "deliver"}
         /\ UNCHANGED <<job, started>> /\ a = Worker
      \/ /\ FinishDelivery /\ wpc = "delivered" /\ wpc' = "poll"
         /\ UNCHANGED <<started>> /\ a = Worker
  BY DEF StartExecution, CommitProgress, CommitOutcome, FinishDelivery, NextJob, Step, loop, history
<1> HIDE DEF a
<1>6. /\ out[a] # <<>> /\ Ahead' /\ FileRuns' /\ Sound(file')
      /\ Keeps(file, file') /\ Keeps(Head(out[a]), file')
      /\ \A j \in Jobs : Settled(file.recent[j]) \/ Settled(Head(out[a]).recent[j])
                           => Settled(file'.recent[j])
      /\ Sessions' \subseteq Sessions \cup {EmptySession, file'}
      /\ \A r \in Requests : ipc[r] \in {"idle", "routing"} => r \notin Known(file')
      /\ \A j \in Jobs : file'.recent[j].status = "running" =>
           \E t \in Sessions : t.recent[j].status = "running"
      /\ \A b \in Writers : b # a => out'[b] = out[b]
  BY <1>1, <1>2, <1>4, CommitKeeps
<1>7. /\ \A b \in Actors : refs[b] = ref[b] => Grown(b)
      /\ \A b \in Actors : b # Worker => Grown(b)
  BY <1>1, <1>2, <1>4, Committing
<1>8. wpc' \in Working => Grown(Worker)
  BY <1>1, <1>2, <1>7
<1>9. \A j \in Jobs : IsTerminal(file.recent[j]) => IsTerminal(file'.recent[j])
  BY <1>6 DEF Keeps
<1>10. \A j \in Jobs : InHand(j) => InHand(j)'
  <2>1. wpc = "delivered" => IsTerminal(file.recent[job])
    BY <1>4 DEF WorkerInv
  <2> QED BY <1>5, <1>9, <2>1 DEF InHand, AtWork
<1>11. a = Progress => Grown(Worker)
  BY <1>1, <1>2, <1>7, <1>5 DEF CommitProgress, Commit, Remember, Without
<1> SUFFICES WorkerInv' /\ \A j \in Jobs : Recorded(j)'
  <2>1. \A b \in Actors : b # a => Grown(b)
    BY <1>2, <1>7, <1>11
  <2> QED BY <1>2, <1>3, <1>6, <1>10, <2>1, WorkerStepping
<1>12. CASE StartExecution /\ wpc = "claim" /\ wpc' = "exec" /\ job' = job /\ a = Worker
            /\ started' = [started EXCEPT ![job] = @ + 1]
  <2>1. /\ job \in Jobs /\ ref[Worker] \in Objs /\ started[job] = 0 /\ sent[job] = 0
        /\ Present(Head(out[Worker]), job) /\ Present(heap[ref[Worker]], job)
        /\ started \in [Jobs -> Nat]
    BY <1>4, <1>6, <1>12 DEF Phases, Working, AtWork, WorkerInv, RestOK
  <2>2. Present(file', job) /\ Present(heap'[ref'[Worker]], job)
    BY <1>6, <1>8, <1>12, <2>1 DEF Keeps, Grown, Working
  <2>3. started'[job] = 1 /\ \A j \in Jobs : j # job => started'[j] = started[j]
    BY <1>12, <2>1
  <2>4. WorkerInv'
    BY <1>3, <1>12, <2>1, <2>2, <2>3 DEF WorkerInv, AtWork
  <2>5. ASSUME NEW j \in Jobs PROVE Recorded(j)'
    <3>1. Recorded(j)
      BY <1>4
    <3>2. CASE j = job
      BY <1>3, <2>1, <2>2, <2>3, <3>1, <3>2 DEF Recorded
    <3>3. CASE j # job
      <4>1. Present(file, j) => Present(file', j)
        BY <1>6 DEF Keeps
      <4> QED BY <1>3, <1>6, <1>12, <2>3, <3>1, <3>3, <4>1 DEF Recorded
    <3> QED BY <3>2, <3>3
  <2> QED BY <2>4, <2>5
<1>13. CASE CommitProgress /\ UNCHANGED <<wpc, job, started>> /\ a = Progress
  <2>1. WorkerInv'
    BY <1>2, <1>3, <1>4, <1>6, <1>11, <1>13, WorkerKept
  <2>2. \A j \in Jobs : Recorded(j)'
    BY <1>3, <1>4, <1>6, <1>13, RecordsKept DEF Keeps
  <2> QED BY <2>1, <2>2
<1>14. CASE CommitOutcome /\ wpc \in {"store", "salvage"} /\ wpc' \in {"quiet", "deliver"}
            /\ UNCHANGED <<job, started>> /\ a = Worker
  <2>1. /\ job \in Jobs /\ ref[Worker] \in Objs /\ started[job] = 1 /\ sent[job] = 0
        /\ IsTerminal(Head(out[Worker]).recent[job]) /\ IsTerminal(heap[ref[Worker]].recent[job])
    BY <1>4, <1>6, <1>14 DEF Phases, Working, AtWork, WorkerInv
  <2>2. IsTerminal(file'.recent[job])
    BY <1>6, <1>14, <2>1 DEF Keeps
  <2>3. wpc' = "quiet" => IsTerminal(heap'[ref'[Worker]].recent[job])
    BY <1>8, <1>14, <2>1 DEF Keeps, Grown, Working
  <2>4. WorkerInv'
    BY <1>3, <1>14, <2>1, <2>2, <2>3 DEF WorkerInv, AtWork
  <2>5. \A j \in Jobs : Recorded(j)'
    BY <1>3, <1>4, <1>6, <1>14, RecordsKept DEF Keeps
  <2> QED BY <2>4, <2>5
<1>15. CASE FinishDelivery /\ wpc = "delivered" /\ wpc' = "poll"
            /\ UNCHANGED <<started>> /\ a = Worker
  <2>1. WorkerInv'
    BY <1>15 DEF WorkerInv, AtWork
  <2>2. Settled(Head(out[Worker]).recent[job])
    BY <1>4, <1>6, <1>15 DEF WorkerInv
  <2>3. \A j \in Jobs : Recorded(j)'
    BY <1>3, <1>4, <1>6, <1>15, <2>2, RecordsKept DEF Keeps
  <2> QED BY <2>1, <2>3
<1> QED BY <1>5, <1>12, <1>13, <1>14, <1>15

\* The write of the outcome throws.
LEMMA FailOutcomeSInv ==
  ASSUME TInv, SInv, Backend = "json", FailOutcome
  PROVE  SInv'
<1>1. /\ wpc = "store" /\ wpc' = "lost" /\ FailCommit(Worker)
      /\ UNCHANGED <<ipc, job, started, sent, crashes, setting>>
  BY DEF FailOutcome, Step, history
<1>2. StoreOK /\ Copies /\ Ahead /\ FileRuns /\ WorkerInv /\ Worker \in Actors
  BY TypesApart DEF SInv, Copies, Actors
<1>3. FailedWrite(Worker)
  BY <1>1, <1>2, FailingKeeps
<1>4. PICK s \in Session :
        /\ Sessions' \subseteq Sessions \cup {EmptySession, s} /\ Sound(s)
        /\ \A r \in Requests : ipc[r] \in {"idle", "routing"} => r \notin Known(s)
        /\ \A j \in Jobs : s.recent[j].status = "running" =>
             \E t \in Sessions : t.recent[j].status = "running"
        /\ file' = file /\ Ahead'
        /\ \A b \in Actors : b # Worker => Grown(b)
        /\ \A b \in Writers : b # Worker => out'[b] = out[b]
  BY <1>3 DEF FailedWrite
<1>5. FileRuns' /\ Keeps(file, file')
  BY <1>2, <1>4, KeepsSame DEF FileRuns
<1>6. \A j \in Jobs : InHand(j) => InHand(j)'
  BY <1>1, <1>4 DEF InHand, AtWork
<1>7. WorkerInv'
  BY <1>1, <1>2 DEF WorkerInv, AtWork
<1>8. \A j \in Jobs : Recorded(j)'
  BY <1>1, <1>4, RecordedStill
<1> QED BY <1>1, <1>4, <1>5, <1>6, <1>7, <1>8, WorkerStepping

-----------------------------------------------------------------------------
\* The remaining steps, and the theorems.

\* The session is reloaded for another conversation: the file is what was in it.
LEMMA ReloadSInv ==
  ASSUME TInv, SInv, Backend = "json", OtherConversationSaves
  PROVE  SInv'
<1>1. /\ Remember(file, ref)
      /\ UNCHANGED <<file, out, ipc, wpc, job, started, sent, crashes, setting>>
  BY DEF OtherConversationSaves, loop, history
<1>2. /\ StoreOK /\ Copies /\ FileRuns /\ WorkerInv /\ \A j \in Jobs : Recorded(j)
      /\ Worker \in Actors /\ file \in Sessions /\ file \in Session
      /\ ref \in [Actors -> Objs \cup {NoObj}]
  BY TypesApart DEF SInv, Copies, Actors, Sessions, StoreOK
<1>3. /\ heap'[mem'] = file /\ OnlyNew(file) /\ \A b \in Actors : Grown(b)
  BY <1>1, <1>2, Remembering
<1>4. Sessions' \subseteq Sessions \cup {EmptySession, file}
  BY <1>1, <1>2, <1>3, OneMore
<1>5. Ahead' /\ FileRuns' /\ Keeps(file, file')
  BY <1>1, <1>2, <1>3, KeepsSame DEF Ahead, FileRuns
<1>6. \A j \in Jobs : InHand(j) => InHand(j)'
  BY <1>1 DEF InHand, AtWork
<1>7. WorkerInv'
  BY <1>1, <1>2, <1>3, <1>5, WorkerKept, Zenon DEF Writers
<1>8. \A j \in Jobs : Recorded(j)'
  BY <1>1, <1>2, RecordsKept
<1>9. Sound(file) /\ \A r \in Requests : ipc[r] \in {"idle", "routing"} => r \notin Known(file)
  BY <1>2 DEF Copies, SoundSessions, Unknown
<1> QED BY <1>1, <1>2, <1>3, <1>4, <1>5, <1>6, <1>7, <1>8, <1>9, WorkerStepping

\* The process dies: what is left is the file, and nothing of what it lacks was started.
LEMMA CrashSInv ==
  ASSUME TInv, SInv, Backend = "json", Crash
  PROVE  SInv'
<1>1. /\ file' = file /\ mem' = 1 /\ wpc' = "off" /\ crashes' = crashes + 1
      /\ heap' = [o \in Objs |-> IF o = 1 THEN file ELSE EmptySession]
      /\ out' = [a \in Writers |-> <<>>]
      /\ ipc' = [r \in Requests |->
                  IF ipc[r] \in {"idle", "done", "failed"} THEN ipc[r] ELSE "dead"]
      /\ UNCHANGED <<started, sent, setting>>
  BY DEF Crash
<1>2. /\ Copies /\ file \in Sessions /\ \A r \in Requests : RequestInv(r)
      /\ \A j \in Jobs : Recorded(j)
      /\ crashes \in Nat
  BY OptionsType DEF SInv, Sessions, TInv, TypeOK
<1>3. 1 \in Objs
  BY NumJobsType DEF Objs
<1>4. Sessions' \subseteq {file, EmptySession}
  BY <1>1 DEF Sessions
<1>5. Ahead'
  BY <1>1, <1>3, KeepsSame DEF Ahead
<1>6. Copies'
  <2>1. SoundSessions' /\ Unknown'
    BY <1>1, <1>2, <1>4, EmptyOne DEF Copies, SoundSessions, Unknown
  <2>2. RunningInHand' /\ FileRuns'
    BY <1>1, <1>2 DEF Copies, RunningInHand, FileRuns
  <2> QED BY <2>1, <2>2 DEF Copies
<1>7. \A r \in Requests : RequestInv(r)'
  BY <1>1, <1>2 DEF RequestInv, Enqueues, KindOf
<1>8. WorkerInv'
  BY <1>1 DEF WorkerInv, AtWork
<1>9. \A j \in Jobs : Recorded(j)'
  BY <1>1, <1>2 DEF Recorded
<1> QED BY <1>5, <1>6, <1>7, <1>8, <1>9 DEF SInv

\* The conversation begins with an empty session everywhere.
LEMMA InitSInv == ASSUME Init, Backend = "json" PROVE SInv
<1>1. /\ file = EmptySession /\ mem = 1 /\ heap = [o \in Objs |-> EmptySession]
      /\ out = [a \in Writers |-> <<>>] /\ ipc = [r \in Requests |-> "idle"] /\ wpc = "off"
      /\ started = [j \in Jobs |-> 0] /\ sent = [j \in Jobs |-> 0]
  BY DEF Init
<1>2. 1 \in Objs
  BY NumJobsType DEF Objs
<1>3. Sessions \subseteq {EmptySession}
  BY <1>1 DEF Sessions
<1>4. EmptySession.running = NoJob /\ \A j \in Jobs : EmptySession.recent[j].status = "absent"
  BY DEF EmptySession, Absent
<1>5. Ahead
  BY <1>1, <1>2, KeepsSame DEF Ahead
<1>6. Copies
  BY <1>1, <1>3, <1>4, EmptyOne
     DEF Copies, SoundSessions, Unknown, RunningInHand, FileRuns
<1>7. \A r \in Requests : RequestInv(r)
  BY <1>1 DEF RequestInv
<1>8. WorkerInv
  BY <1>1 DEF WorkerInv, AtWork
<1>9. \A j \in Jobs : Recorded(j)
  BY <1>1 DEF Recorded
<1> QED BY <1>5, <1>6, <1>7, <1>8, <1>9 DEF SInv

\* Every step keeps the invariant over the JSON store.
LEMMA NextSInv == ASSUME TInv, SInv, Backend = "json", [Next]_vars PROVE SInv'
<1>1. CASE \E r \in Requests : RequestStep(r) \/ CommitRequest(r) \/ FailRequest(r)
  BY <1>1, RequestStepSInv
<1>2. CASE LoopStep
  <2>1. CASE ClaimJob \/ LeaveQueue \/ RecheckQueue
    BY <2>1, QueueStepSInv
  <2>2. CASE \E r \in Results : SettleExecution(r)
    BY <2>2, SettleSInv
  <2>3. CASE SaveOutcome
    BY <2>3, HandOnSInv
  <2> QED BY <1>2, <2>1, <2>2, <2>3, ReadOutcomeSInv, RecordSInv, SalvageSInv, DeliverSInv,
             ReadDeliverySInv DEF LoopStep
<1>3. CASE UNCHANGED vars
  <2>1. UNCHANGED store /\ UNCHANGED <<ipc, wpc, job, started, sent, crashes, setting>>
    BY <1>3 DEF vars, loop, history
  <2>2. /\ Copies /\ WorkerInv /\ \A r \in Requests : RequestInv(r)
        /\ \A j \in Jobs : Recorded(j)
    BY DEF SInv
  <2> QED BY <2>1, <2>2
          DEF SInv, store, Ahead, Copies, SoundSessions, Unknown, RunningInHand, FileRuns, InHand,
              AtWork, Sessions, RequestInv, WorkerInv, Recorded, Enqueues, KindOf
<1> QED BY <1>1, <1>2, <1>3, CommitStepSInv, FailOutcomeSInv, HandOnSInv, ReloadSInv, CrashSInv
        DEF Next, Commits

\* So it holds of every behaviour over the JSON store.
LEMMA Invariance == Backend = "json" => (Spec => [](TInv /\ SInv))
<1> SUFFICES ASSUME Backend = "json" PROVE Spec => [](TInv /\ SInv)
  OBVIOUS
<1>1. Init => TInv /\ SInv
  BY InitTInv, InitSInv
<1>2. TInv /\ SInv /\ [Next]_vars => (TInv /\ SInv)'
  BY NextTInv, NextSInv
<1> QED BY <1>1, <1>2, PTL DEF Spec

\* Over JSON no job is executed twice, whatever stale copies are written back and
\* however often the process dies: a job is claimed only from a copy without its record,
\* and what was started has its record in the file for good.
THEOREM StartedOnce == Backend = "json" => (Spec => []NoDoubleExecution)
<1>1. TInv /\ SInv => NoDoubleExecution
  BY DEF SInv, Recorded, NoDoubleExecution
<1> QED BY <1>1, Invariance, PTL

\* Over JSON the job of a request whose setSession has returned stays in the store.
THEOREM Accepted == Backend = "json" => (Spec => []AcceptedIsKept)
<1>1. TInv /\ SInv => AcceptedIsKept
  BY DEF SInv, RequestInv, AcceptedIsKept
<1> QED BY <1>1, Invariance, PTL

\* Over JSON, until the process dies, the store says a job runs only while the worker has
\* it in hand, also when writes fail or are slow.
THEOREM NoGhost == Backend = "json" => (Spec => []NoGhostRunning)
<1>1. TInv /\ SInv => NoGhostRunning
  <2> SUFFICES ASSUME TInv, SInv, crashes = 0, file.running # NoJob
               PROVE  AtWork /\ job = file.running
    BY DEF NoGhostRunning, AtWork
  <2>1. file \in Session /\ file \in Sessions
    BY DEF TInv, TypeOK, Sessions
  <2>2. file.running \in Jobs /\ file.recent[file.running].status = "running"
    BY <2>1, Parts DEF SInv, Copies, FileRuns
  <2>3. InHand(file.running)
    BY <2>1, <2>2 DEF SInv, Copies, RunningInHand
  <2> QED BY <2>2, <2>3 DEF InHand, IsTerminal, Terminal
<1> QED BY <1>1, Invariance, PTL

\* Over JSON a result is sent at most once, and that it was is not forgotten.
THEOREM Delivered == Backend = "json" => (Spec => []DeliveredOnce)
<1>1. TInv /\ SInv => DeliveredOnce
  BY DEF SInv, Recorded, DeliveredOnce, Settled
<1> QED BY <1>1, Invariance, PTL

\* Over JSON a job that has ended never runs or waits again: every write of the file is a
\* merge into it, and the merge keeps an end.
THEOREM EndedForGood == Backend = "json" => (Spec => EndedStaysEnded)
<1> SUFFICES ASSUME Backend = "json" PROVE Spec => EndedStaysEnded
  OBVIOUS
<1> DEFINE Kept == \A j \in Jobs : IsTerminal(file.recent[j]) => IsTerminal(file'.recent[j])
<1>1. ASSUME TInv, NEW a \in Writers, out[a] # <<>>, file' = Merged(a) PROVE Kept
  <2>1. file \in Session /\ Head(out[a]) \in Session
    BY <1>1 DEF TInv, TypeOK
  <2> QED BY <1>1, <2>1, Merging DEF Merged
<1>2. TInv /\ [Next]_vars => [Kept]_file
  <2> SUFFICES ASSUME TInv, [Next]_vars, file' # file PROVE Kept
    OBVIOUS
  <2>1. \E a \in Writers : out[a] # <<>> /\ file' = Merged(a)
    <3>1. Requests \subseteq Writers /\ Worker \in Writers /\ Progress \in Writers
      BY DEF Writers, Actors
    <3>2. CASE Commits
      BY <3>1, <3>2 DEF Commits, CommitRequest, FailRequest, StartExecution, CommitProgress,
                        CommitOutcome, FailOutcome, FinishDelivery, FailCommit, Commit
    <3>3. CASE \E r \in Requests : RequestStep(r)
      BY <3>3 DEF RequestStep, ReceiveMessage, EnqueueSystemJob, EnqueueJob, SaveRequest,
                  FinishRequest
    <3>4. CASE LoopStep
      BY <3>4 DEF LoopStep, ClaimJob, LeaveQueue, RecheckQueue, SettleExecution,
                  ReadOutcomeSession, RecordOutcome, SaveOutcome, SalvageOutcome,
                  CloseQuietly, ReadDelivery, SendFinal, store
    <3>5. CASE ReportProgress \/ OtherConversationSaves \/ Crash
      BY <3>5 DEF ReportProgress, OtherConversationSaves, Crash
    <3>6. CASE UNCHANGED vars
      BY <3>6 DEF vars, store
    <3> QED BY <3>2, <3>3, <3>4, <3>5, <3>6 DEF Next
  <2> QED BY <1>1, <2>1
<1> QED BY <1>2, TypesHold, PTL DEF Spec, EndedStaysEnded
=============================================================================
