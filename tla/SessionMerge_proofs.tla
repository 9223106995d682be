------------------------- MODULE SessionMerge_proofs -------------------------
(***************************************************************************)
(* Proofs about the session merge: what its lists hold, and what of two    *)
(* sessions is in the merged one.                                          *)
(***************************************************************************)
EXTENDS SessionMerge, FiniteLemmas

Descending(q) == \A a, b \in DOMAIN q : a < b => q[a] > q[b]
Ascending(q)  == \A a, b \in DOMAIN q : a < b => q[a] < q[b]
Lists(S)      == [1 .. Cardinality(S) -> S]

\* Every finite set of numbers can be listed with the largest first: remove the least,
\* list the rest, and put it at the end.
LEMMA ListedDown ==
  ASSUME NEW S \in SUBSET Nat, IsFiniteSet(S)
  PROVE  \E q \in Lists(S) : Descending(q)
<1> DEFINE Listed(T) == \E q \in Lists(T) : Descending(q)
           Bad == {T \in SUBSET S : ~Listed(T)}
           Sizes == {Cardinality(T) : T \in Bad}
<1>1. \A T \in SUBSET S : IsFiniteSet(T) /\ Cardinality(T) \in Nat
  BY FS_Subset, FS_CardinalityType
<1> SUFFICES ASSUME Bad # {} PROVE FALSE
  OBVIOUS
<1>2. PICK n \in Sizes : \A m \in Sizes : n <= m
  <2>1. Sizes \in SUBSET Nat /\ Sizes # {}
    BY <1>1
  <2> HIDE DEF Sizes
  <2> QED BY <2>1, Smallest
<1>3. PICK T \in Bad : n = Cardinality(T)
  BY <1>2
<1>4. T # {}
  <2> SUFFICES ASSUME T = {} PROVE Listed(T)
    BY <1>3
  <2>1. Cardinality(T) = 0
    BY FS_EmptySet
  <2>2. 1 .. Cardinality(T) = {}
    BY <2>1
  <2>3. [i \in {} |-> 0] \in [{} -> T]
    OBVIOUS
  <2>4. [i \in {} |-> 0] \in Lists(T) /\ Descending([i \in {} |-> 0])
    BY <2>2, <2>3 DEF Lists, Descending
  <2> QED BY <2>4
<1>5. PICK x \in T : \A y \in T : x <= y
  BY <1>3, <1>4, Smallest
<1>6. /\ Cardinality(T \ {x}) = n - 1
      /\ n \in Nat \ {0}
      /\ T \ {x} \in SUBSET S
  <2>1. Cardinality(T \ {x}) = n - 1
    BY <1>1, <1>3, <1>5, FS_RemoveElement
  <2>2. Cardinality(T \ {x}) \in Nat /\ n \in Nat
    BY <1>1, <1>3
  <2> QED BY <2>1, <2>2
<1>7. Listed(T \ {x})
  <2>1. n - 1 \notin Sizes
    <3> HIDE DEF Sizes
    <3> QED BY <1>2, <1>6
  <2>2. T \ {x} \notin Bad
    BY <1>6, <2>1
  <2> HIDE DEF Listed
  <2> QED BY <1>6, <2>2
<1>8. PICK q \in [1 .. n - 1 -> T \ {x}] : Descending(q)
  BY <1>6, <1>7 DEF Lists
<1>9. Listed(T)
  <2> DEFINE p == [i \in 1 .. n |-> IF i = n THEN x ELSE q[i]]
  <2>1. p \in Lists(T)
    BY <1>3, <1>6, <1>8 DEF Lists
  <2>2. ASSUME NEW a \in 1 .. n, NEW b \in 1 .. n, a < b PROVE p[a] > p[b]
    <3>1. a \in 1 .. n - 1 /\ p[a] = q[a] /\ q[a] \in T \ {x}
      BY <2>2, <1>6, <1>8
    <3>2. CASE b = n
      <4>1. x <= q[a] /\ q[a] # x /\ q[a] \in Nat /\ x \in Nat
        BY <3>1, <1>5
      <4> QED BY <4>1, <3>1, <3>2, <1>6
    <3>3. CASE b # n
      BY <2>2, <3>1, <3>3, <1>6, <1>8 DEF Descending
    <3> QED BY <3>2, <3>3
  <2>3. DOMAIN p = 1 .. n
    OBVIOUS
  <2> HIDE DEF p
  <2> QED BY <2>1, <2>2, <2>3 DEF Descending
<1> QED BY <1>3, <1>9

\* A list that goes down, or up, through as many elements as a set has goes through all.
LEMMA ListsAll ==
  ASSUME NEW S \in SUBSET Nat, IsFiniteSet(S), NEW q \in Lists(S), Descending(q) \/ Ascending(q)
  PROVE  Elements(q) = S /\ \A a, b \in DOMAIN q : q[a] = q[b] => a = b
<1> DEFINE n == Cardinality(S)
<1>1. n \in Nat /\ DOMAIN q = 1 .. n /\ IsFiniteSet(1 .. n) /\ Cardinality(1 .. n) = n
  BY FS_CardinalityType, FS_Interval DEF Lists
<1>2. \A a \in 1 .. n : q[a] \in Nat /\ q[a] \in S
  BY <1>1 DEF Lists
<1>3. ASSUME NEW a \in 1 .. n, NEW b \in 1 .. n, q[a] = q[b] PROVE a = b
  <2>1. a \in Nat /\ b \in Nat /\ q[a] \in Nat /\ q[b] \in Nat
    BY <1>1, <1>2
  <2>2. CASE Descending(q)
    BY <1>1, <1>3, <2>1, <2>2 DEF Descending
  <2>3. CASE Ascending(q)
    BY <1>1, <1>3, <2>1, <2>3 DEF Ascending
  <2> QED BY <2>2, <2>3
<1>4. q \in Injection(1 .. n, S)
  BY <1>1, <1>3 DEF Injection, IsInjective, Lists
<1>5. q \in Surjection(1 .. n, S)
  BY <1>1, <1>4, FS_Injection
<1>6. \A x \in S : \E a \in 1 .. n : q[a] = x
  BY <1>5 DEF Surjection
<1>7. Elements(q) = S
  BY <1>1, <1>2, <1>6 DEF Elements
<1> QED BY <1>1, <1>3, <1>7

\* The list NewestFirst chooses exists: it holds each job of the set once, and no other.
LEMMA NewestFirstLists ==
  ASSUME NEW S \in SUBSET Jobs
  PROVE  /\ NewestFirst(S) \in Seq(Jobs)
         /\ Elements(NewestFirst(S)) = S
         /\ \A a, b \in DOMAIN NewestFirst(S) : NewestFirst(S)[a] = NewestFirst(S)[b] => a = b
<1>1. S \in SUBSET Nat /\ IsFiniteSet(S) /\ Cardinality(S) \in Nat
  <2>1. IsFiniteSet(Jobs)
    BY NumJobsType, FS_Interval DEF Jobs
  <2>2. IsFiniteSet(S) /\ Cardinality(S) \in Nat
    BY <2>1, FS_Subset, FS_CardinalityType
  <2> QED BY <2>2 DEF Jobs
<1>2. NewestFirst(S) \in Lists(S) /\ Descending(NewestFirst(S))
  BY <1>1, ListedDown DEF NewestFirst, Lists, Descending
<1>3. NewestFirst(S) \in [1 .. Cardinality(S) -> Jobs]
  BY <1>2 DEF Lists
<1>4. NewestFirst(S) \in Seq(Jobs)
  BY <1>1, <1>3
<1> HIDE DEF NewestFirst
<1> QED BY <1>1, <1>2, <1>4, ListsAll

\* A finite set of numbers can be listed with the smallest first.
LEMMA ListedUp ==
  ASSUME NEW S \in SUBSET Nat, IsFiniteSet(S)
  PROVE  \E q \in Lists(S) : Ascending(q)
<1> DEFINE n == Cardinality(S)
<1>1. n \in Nat
  BY FS_CardinalityType
<1>2. PICK q \in Lists(S) : Descending(q)
  BY ListedDown
<1> DEFINE p == [i \in 1 .. n |-> q[n + 1 - i]]
<1>3. \A i \in 1 .. n : n + 1 - i \in 1 .. n
  BY <1>1
<1>4. p \in Lists(S)
  BY <1>2, <1>3 DEF Lists
<1>5. ASSUME NEW a \in 1 .. n, NEW b \in 1 .. n, a < b PROVE p[a] < p[b]
  <2>1. n + 1 - b < n + 1 - a
    BY <1>1, <1>5
  <2>2. q[n + 1 - b] > q[n + 1 - a] /\ q[n + 1 - b] \in Nat /\ q[n + 1 - a] \in Nat
    BY <1>2, <1>3, <2>1 DEF Descending, Lists
  <2> QED BY <2>2
<1>6. DOMAIN p = 1 .. n
  OBVIOUS
<1> HIDE DEF p
<1> QED BY <1>4, <1>5, <1>6 DEF Ascending
-----------------------------------------------------------------------------
(* Records. *)

Settled(r) == IsTerminal(r) /\ IsAttempted(r)    \* the job is over and was delivered

\* What choosePreferredConversationJob keeps is one of the two, has ended if one of them
\* has, and is both ended and delivered if one of them is.
LEMMA Preferred ==
  ASSUME NEW e \in Record, NEW i \in Record
  PROVE  /\ choosePreferredConversationJob(e, i) \in {e, i}
         /\ IsTerminal(e) \/ IsTerminal(i) => IsTerminal(choosePreferredConversationJob(e, i))
         /\ Settled(e) \/ Settled(i) => Settled(choosePreferredConversationJob(e, i))
BY Zenon DEF choosePreferredConversationJob, Settled

\* So does mergeRecentJobs for each job, and a job has a record if one side has one.
LEMMA MergedRecords ==
  ASSUME NEW e \in [Jobs -> Record], NEW i \in [Jobs -> Record], NEW j \in Jobs
  PROVE  LET m == mergeRecentJobs(e, i)[j]
         IN  /\ m \in {e[j], i[j]}
             /\ m.status # "absent" <=> e[j].status # "absent" \/ i[j].status # "absent"
             /\ IsTerminal(e[j]) \/ IsTerminal(i[j]) => IsTerminal(m)
             /\ Settled(e[j]) \/ Settled(i[j]) => Settled(m)
<1> DEFINE m == mergeRecentJobs(e, i)[j]
<1>1. e[j] \in Record /\ i[j] \in Record
  OBVIOUS
<1>2. \A r : IsTerminal(r) => r.status # "absent"
  BY DEF IsTerminal, Terminal
<1>3. CASE i[j].status = "absent"
  <2>1. m = e[j]
    BY <1>3 DEF mergeRecentJobs
  <2> QED BY <1>2, <1>3, <2>1 DEF Settled
<1>4. CASE i[j].status # "absent" /\ e[j].status = "absent"
  <2>1. m = i[j]
    BY <1>4 DEF mergeRecentJobs
  <2> QED BY <1>2, <1>4, <2>1 DEF Settled
<1>5. CASE i[j].status # "absent" /\ e[j].status # "absent"
  <2>1. m = choosePreferredConversationJob(e[j], i[j])
    BY <1>5 DEF mergeRecentJobs
  <2> QED BY <1>1, <1>5, <2>1, Preferred
<1> QED BY <1>3, <1>4, <1>5
-----------------------------------------------------------------------------
(* Sessions. *)

\* No job waits twice, or waits with a record, and the running job has one.
Sound(s) ==
  /\ \A a, b \in DOMAIN s.queue : s.queue[a] = s.queue[b] => a = b
  /\ \A a \in DOMAIN s.queue : ~Present(s, s.queue[a])
  /\ s.running # NoJob => Present(s, s.running)

\* What a merged session is: each job of either side once, and the best of its records.
THEOREM Merging ==
  ASSUME NEW e \in Session, NEW i \in Session
  PROVE  LET m == mergeConversationSession(e, i)
         IN  /\ m \in Session
             /\ Known(m) = Known(e) \cup Known(i)
             /\ \A j \in Jobs :
                  /\ m.recent[j] \in {e.recent[j], i.recent[j]}
                  /\ Present(m, j) <=> Present(e, j) \/ Present(i, j)
                  /\ IsTerminal(e.recent[j]) \/ IsTerminal(i.recent[j])
                       => IsTerminal(m.recent[j])
                  /\ Settled(e.recent[j]) \/ Settled(i.recent[j]) => Settled(m.recent[j])
<1> DEFINE m == mergeConversationSession(e, i)
           waiting == {j \in Elements(e.queue) \cup Elements(i.queue) :
                         m.recent[j].status = "absent"}
<1>1. /\ e.queue \in Seq(Jobs) /\ e.running \in Jobs \cup {NoJob} /\ e.recent \in [Jobs -> Record]
      /\ i.queue \in Seq(Jobs) /\ i.running \in Jobs \cup {NoJob} /\ i.recent \in [Jobs -> Record]
  BY DEF Session
<1>2. m.recent = mergeRecentJobs(e.recent, i.recent) /\ m.queue = NewestFirst(waiting)
  BY DEF mergeConversationSession, mergeQueuedJobs
<1>3. \A j \in Jobs :
        /\ m.recent[j] \in {e.recent[j], i.recent[j]}
        /\ Present(m, j) <=> Present(e, j) \/ Present(i, j)
        /\ IsTerminal(e.recent[j]) \/ IsTerminal(i.recent[j]) => IsTerminal(m.recent[j])
        /\ Settled(e.recent[j]) \/ Settled(i.recent[j]) => Settled(m.recent[j])
  BY <1>1, <1>2, MergedRecords DEF Present
<1>4. Elements(e.queue) \subseteq Jobs /\ Elements(i.queue) \subseteq Jobs
  BY <1>1 DEF Elements
<1>5. m.queue \in Seq(Jobs) /\ Elements(m.queue) = waiting
  <2>1. waiting \in SUBSET Jobs
    BY <1>4
  <2> HIDE DEF waiting, m
  <2> QED BY <1>2, <2>1, NewestFirstLists
<1>6. Known(m) = Known(e) \cup Known(i)
  <2> HIDE DEF m
  <2> QED BY <1>3, <1>4, <1>5 DEF Known, Present
<1>7. m.recent \in [Jobs -> Record]
  <2>1. \A j \in Jobs : m.recent[j] \in Record
    BY <1>1, <1>3
  <2>2. m.recent = [j \in Jobs |-> m.recent[j]]
    BY <1>2 DEF mergeRecentJobs
  <2> HIDE DEF m
  <2> QED BY <2>1, <2>2
<1>8. m.running \in Jobs \cup {NoJob}
  BY <1>1 DEF mergeConversationSession, selectRunningJobId
<1>9. m \in Session
  <2>1. m = [queue |-> m.queue, running |-> m.running, recent |-> m.recent]
    BY DEF mergeConversationSession
  <2> HIDE DEF m
  <2> QED BY <1>5, <1>7, <1>8, <2>1 DEF Session
<1> QED BY <1>3, <1>6, <1>9

\* Two sound sessions make a sound one, whose running job has a record that says so.
THEOREM MergedSound ==
  ASSUME NEW e \in Session, NEW i \in Session, Sound(e), Sound(i)
  PROVE  LET m == mergeConversationSession(e, i)
         IN  /\ Sound(m)
             /\ m.running # NoJob => m.recent[m.running].status = "running"
<1> DEFINE m == mergeConversationSession(e, i)
           waiting == {j \in Elements(e.queue) \cup Elements(i.queue) :
                         m.recent[j].status = "absent"}
<1>1. \A j \in Jobs : Present(m, j) <=> Present(e, j) \/ Present(i, j)
  BY Merging
<1>2. m.queue = NewestFirst(waiting)
  BY DEF mergeConversationSession, mergeQueuedJobs
<1>3. waiting \in SUBSET Jobs
  BY DEF Session, Elements
<1>4. /\ Elements(m.queue) = waiting
      /\ \A a, b \in DOMAIN m.queue : m.queue[a] = m.queue[b] => a = b
  <2> HIDE DEF waiting, m
  <2> QED BY <1>2, <1>3, NewestFirstLists
<1>5. \A j \in Elements(m.queue) : ~Present(m, j)
  <2> HIDE DEF m
  <2> QED BY <1>4 DEF Present
<1>6. m.running # NoJob => m.recent[m.running].status = "running"
  <2> SUFFICES ASSUME m.running # NoJob PROVE m.recent[m.running].status = "running"
    OBVIOUS
  <2>1. /\ m.running \in {e.running, i.running}
        /\ m.running \in Jobs
        /\ m.running \in Elements(m.queue) \/ m.recent[m.running].status = "running"
    BY DEF mergeConversationSession, selectRunningJobId
  <2>2. Present(m, m.running)
    <3> HIDE DEF m
    <3> QED BY <1>1, <2>1 DEF Sound
  <2> HIDE DEF m
  <2> QED BY <1>5, <2>1, <2>2
<1>7. Sound(m)
  <2> HIDE DEF m
  <2>1. \A a \in DOMAIN m.queue : ~Present(m, m.queue[a])
    BY <1>5 DEF Elements
  <2> QED BY <1>4, <1>6, <2>1 DEF Sound, Present
<1> QED BY <1>6, <1>7
=============================================================================
