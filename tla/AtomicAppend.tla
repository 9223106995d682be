--------------------------- MODULE AtomicAppend ---------------------------
(***************************************************************************)
(* What withFileLock promises the JSON stores that use it: a              *)
(* read-modify-write of the document is one atomic step.  Each client      *)
(* appends its own run once; appendRun either resolves, and the run is in  *)
(* the document, or rejects, and it is not.  The faults are what the code  *)
(* takes from this promise.                                                *)
(***************************************************************************)
CONSTANT Clients

VARIABLES
  doc,      \* the runs the document holds
  outcome,  \* per client: what its caller knows of the append
  faults    \* "read": a document may be taken for missing;
            \* "remove": the call that saved may fail to give the lock back;
            \* "lock": the lock may fail to exclude

avars == <<doc, outcome, faults>>

AInit ==
  /\ doc = {}
  /\ outcome = [c \in Clients |-> "pending"]
  /\ faults \in SUBSET {"read", "remove", "lock"}

\* A save out of turn leaves whatever its call had loaded.
AppendAtomically(c) ==
  /\ outcome[c] = "pending"
  /\ c \notin doc
  /\ \/ doc' = doc \cup {c}
     \/ "read" \in faults /\ doc' = {c}
     \/ "lock" \in faults /\ doc' \in SUBSET Clients /\ c \in doc'
  /\ UNCHANGED <<outcome, faults>>

\* A resolved append is in the document.
Resolve(c) ==
  /\ outcome[c] = "pending"
  /\ c \in doc \/ "lock" \in faults
  /\ outcome' = [outcome EXCEPT ![c] = "resolved"]
  /\ UNCHANGED <<doc, faults>>

\* A rejected append left the document as it was, unless the lock was not given back.
Reject(c) ==
  /\ outcome[c] = "pending"
  /\ c \notin doc \/ "remove" \in faults
  /\ outcome' = [outcome EXCEPT ![c] = "rejected"]
  /\ UNCHANGED <<doc, faults>>

\* The process of some clients dies; whatever they had saved stays.
Die(C) ==
  /\ \A c \in C : outcome[c] = "pending"
  /\ outcome' = [c \in Clients |-> IF c \in C THEN "dead" ELSE outcome[c]]
  /\ UNCHANGED <<doc, faults>>

ANext ==
  \/ \E c \in Clients : AppendAtomically(c) \/ Resolve(c) \/ Reject(c)
  \/ \E C \in SUBSET Clients : Die(C)

ASpec == AInit /\ [][ANext]_avars
=============================================================================
