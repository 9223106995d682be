----------------------------- MODULE CouncilVote -----------------------------
(***************************************************************************)
(* The vote gate: every governor asked evaluates the proposal on its own,  *)
(* beside a timer; the master governor counts the votes once all are in.   *)
(***************************************************************************)
EXTENDS FiniteSets, Naturals

CONSTANTS
  Council,      \* FULL_COUNCIL_GOVERNOR_IDS
  FastPath,     \* fastPathGovernorIds
  Threshold,    \* supermajorityThreshold
  Councils      \* the sets of governors a brain may have been built with

ASSUME CouncilType ==
  /\ IsFiniteSet(Council) /\ FastPath \subseteq Council
  /\ Threshold \in Nat \ {0}
  /\ Councils \subseteq SUBSET Council

VARIABLES
  governors,    \* the governors this brain has
  ballot        \* what became of each governor's evaluation of the proposal

votevars == <<governors, ballot>>

\* What a governor's promise may settle with; "failed" is its timeout or rejection.
Answers == {"yes", "no", "malformed", "mismatched", "failed"}
Ballots == Answers \cup {"unasked", "asked"}
Modes == {"fast_path", "escalation_path"}

VoteTypeOK == governors \in Councils /\ ballot \in [Council -> Ballots]

VoteInit == governors \in Councils /\ ballot = [g \in Council |-> "unasked"]
-----------------------------------------------------------------------------
Voters(mode) == IF mode = "fast_path" THEN governors \cap FastPath ELSE governors
Expected(mode) == IF mode = "fast_path" THEN FastPath ELSE Council
Needed(mode) == IF mode = "fast_path" THEN Cardinality(Voters(mode)) ELSE Threshold

runCouncilVote(mode) ==
  /\ ballot' = [g \in Council |-> IF g \in Voters(mode) THEN "asked" ELSE "unasked"]
  /\ UNCHANGED governors

\* The first of the governor's answer and its timer settles the vote.
Answer(g, b) ==
  /\ ballot[g] = "asked" /\ ballot' = [ballot EXCEPT ![g] = b]
  /\ UNCHANGED governors

\* Mutant: nobody watches the time.
NoTimeOut(g) == FALSE /\ UNCHANGED votevars

TimeOut(g) == Answer(g, "failed")

AllVoted(mode) == \A g \in Voters(mode) : ballot[g] # "asked"

\* Mutant: a vote that cannot be read does not count against the proposal.
LenientVote(b) == b \in {"yes", "malformed", "mismatched", "failed"}

\* Every vote that is not a well-formed approval is a rejection.
normalizeGovernorVote(b) == b = "yes"

yesVotes == {g \in Council : normalizeGovernorVote(ballot[g])}
missingGovernorIds(mode) == Expected(mode) \ Voters(mode)

decisionApproved(mode) ==
  Cardinality(yesVotes) >= Needed(mode) /\ missingGovernorIds(mode) = {}
=============================================================================
