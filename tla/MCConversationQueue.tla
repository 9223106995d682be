------------------------ MODULE MCConversationQueue ------------------------
(***************************************************************************)
(* Instances of ConversationQueue: mixes of requests for one conversation. *)
(***************************************************************************)
EXTENDS ConversationQueue

CalmWith(kinds, inTurn) ==
  [kindOf |-> kinds, serial |-> inTurn, slowIO |-> FALSE, saveErrors |-> FALSE, maxCrashes |-> 0]

Faults(kinds) ==
  [kindOf |-> kinds, serial |-> FALSE, slowIO |-> TRUE, saveErrors |-> TRUE, maxCrashes |-> 1]

PulseOrFaults == {CalmWith(<<"approve", "system">>, FALSE), Faults(<<"chat", "status">>)}
TwoChats      == {CalmWith(<<"chat", "chat">>, TRUE)}
ThreeChats    == {CalmWith(<<"chat", "chat", "chat">>, TRUE)}
=============================================================================
