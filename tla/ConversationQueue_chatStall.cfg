\* Two chat messages: the second may be accepted and never started.
SPECIFICATION FairSpec
CONSTANTS
  NumJobs = 2
  Backend = "json"
  Settings <- TwoChats
PROPERTIES AcceptedEnds
CHECK_DEADLOCK FALSE
