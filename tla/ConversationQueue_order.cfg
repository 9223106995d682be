\* Three chat messages: the newest queued one goes first.
SPECIFICATION Spec
CONSTANTS
  NumJobs = 3
  Backend = "json"
  Settings <- ThreeChats
INVARIANTS FirstComeFirstServed
CHECK_DEADLOCK FALSE
