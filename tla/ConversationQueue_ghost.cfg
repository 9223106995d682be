\* Two chat messages over the SQLite store, which overwrites the row.
SPECIFICATION Spec
CONSTANTS
  NumJobs = 2
  Backend = "sqlite"
  Settings <- TwoChats
INVARIANTS NoGhostRunning
CHECK_DEADLOCK FALSE
