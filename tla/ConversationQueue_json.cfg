\* A command and a pulse at once in calm, or a chat message and a status with slow and
\* failing writes and a death of the process; over the JSON store, under a fair event loop.
SPECIFICATION FairSpec
CONSTANTS
  NumJobs = 2
  Backend = "json"
  Settings <- PulseOrFaults
INVARIANTS TypeOK NoDoubleExecution AcceptedIsKept NoGhostRunning DeliveredOnce
PROPERTIES AcceptedEnds EndedStaysEnded
CHECK_DEADLOCK FALSE
