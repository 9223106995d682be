CONSTANTS
  Tasks = {t1, t2}
  MaxFaults = 1
SPECIFICATION FairSpec
INVARIANTS TypeOK CoalescedWrites EntriesAreTrue HeardIsSo
PROPERTIES RefinesDelegatedCall StopEnds CallEnds
