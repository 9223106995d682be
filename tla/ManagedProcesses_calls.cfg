\* A start beside two other previews of its workspace, two overlapping checks, two deaths.
SPECIFICATION Spec
CONSTANTS
  Starts = {s1}
  Others = {o1, o2}
  Checks = {c1, c2}
  MaxCrashes = 2
SYMMETRY Interchangeable
INVARIANTS TypeOK StoppedIsTrue AbortStops RunningIsLeased
CHECK_DEADLOCK FALSE
