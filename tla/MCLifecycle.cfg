CONSTANTS
  Reqs = {r1, r2, r3}
  ErrChCap = 2
SPECIFICATION FairSpec
CHECK_DEADLOCK FALSE
INVARIANTS
  TypeOK
  CutOnlyAtDeadline
  OnlyFailuresSelected
PROPERTIES
  SignalStops
  StopTogether
