CONSTANTS
  c1 = c1
  c2 = c2
  Calls = {c1, c2}
  Chunk = 2
  Zero = 0
  Start = 1
  End = 6
  Loads <- MCLoads
  None = None
SPECIFICATION FairSpec
CHECK_DEADLOCK FALSE
INVARIANTS
  TypeOK
  NoGap
  FinishedComplete
  NoOverlap
  CursorsAccepted
PROPERTIES
  ImplementsChronologicalRead
  Completes
