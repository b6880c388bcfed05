SPECIFICATION Spec
CONSTANTS
  d1 = d1
  d2 = d2
  web = web
  addr = addr
  s1 = s1
  s2 = s2
  Missing = Missing
  Blank = Blank
  BadTarget = BadTarget
  None = None
  Ids <- MCIds
  Names <- MCNames
  Records <- MCRecords
  Settings <- MCSettings
  ListLimit = 1
  MaxChanges = 2
INVARIANTS
  TypeOK
  LookupJustified
  SteadyDeviceFound
  StatusTrue
