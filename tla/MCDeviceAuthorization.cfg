CONSTANTS
  a = a
  b = b
  d1 = d1
  d2 = d2
  Clients = {a, b}
  Devices = {d1, d2}
  Lists <- MCLists
  Flags = {TRUE, FALSE}
  Blank = Blank
  NoFlag = NoFlag
  MaxFaults = 2
  None = None
SPECIFICATION FairSpec
CHECK_DEADLOCK FALSE
INVARIANTS
  TypeOK
  ReportExact
  AgreedValueHolds
PROPERTIES
  ImplementsDeviceSettings
  EveryCallCompletes
