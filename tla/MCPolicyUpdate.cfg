CONSTANTS
  a = a
  b = b
  consoleEdit = consoleEdit
  Clients = {a, b}
  Others = {consoleEdit}
  EtagArgs = {"as read", "missing"}
  MaxFaults = 3
  None = None
SPECIFICATION FairSpec
CHECK_DEADLOCK FALSE
INVARIANTS
  TypeOK
  ToldLanded
PROPERTIES
  NoLostUpdate
  EveryEditLands
