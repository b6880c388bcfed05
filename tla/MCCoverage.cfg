SPECIFICATION Spec
CONSTANTS
  list = list
  get = get
  delete = delete
  other = other
  None = None
  MaxRuns = 3
  Operations <- MCOperations
  Schemas <- MCSchemas
  Items <- MCItems
  Mappings <- MCMappings
  Exclusions <- MCExclusions
INVARIANTS
  TypeOK
  SnapshotFits
  ReportSound
CHECK_DEADLOCK FALSE
