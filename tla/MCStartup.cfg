SPECIFICATION FairSpec
CONSTANTS
  None = None
  Empty = Empty
  Secret = Secret
  Life = 2
  Access = 1
  MaxTime = 2
  Configs <- MCConfigs
INVARIANTS
  TypeOK
  StartupSound
  FreshToken
PROPERTIES
  Recovers
CHECK_DEADLOCK FALSE
