CONSTANTS
  r1 = r1
  r2 = r2
  alice = alice
  local = local
  getDevice = getDevice
  setTags = setTags
  getDNS = getDNS
  noTool = noTool
  devices = devices
  dns = dns
  none = none
  None = none
  Reqs = {r1, r2}
  Users = {alice}
  Local = local
  Tools <- MCTools
  Names <- MCNames
  Uris <- MCUris
  Groups <- MCGroups
  GroupOf <- MCGroupOf
  ReadOnlyTools <- MCReadOnly
  ConfirmTools = {setTags}
  CallsOf <- MCCallsOf
  Policies <- MCPolicies
  Configs <- MCConfigs
  Paths <- MCPaths
  MaxEdits = 1
SPECIFICATION Spec
SYMMETRY Symmetry
CHECK_DEADLOCK FALSE
INVARIANTS
  TypeOK
  EffectsEntitled
  EntitledServed
  WithinProfile
  ListedIffCallable
PROPERTY ImplementsGrantedAccess
