SPECIFICATION PlatformSpec
CONSTANTS
  w1 = w1 w2 = w2 e1 = e1 e2 = e2 r1 = r1
  Handlers = {w1, w2}
  Keys = {Initial, e1, e2}
  Initial = Initial
  None = None
  Users = {e1, e2}
  Resources = {r1}
  Scopes = {e1, e2}
  Fields = {e1, e2}
  Proofs = {e1, e2}
  MaxWrites = 2
  MaxRoleWrites = 2
  MaxClients = 3
  MaxKeys = 1
  MaxConsents = 2
  MaxSecrets = 4
  MaxUpdates = 3
  MaxRows = 3
  MaxRevisions = 2
  Interval = 2
  Latency = 1
  Window = 1
  MaxTime = 4
  MaxLinks = 2
SYMMETRY Symmetry
INVARIANTS PlatformTypeOK KeySendsOnce AttemptsTellTheHistory RolesExist ReferencesAreClean GenerationsKeepTheirClients RevocationIsWhole ClientRepeatsApplication NoAcceptedPatchIsLost AccountsAreWhole
PROPERTIES KeepsAnOwner GrantsOnlyAdd PolicyIsRecent AcceptedOnceInItsWindow
CHECK_DEADLOCK FALSE
