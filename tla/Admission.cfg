\* Three posts of two byte strings under one event id, on two connections, while
\* the steward moves a scope, hands its role over and a key is revoked.
SPECIFICATION Spec
CONSTANTS
  c1 = c1  c2 = c2  alice = alice  bob = bob
  e1 = e1  e2 = e2  x1 = x1  x2 = x2  f1 = f1
  kRoot = kRoot  k1 = k1  k2 = k2  s1 = s1  s2 = s2  n1 = n1
  ia = ia  ib = ib  None = None
  Connections = {c1, c2}
  Clients = {alice, bob}
  Reviewed = {alice, bob}
  Events = {e1, e2}
  Header <- MCSharedId
  EventIds = {x1}
  FactIds = {f1}
  Keys = {kRoot, k1, k2}
  Scopes = {s1, s2}
  Root = kRoot
  ApprovalNonces = {n1}
  Identities = {ia, ib}
  ScopeOf <- MCScopeOf
  StewardDocs <- MCHandOver
  Submissions <- MCContested
  NonceRetention = 1
  MaxClock = 1
SYMMETRY Symmetry
CONSTRAINT ThreeRows
INVARIANTS LogIsSound NothingIsForgotten RevocationReaches RegistryIsFollowed
PROPERTIES RetriesAreAnswered
