SPECIFICATION Spec
CONSTANTS
  leaf = leaf
  other = other
  o1 = o1
  o2 = o2
  k1 = k1
  k2 = k2
  k3 = k3
  none = none
  NoId = none
  Procs = {p1, p2}
  Entries <- MCEntries
  Registries <- MCRegistries
  UnknownScope = leaf
  OwnerIdentity = o1
  Architecture = TRUE
  Documents <- MCDocuments
  MaxKills = 1
  Desk = desk
  Scenes <- MCScenes
  Limit = 3
  DirectionSlots = 1
  ByteLimit = 13
INVARIANTS RecordsAreFounded 
 
CHECK_DEADLOCK FALSE
