SPECIFICATION IngestSpec
CONSTANTS
  None = None
  Unread = Unread
  Gone = Gone
  ConventionThreshold = 2
  Kinds <- AllKinds
  Forms <- AllForms
  Natives = {1, 2}
  Runs = {r1}
  Returns = FALSE
  KindBounds <- AllBounds
  OwnKey = own
  OtherKey = other
INVARIANTS CurrentIsAccepted
PROPERTIES StandsOrIsExplained ObservationsStand
CHECK_DEADLOCK FALSE
