CONSTANTS
  None = None
  Lifetime = 1
  Pools <- MCPools
  Entries <- MCEntries
  Stewards <- MCStewards
  MaxAdmitted = 4
  MaxTime = 1
SPECIFICATION ReaderSpec
INVARIANTS RevokedIsWithdrawn
PROPERTIES  SupportStays
CHECK_DEADLOCK FALSE
