\* One process, which may die twice or find the lock held, carries two Codebase candidates and a
\* Company candidate of one message.
SPECIFICATION FairSpec
CONSTANTS
  CodebaseCandidates = {1, 2}
  CompanyCandidates = {3}
  Procs = {p1}
  MaxBytes = 3
  MaxCrashes = 2
INVARIANTS EventsAreJournaled ApologiesAreKept
PROPERTIES TerminalReceiptStays ReservedIsSettled
CHECK_DEADLOCK FALSE
