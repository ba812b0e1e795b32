\* One message read live or by the rules and one hard-blocked, on two threads;
\* the Company admission may always fail; two runs, which may die anywhere.
SPECIFICATION ExtractionSpec
CONSTANTS
  Messages = {1, 2}
  Blocked = {2}
  Readings <- MCReadings
  RuleReading <- MCRules
  Order <- MCOrder
  Provisioned = {"personal", "company", "codebase"}
  Faulty = {"company"}
  PerRequest = 1
  Threads = {t1, t2}
  Thirds = 2
  MaxRuns = 2
INVARIANTS MessagesAreRead
PROPERTIES MajorityDecides SessionsSettle
CHECK_DEADLOCK FALSE
