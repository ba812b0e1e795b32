SPECIFICATION MachineSpec
CONSTANTS
  p1 = p1
  p2 = p2
  here = here
  there = there
  all = all
  Procs = {p1, p2}
  Repos = {here, there}
  RepoOf <- MCRepoOf
  Everywhere = all
  RevocationFreshness = 1
  FactFreshness = 2
  MaxChanges = 3
  CertifiedFor <- MCCertifiedFor
  MaxVersions = 2
  Criticality <- MCCriticality
  Relaxations <- MCRelaxations
  References <- MCReferences
  MaxReferences = 2
INVARIANTS RowIsVouched ShownIsCurrent OneBinding TableIsFollowed
PROPERTIES HighWaterRises
CHECK_DEADLOCK FALSE
