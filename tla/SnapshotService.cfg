SPECIFICATION ServiceSpec
CONSTANTS
  r1 = r1
  r2 = r2
  here = here
  k1 = k1
  all = all
  Readers = {r1, r2}
  Repositories = {here}
  Keys = {k1}
  Facts <- MCFacts
  Anywhere = all
  MaxTraffic = 3
  MaxAsks = 3
  ViewSlots = 2
  MemoCap = 1
  Assemblies = 1
  EventLimit = 1
SYMMETRY MCSymmetry
 
PROPERTIES CurrentViewIsKept
CHECK_DEADLOCK FALSE
