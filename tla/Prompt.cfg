\* A hook, two workers and a sweeper: two of them may die with a single attempt,
\* nobody dies where a failed attempt is made again.
SPECIFICATION FairSpec
CONSTANTS
  Workers = {w1, w2}
  Sweepers = {s1}
  Hook = h
  Bounds <- MCBounds
  MaxClaims = 1
  Told = FALSE
 
PROPERTIES StrandedIsRestarted
CHECK_DEADLOCK FALSE
