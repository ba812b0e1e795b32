SPECIFICATION Spec
CONSTANTS
  r1 = r1  r2 = r2  r3 = r3  a = a  b = b  c = c  g1 = g1  g2 = g2
  Records = {r1, r2}
  Identities = {a, b}
  Tags = {g1, g2}
  IdentityOf <- MCIdentity
  TagOf <- MCTag
  Writers = {w1, w2}
  Readers = {x1}
  Budget = 1
  MaxAppends = 3
  MaxFiles = 2
  MaxTroubles = 1
SYMMETRY Symmetry
INVARIANTS NothingIsLost IndexIsSound
PROPERTIES OnDiskStays ImplementsRecordLog
