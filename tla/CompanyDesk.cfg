SPECIFICATION Spec
CONSTANTS
  k1 = k1
  k2 = k2
  q1 = q1
  a1 = a1
  a2 = a2
  a3 = a3
  u1 = u1
  c1 = c1
  Workers = {w1, w2}
  Keys = {k1, k2}
  Questions = {q1}
  Answers = {a1, a2, a3}
  QuestionOf <- MCQuestionOf
  SignerOf <- MCSignerOf
  ParentsOf <- MCParentsOf
  NamesFirst = {a3}
  Apologies = {u1}
  Clients = {c1}
  Gap = gap
  Lapse = lapse
  Uuids = {r1, r2}
  Revisions = {v1, v2}
  MaxCount = 1
  Mixes <- MCMixes
  MaxClock = 1
  MaxUpsets = 1
INVARIANTS  LineageHolds
PROPERTIES OverdueIsSettled
CHECK_DEADLOCK FALSE
