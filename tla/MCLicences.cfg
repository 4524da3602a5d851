SPECIFICATION FairSpec
CONSTANTS
  q1 = q1
  q2 = q2
  o1 = o1
  o2 = o2
  u1 = u1
  u2 = u2
  Purchase = {q1}
  Plan = {1, 2}
  Operator = {o1, o2}
  Uploader = {u1, u2}
  MaxRequests = 3
  MaxTroubles = 1
INVARIANTS TypeOK GrantsDoNotStack
PROPERTY CoverageConverges
CHECK_DEADLOCK FALSE
