SPECIFICATION FairSpec
CONSTANTS
  q1 = q1
  q2 = q2
  g = g
  Purchase = {q1}
  Grant = g
  MaxSyncs = 2
  MaxActions = 2
  MaxTroubles = 1
INVARIANT TypeOK
PROPERTIES ServerWins PlayComesBack
