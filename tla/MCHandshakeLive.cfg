SPECIFICATION FairSpec
CONSTANTS
  A = A
  B = B
  C = C
  a1 = a1
  a2 = a2
  b2 = b2
  None = None
  Inviter = A
  Redeemer = {B}
  Thread = {a1, B, b2}
  DeviceOf <- DeviceOfThread
  Poller = {a1, B}
  Screen = {b2}
  Anchored = {}
  Expiring = {}
  Stopping = {}
  Fragile <- SurvivableFault
  MaxTroubles = 2
  MaxEnvelopes = 5
INVARIANT TypeOK
PROPERTY HelloConnectsBoth
CHECK_DEADLOCK FALSE
