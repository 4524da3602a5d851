SPECIFICATION Spec
CONSTANTS
  A = A
  B = B
  C = C
  a1 = a1
  a2 = a2
  b2 = b2
  None = None
  Inviter = A
  Redeemer = {B}
  Thread = {a1, B, b2}
  DeviceOf <- DeviceOfThread
  Poller = {a1, B, b2}
  Screen = {a1, B, b2}
  Anchored = {B}
  Expiring = {A, B}
  Stopping = {A, B}
  Fragile <- AnyFault
  MaxTroubles = 1
  MaxEnvelopes = 3
INVARIANT RefusedStaysOut
CHECK_DEADLOCK FALSE
