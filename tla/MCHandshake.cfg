SPECIFICATION Spec
CONSTANTS
  A = A
  B = B
  C = C
  a1 = a1
  a2 = a2
  b2 = b2
  None = None
  Inviter = A
  Redeemer = {B, C}
  Thread = {a1, a2, B, C}
  DeviceOf <- DeviceOfThread
  Poller = {a1, a2, B, C}
  Screen = {a1, a2, B, C}
  Anchored = {B}
  Expiring = {A, B}
  Stopping = {A, B}
  Fragile <- AnyFault
  MaxTroubles = 1
  MaxEnvelopes = 3
SYMMETRY Symmetry
INVARIANT ConnectedCanWrite
PROPERTY ImplementsInvitation
CONSTRAINT OneThingAtATime
CHECK_DEADLOCK FALSE
