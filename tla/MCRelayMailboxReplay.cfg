\* A crash between the reservation and the envelope, then a retry.
SPECIFICATION Spec
CONSTANTS
  alice = alice
  bob = bob
  k1 = k1
  k2 = k2
  NoDeadline = NoDeadline
  None = None
  Identity = {alice, bob}
  Key = {k1}
  Handler = {h1}
  Request <- MCOneRequest
  EnvelopeTTLMax = 1
  IdempotencyTTL = 1
  DisconnectGrace = 1
  RoutingInactivityTTL = 2
  InboxLimit = 1
  MaxTime = 1
  MaxEnvelopes = 2
INVARIANTS
  ReplayNamesStoredEnvelope
