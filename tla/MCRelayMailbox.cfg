\* One message retried by two concurrent handlers, with sweeps and crashes.
SPECIFICATION Spec
CONSTANTS
  alice = alice
  bob = bob
  k1 = k1
  k2 = k2
  NoDeadline = NoDeadline
  None = None
  Identity = {alice, bob}
  Key = {k1}
  Handler = {h1, h2}
  Request <- MCOneRequest
  EnvelopeTTLMax = 2
  IdempotencyTTL = 1
  DisconnectGrace = 1
  RoutingInactivityTTL = 2
  InboxLimit = 1
  MaxTime = 1
  MaxEnvelopes = 2
INVARIANTS TypeOK RetryWithinWindow AckedNeverReturns AcceptedIsKept
PROPERTY ImplementsMailbox
