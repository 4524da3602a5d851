\* One handler and a fair sweeper: disconnects, revivals and prunes around a POST.
SPECIFICATION FairSpec
CONSTANTS
  alice = alice
  bob = bob
  k1 = k1
  k2 = k2
  NoDeadline = NoDeadline
  None = None
  Identity = {alice, bob}
  Key = {k1}
  Handler = {h1}
  Request <- MCDeadlineRequest
  EnvelopeTTLMax = 1
  IdempotencyTTL = 1
  DisconnectGrace = 1
  RoutingInactivityTTL = 2
  InboxLimit = 1
  MaxTime = 3
  MaxEnvelopes = 1
INVARIANT RoutingFollowsLastRequest
PROPERTIES ImplementsMailbox ExpiredIsSwept DisconnectIsSevered
