---------------------------- MODULE MCRelayMailbox ----------------------------
(* A small relay: two peers, one message, retries allowed. *)
EXTENDS RelayMailbox

CONSTANTS alice, bob, k1, k2

MCOneRequest == {[from |-> alice, to |-> bob, key |-> k1, deadline |-> NoDeadline]}
\* A product deadline that cuts the retention short, or is cut short by it.
MCDeadlineRequest == {[from |-> alice, to |-> bob, key |-> k1, deadline |-> 2]}
==============================================================================
