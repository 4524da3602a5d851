------------------------------ MODULE RateLimiter ------------------------------
(***************************************************************************)
(* The relay's token bucket limiter (relay/internal/ratelimit), one per    *)
(* identity and one per source IP.  Time is counted in ticks and tokens in *)
(* what a tick refills: a request costs the ticks between two requests at  *)
(* the configured rate.  The rounding of floating point is left out.       *)
(***************************************************************************)
EXTENDS Naturals

CONSTANTS
  Scope,      \* identities, or source IPs
  Second,     \* ticks in a second
  Cost,       \* ticks that refill one token
  IdleEvict,  \* ticks after which an unused bucket is evicted
  MaxNow      \* bound of the model

ASSUME TickAssumption == Second \in Nat \ {0} /\ Cost \in Nat \ {0} /\ MaxNow \in Nat

\* max(4*rate, 1) tokens.
Burst == IF 4 * Second < Cost THEN Cost ELSE 4 * Second

\* A bucket is full before it is evicted: with the ten minutes of the code, at
\* any rate of a request in ten minutes or more.
ASSUME EvictAssumption == IdleEvict \in Nat /\ Burst <= IdleEvict

VARIABLES
  now,
  buckets,      \* scopes that have a bucket
  tokens, lastRefill,
  \* history: the end of each scope's last allowed request; and, for each
  \* scope, a window that starts at some time, and what was allowed since
  lastAllowed, since, spent

code == <<buckets, tokens, lastRefill>>
vars == <<now, code, lastAllowed, since, spent>>

TypeOK ==
  /\ now \in 0 .. MaxNow
  /\ buckets \subseteq Scope
  /\ tokens \in [Scope -> 0 .. Burst]
  /\ lastRefill \in [Scope -> 0 .. now]
  /\ lastAllowed \in [Scope -> 0 .. now]
  /\ since \in [Scope -> 0 .. now]
  /\ spent \in [Scope -> Nat]

Init ==
  /\ now = 0
  /\ buckets = {}
  /\ tokens = [s \in Scope |-> 0] /\ lastRefill = [s \in Scope |-> 0]
  /\ lastAllowed = [s \in Scope |-> 0]
  /\ since = [s \in Scope |-> 0] /\ spent = [s \in Scope |-> 0]

\* What the bucket of `s` holds once it is refilled.
refilled(s) ==
  IF tokens[s] + (now - lastRefill[s]) > Burst THEN Burst
  ELSE tokens[s] + (now - lastRefill[s])

\* Mutant: buckets go before they are full.
evictEarly(live, refill) == {k \in live : now - refill[k] < Cost}

\* Buckets not refilled for IdleEvict go.
evictIdleLocked(live, refill) == {k \in live : now - refill[k] <= IdleEvict}

Allowed(s, left) ==
  /\ tokens' = [tokens EXCEPT ![s] = left]
  /\ lastRefill' = [lastRefill EXCEPT ![s] = now]
  /\ buckets' = evictIdleLocked(buckets \cup {s}, lastRefill')
  /\ lastAllowed' = [lastAllowed EXCEPT ![s] = now]
  /\ spent' = [spent EXCEPT ![s] = @ + Cost]
  /\ UNCHANGED <<now, since>>

AllowFirst(s) ==
  /\ s \notin buckets
  /\ Allowed(s, Burst - Cost)

\* Mutant: a request is allowed on what is left of a token.
AllowAny(s) ==
  /\ s \in buckets
  /\ refilled(s) >= 1
  /\ Allowed(s, refilled(s) - Cost)

Allow(s) ==
  /\ s \in buckets
  /\ refilled(s) >= Cost
  /\ Allowed(s, refilled(s) - Cost)

\* Mutant: the part of a token refilled since the last request is lost.
DenyAndForget(s) ==
  /\ s \in buckets
  /\ refilled(s) < Cost
  /\ lastRefill' = [lastRefill EXCEPT ![s] = now]
  /\ UNCHANGED <<now, buckets, tokens, lastAllowed, since, spent>>

\* A denied request refills the bucket, and evicts nothing.
Deny(s) ==
  /\ s \in buckets
  /\ refilled(s) < Cost
  /\ tokens' = [tokens EXCEPT ![s] = refilled(s)]
  /\ lastRefill' = [lastRefill EXCEPT ![s] = now]
  /\ UNCHANGED <<now, buckets, lastAllowed, since, spent>>

Tick ==
  /\ now < MaxNow
  /\ now' = now + 1
  /\ UNCHANGED <<code, lastAllowed, since, spent>>

\* The window of `s` starts.
Watch(s) ==
  /\ since' = [since EXCEPT ![s] = now]
  /\ spent' = [spent EXCEPT ![s] = 0]
  /\ UNCHANGED <<now, code, lastAllowed>>

Next ==
  \/ \E s \in Scope : AllowFirst(s) \/ Allow(s) \/ Deny(s) \/ Watch(s)
  \/ Tick

Spec == Init /\ [][Next]_vars

------------------------------------------------------------------------------
(* Properties. *)

\* In any window of time, a scope is allowed no more than the burst and what
\* the rate refills in that time: an evicted bucket that is made anew, full,
\* gives nothing away.
WithinRate == \A s \in Scope : spent[s] <= Burst + (now - since[s])

\* A scope that was allowed nothing for as long as one token takes is allowed
\* its next request, however many were denied meanwhile.
PatienceIsEnough ==
  \A s \in buckets : now - lastAllowed[s] >= Cost => refilled(s) >= Cost
==============================================================================
