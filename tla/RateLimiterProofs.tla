--------------------------- MODULE RateLimiterProofs ---------------------------
(***************************************************************************)
(* Proofs about RateLimiter, for any scopes, any rate whose bucket is full *)
(* before it is evicted, and any length of time.                           *)
(***************************************************************************)
EXTENDS RateLimiter, TLAPS

\* What a scope could be allowed at once.
Level(s) == IF s \in buckets THEN refilled(s) ELSE Burst

\* What was allowed in the window and what could still be, together, are no
\* more than the burst and the refill.
Paid == \A s \in Scope : spent[s] + Level(s) <= Burst + (now - since[s])

\* A bucket has a token, or all that was refilled since the last request it
\* allowed.
Patient ==
  \A s \in buckets : refilled(s) >= Cost \/ refilled(s) >= now - lastAllowed[s]

IInv == TypeOK /\ Paid /\ Patient

\* The burst holds a token, and fills within the eviction delay.
LEMMA BurstBounds == Burst \in Nat /\ Cost <= Burst /\ Burst <= IdleEvict
<1>1. Burst \in Nat /\ Cost <= Burst
  BY TickAssumption DEF Burst
<1>. QED
  BY <1>1, EvictAssumption

\* A refilled bucket holds what it held, or more, and no more than the burst.
LEMMA RefillBounds ==
  ASSUME TypeOK, NEW s \in Scope
  PROVE  refilled(s) \in 0 .. Burst
<1>. USE BurstBounds
<1>1. tokens[s] \in 0 .. Burst /\ lastRefill[s] \in 0 .. now /\ now \in Nat
  BY DEF TypeOK
<1>. QED
  BY <1>1 DEF refilled

\* A refill forgets nothing: a bucket just refilled holds what it held then.
LEMMA RefillIsExact ==
  ASSUME TypeOK, NEW s \in Scope, NEW left \in 0 .. Burst, now' = now,
         tokens' = [tokens EXCEPT ![s] = left],
         lastRefill' = [lastRefill EXCEPT ![s] = now]
  PROVE  /\ refilled(s)' = left
         /\ \A o \in Scope \ {s} : refilled(o)' = refilled(o)
<1>. USE BurstBounds
<1>1. tokens'[s] = left /\ lastRefill'[s] = now /\ now \in Nat
  BY DEF TypeOK
<1>2. refilled(s)' = left
  BY <1>1 DEF refilled
<1>3. \A o \in Scope \ {s} : tokens'[o] = tokens[o] /\ lastRefill'[o] = lastRefill[o]
  BY DEF TypeOK
<1>. QED
  BY <1>2, <1>3 DEF refilled

\* An allowed request takes its cost from what its scope had, and a bucket
\* that goes was full.
LEMMA AllowedStep ==
  ASSUME IInv, NEW s \in Scope, NEW left \in Nat, left + Cost = Level(s),
         Allowed(s, left)
  PROVE  IInv'
<1>. USE BurstBounds, TickAssumption
<1>1. \A o \in Scope : Level(o) \in 0 .. Burst
  BY RefillBounds DEF IInv, Level
<1>2. left \in 0 .. Burst
  BY <1>1
<1>3. /\ now' = now /\ since' = since /\ now \in Nat
      /\ tokens' = [tokens EXCEPT ![s] = left]
      /\ lastRefill' = [lastRefill EXCEPT ![s] = now]
      /\ spent' = [spent EXCEPT ![s] = @ + Cost]
      /\ lastAllowed' = [lastAllowed EXCEPT ![s] = now]
  BY DEF Allowed, IInv, TypeOK
<1>4. buckets' = {k \in buckets \cup {s} : now - lastRefill'[k] <= IdleEvict}
  BY DEF Allowed, evictIdleLocked
<1>5. refilled(s)' = left /\ \A o \in Scope \ {s} : refilled(o)' = refilled(o)
  BY <1>2, <1>3, RefillIsExact DEF IInv
<1>6. s \in buckets'
  BY <1>3, <1>4, EvictAssumption DEF IInv, TypeOK
<1>7. TypeOK'
  BY <1>2, <1>3, <1>4 DEF IInv, TypeOK
<1>8. ASSUME NEW o \in Scope \ {s}
      PROVE  Level(o)' = Level(o)
  <2>1. CASE o \notin buckets
    BY <1>4, <2>1 DEF Level
  <2>2. CASE o \in buckets /\ o \in buckets'
    BY <1>5, <2>2 DEF Level
  <2>3. CASE o \in buckets /\ o \notin buckets'
    <3>1. lastRefill'[o] = lastRefill[o] /\ lastRefill[o] \in 0 .. now /\ tokens[o] \in 0 .. Burst
      BY <1>3 DEF IInv, TypeOK
    <3>2. now - lastRefill[o] > IdleEvict
      BY <1>3, <1>4, <2>3, <3>1, EvictAssumption
    <3>3. refilled(o) = Burst
      BY <1>3, <3>1, <3>2, EvictAssumption DEF refilled
    <3>. QED
      BY <2>3, <3>3 DEF Level
  <2>. QED
    BY <2>1, <2>2, <2>3
<1>9. Paid'
  <2>. SUFFICES ASSUME NEW o \in Scope
                PROVE  spent'[o] + Level(o)' <= Burst + (now - since[o])
    BY <1>3 DEF Paid
  <2>1. spent[o] + Level(o) <= Burst + (now - since[o])
    BY DEF IInv, Paid
  <2>2. CASE o = s
    <3>1. Level(s)' = left /\ spent'[s] = spent[s] + Cost
      BY <1>3, <1>5, <1>6 DEF Level, IInv, TypeOK
    <3>2. spent[s] \in Nat /\ since[s] \in Nat
      BY DEF IInv, TypeOK
    <3>. QED
      BY <1>3, <2>1, <2>2, <3>1, <3>2
  <2>3. CASE o # s
    BY <1>3, <1>8, <2>1, <2>3 DEF IInv, TypeOK
  <2>. QED
    BY <2>2, <2>3
<1>10. Patient'
  <2>. SUFFICES ASSUME NEW o \in buckets'
                PROVE  refilled(o)' >= Cost \/ refilled(o)' >= now - lastAllowed'[o]
    BY <1>3 DEF Patient
  <2>1. CASE o = s
    BY <1>2, <1>3, <1>5, <2>1 DEF IInv, TypeOK
  <2>2. CASE o # s
    <3>1. o \in buckets /\ o \in Scope
      BY <1>4, <2>2 DEF IInv, TypeOK
    <3>. QED
      BY <1>3, <1>5, <2>2, <3>1 DEF IInv, Patient, TypeOK
  <2>. QED
    BY <2>1, <2>2
<1>. QED
  BY <1>7, <1>9, <1>10 DEF IInv

\* Every step keeps the invariant.
LEMMA Step == IInv /\ [Next]_vars => IInv'
<1>. SUFFICES ASSUME IInv, [Next]_vars PROVE IInv'
  OBVIOUS
<1>. USE BurstBounds, TickAssumption
<1>1. ASSUME NEW s \in Scope, AllowFirst(s) PROVE IInv'
  <2>1. Burst - Cost \in Nat /\ (Burst - Cost) + Cost = Level(s)
    BY <1>1 DEF AllowFirst, Level
  <2>. QED
    BY <1>1, <2>1, AllowedStep DEF AllowFirst
<1>2. ASSUME NEW s \in Scope, Allow(s) PROVE IInv'
  <2>1. refilled(s) \in 0 .. Burst
    BY RefillBounds DEF IInv
  <2>2. refilled(s) - Cost \in Nat /\ (refilled(s) - Cost) + Cost = Level(s)
    BY <1>2, <2>1 DEF Allow, Level
  <2>. QED
    BY <1>2, <2>2, AllowedStep DEF Allow
<1>3. ASSUME NEW s \in Scope, Deny(s) PROVE IInv'
  <2>1. refilled(s) \in 0 .. Burst
    BY RefillBounds DEF IInv
  <2>2. /\ now' = now /\ buckets' = buckets /\ lastAllowed' = lastAllowed
        /\ since' = since /\ spent' = spent
        /\ tokens' = [tokens EXCEPT ![s] = refilled(s)]
        /\ lastRefill' = [lastRefill EXCEPT ![s] = now]
    BY <1>3 DEF Deny
  <2>3. \A o \in Scope : refilled(o)' = refilled(o)
    BY <2>1, <2>2, RefillIsExact DEF IInv
  <2>4. TypeOK'
    BY <2>1, <2>2 DEF IInv, TypeOK
  <2>5. Paid'
    BY <2>2, <2>3 DEF IInv, Paid, Level
  <2>6. Patient'
    BY <2>2, <2>3 DEF IInv, Patient, TypeOK
  <2>. QED
    BY <2>4, <2>5, <2>6 DEF IInv
<1>4. CASE Tick
  <2>1. /\ now' = now + 1 /\ now \in Nat /\ now' \in 0 .. MaxNow
        /\ buckets' = buckets /\ tokens' = tokens /\ lastRefill' = lastRefill
        /\ lastAllowed' = lastAllowed /\ since' = since /\ spent' = spent
    BY <1>4 DEF Tick, code, IInv, TypeOK
  <2>2. ASSUME NEW s \in Scope
        PROVE  /\ refilled(s) \in 0 .. Burst
               /\ \/ refilled(s)' = refilled(s) + 1
                  \/ refilled(s) = Burst /\ refilled(s)' = Burst
    <3>1. tokens[s] \in 0 .. Burst /\ lastRefill[s] \in 0 .. now
      BY DEF IInv, TypeOK
    <3>. QED
      BY <2>1, <3>1 DEF refilled
  <2>3. TypeOK'
    BY <2>1 DEF IInv, TypeOK
  <2>4. Paid'
    <3>. SUFFICES ASSUME NEW s \in Scope
                  PROVE  spent[s] + Level(s)' <= Burst + ((now + 1) - since[s])
      BY <2>1 DEF Paid
    <3>1. spent[s] + Level(s) <= Burst + (now - since[s]) /\ spent[s] \in Nat /\ since[s] \in Nat
      BY DEF IInv, Paid, TypeOK
    <3>2. Level(s) \in Nat /\ Level(s)' \in Nat /\ Level(s)' <= Level(s) + 1
      BY <2>1, <2>2 DEF Level
    <3>. QED
      BY <2>1, <3>1, <3>2
  <2>5. Patient'
    <3>. SUFFICES ASSUME NEW s \in buckets
                  PROVE  refilled(s)' >= Cost \/ refilled(s)' >= (now + 1) - lastAllowed[s]
      BY <2>1 DEF Patient
    <3>1. s \in Scope /\ lastAllowed[s] \in Nat
      BY DEF IInv, TypeOK
    <3>2. refilled(s) >= Cost \/ refilled(s) >= now - lastAllowed[s]
      BY DEF IInv, Patient
    <3>. QED
      BY <2>1, <2>2, <3>1, <3>2
  <2>. QED
    BY <2>3, <2>4, <2>5 DEF IInv
<1>5. ASSUME NEW s \in Scope, Watch(s) PROVE IInv'
  <2>1. /\ now' = now /\ buckets' = buckets /\ tokens' = tokens
        /\ lastRefill' = lastRefill /\ lastAllowed' = lastAllowed
        /\ since' = [since EXCEPT ![s] = now] /\ spent' = [spent EXCEPT ![s] = 0]
        /\ now \in Nat
    BY <1>5 DEF Watch, code, IInv, TypeOK
  <2>2. \A o \in Scope : refilled(o)' = refilled(o) /\ Level(o)' = Level(o)
    BY <2>1 DEF refilled, Level
  <2>3. TypeOK'
    BY <2>1 DEF IInv, TypeOK
  <2>4. Paid'
    <3>. SUFFICES ASSUME NEW o \in Scope
                  PROVE  spent'[o] + Level(o) <= Burst + (now - since'[o])
      BY <2>1, <2>2 DEF Paid
    <3>1. Level(o) \in 0 .. Burst
      BY RefillBounds DEF IInv, Level
    <3>2. spent[o] + Level(o) <= Burst + (now - since[o])
      BY DEF IInv, Paid
    <3>3. CASE o = s
      <4>1. spent'[s] = 0 /\ since'[s] = now
        BY <2>1 DEF IInv, TypeOK
      <4>. QED
        BY <2>1, <3>1, <3>3, <4>1
    <3>4. CASE o # s
      BY <2>1, <3>2, <3>4 DEF IInv, TypeOK
    <3>. QED
      BY <3>3, <3>4
  <2>5. Patient'
    BY <2>1, <2>2 DEF IInv, Patient, TypeOK
  <2>. QED
    BY <2>3, <2>4, <2>5 DEF IInv
<1>6. CASE UNCHANGED vars
  <2>1. /\ now' = now /\ buckets' = buckets /\ tokens' = tokens
        /\ lastRefill' = lastRefill /\ lastAllowed' = lastAllowed
        /\ since' = since /\ spent' = spent
    BY <1>6 DEF vars, code
  <2>. QED
    BY <2>1 DEF IInv, TypeOK, Paid, Patient, Level, refilled
<1>. QED
  BY <1>1, <1>2, <1>3, <1>4, <1>5, <1>6 DEF Next

\* The invariant holds of every behaviour.
LEMMA Invariance == Spec => []IInv
<1>. USE BurstBounds, TickAssumption
<1>1. Init => IInv
  <2>. SUFFICES ASSUME Init PROVE IInv
    OBVIOUS
  <2>1. TypeOK
    BY DEF Init, TypeOK
  <2>2. Paid
    <3>. SUFFICES ASSUME NEW s \in Scope
                  PROVE  spent[s] + Level(s) <= Burst + (now - since[s])
      BY DEF Paid
    <3>1. spent[s] = 0 /\ since[s] = 0 /\ now = 0 /\ Level(s) = Burst
      BY DEF Init, Level
    <3>. QED
      BY <3>1
  <2>3. Patient
    BY DEF Init, Patient
  <2>. QED
    BY <2>1, <2>2, <2>3 DEF IInv
<1>. QED
  BY <1>1, Step, PTL DEF Spec

\* Buckets hold no more than the burst, and no time is ahead of the clock.
THEOREM TypeCorrect == Spec => []TypeOK
<1>1. IInv => TypeOK
  BY DEF IInv
<1>. QED
  BY <1>1, Invariance, PTL

\* No window of time sees more than the burst and the refill allowed, evicted
\* buckets or not.
THEOREM RateIsKept == Spec => []WithinRate
<1>1. IInv => WithinRate
  <2>. SUFFICES ASSUME IInv, NEW s \in Scope
                PROVE  spent[s] <= Burst + (now - since[s])
    BY DEF WithinRate
  <2>1. Level(s) \in 0 .. Burst
    BY RefillBounds, BurstBounds DEF IInv, Level
  <2>2. spent[s] + Level(s) <= Burst + (now - since[s])
    BY DEF IInv, Paid
  <2>3. spent[s] \in Nat /\ since[s] \in Nat /\ now \in Nat
    BY DEF IInv, TypeOK
  <2>. QED
    BY <2>1, <2>2, <2>3, BurstBounds
<1>. QED
  BY <1>1, Invariance, PTL

\* Denied requests never push a scope's next token away.
THEOREM PatienceRewarded == Spec => []PatienceIsEnough
<1>1. IInv => PatienceIsEnough
  <2>. SUFFICES ASSUME IInv, NEW s \in buckets, now - lastAllowed[s] >= Cost
                PROVE  refilled(s) >= Cost
    BY DEF PatienceIsEnough
  <2>1. refilled(s) \in Nat /\ now \in Nat /\ lastAllowed[s] \in Nat
    BY RefillBounds, BurstBounds DEF IInv, TypeOK
  <2>2. refilled(s) >= Cost \/ refilled(s) >= now - lastAllowed[s]
    BY DEF IInv, Patient
  <2>. QED
    BY <2>1, <2>2, TickAssumption
<1>. QED
  BY <1>1, Invariance, PTL
==============================================================================
