-------------------------- MODULE RelayMailboxProofs --------------------------
(***************************************************************************)
(* Proofs about RelayMailbox for every number of identities, handlers and  *)
(* requests and every duration: its type invariant, that retries inside    *)
(* the idempotency window share one envelope id, that an accepted envelope *)
(* is kept and an acknowledged one never comes back, and that the relay    *)
(* implements Mailbox.                                                     *)
(***************************************************************************)
EXTENDS RelayMailbox, TLAPS

\* Some idempotency window of this owner has run out.
SomeClosed(o) == \E c \in reservations : c.owner = o /\ c.until <= now

ClockInv ==
  /\ now <= MaxTime
  /\ sweep.start <= now
  /\ \A h \in Handler : stamp[h] <= now

\* Why RetryWithinWindow is preserved: an entry is in the history, an owner
\* that has been served and has no entry has a window that ran out, and so
\* has the owner of a handler that found an expired entry.
WindowInv ==
  /\ \A o \in Owner : idem[o] # None =>
       [owner |-> o, id |-> idem[o].id, until |-> idem[o].until] \in reservations
  /\ \A r \in reservations : idem[r.owner] = None => SomeClosed(r.owner)
  /\ \A h \in Handler : pc[h] = "expired" => SomeClosed(OwnerOf(req[h]))
  /\ RetryWithinWindow

\* Why an id names at most one envelope: ids are handed out once, and a
\* handler that holds an unused one holds it alone.
StoreInv ==
  /\ nextId <= MaxEnvelopes
  /\ envelopes \subseteq stored
  /\ stored \subseteq PossibleEnvelopes
  /\ \A e \in stored : e.id < nextId
  /\ \A e, f \in stored : e.id = f.id => e = f
  /\ \A h \in Handler : pc[h] \in {"reserved", "stored"} => eid[h] < nextId
  /\ \A h \in Handler : pc[h] = "reserved" => \A e \in stored : e.id # eid[h]
  /\ \A h, g \in Handler :
       (pc[h] = "reserved" /\ pc[g] = "reserved" /\ eid[h] = eid[g]) => h = g
  /\ \A h \in Handler : pc[h] = "stored" => \E e \in stored : e.id = eid[h]

\* What becomes of a stored envelope.
FateInv ==
  /\ \A id \in acked : \E e \in stored : e.id = id
  /\ \A e \in stored \ envelopes : e.id \in acked \/ e.until <= now
  /\ \A id \in created : \E e \in stored : e.id = id
  /\ AckedNeverReturns

IInv == TypeOK /\ ClockInv /\ WindowInv /\ StoreInv /\ FateInv

------------------------------------------------------------------------------
(* Types *)

\* The pair and the owner of a request are indices of the tables, and a
\* retention instant is an instant.
LEMMA RequestTypes ==
  ASSUME NEW r \in Request
  PROVE  /\ OwnerOf(r) \in Owner
         /\ PairOf(r) \in Pair
         /\ \A t \in Nat : envelopeRetentionUntil(r, t) \in Nat
         /\ \A n, t \in Nat : EnvelopeOf(n, r, t) \in Kept
<1>1. r \in [from : Identity, to : Identity, key : Key, deadline : Nat \cup {NoDeadline}]
  BY RequestAssumption
<1>2. \A t \in Nat : envelopeRetentionUntil(r, t) \in Nat
  BY <1>1, DurationAssumption DEF envelopeRetentionUntil
<1>3. OwnerOf(r) \in Owner /\ PairOf(r) \in Pair
  BY <1>1 DEF OwnerOf, Owner, PairOf, Pair
<1>4. \A n, t \in Nat : EnvelopeOf(n, r, t) \in Kept
  BY <1>1, <1>2 DEF EnvelopeOf, Kept
<1> QED BY <1>2, <1>3, <1>4

\* A finished handler is idle and well typed.
LEMMA FinishTypes ==
  ASSUME TypeOK, NEW h \in Handler, Finish(h)
  PROVE  /\ pc' \in [Handler -> {"idle", "admitted", "stamped", "absent", "expired",
                                "reserved", "stored"}]
         /\ req' \in [Handler -> Request \cup {None}]
         /\ \A g \in Handler : pc'[g] # "idle" => req'[g] \in Request
         /\ stamp' \in [Handler -> Nat]
         /\ eid' \in [Handler -> Nat]
  BY DEF TypeOK, Finish

\* Every variable keeps its type (the code behaviour: rows, handlers and
\* sweeps as store.go and api.go shape them).
THEOREM TypeCorrect == Spec => []TypeOK
<1>1. Init => TypeOK
  BY BoundAssumption DEF Init, TypeOK, Pair, Owner
<1>2. ASSUME TypeOK, [Next]_vars PROVE TypeOK'
  <2> USE <1>2
  <2>1. ASSUME NEW h \in Handler, NEW r \in Request, Receive(h, r) PROVE TypeOK'
    <3>1. req' \in [Handler -> Request \cup {None}] /\ pc'[h] = "admitted" /\ req'[h] = r
      BY <2>1 DEF Receive, TypeOK
    <3> QED BY <2>1, <3>1 DEF Receive, TypeOK, tables, history
  <2>2. ASSUME NEW h \in Handler, Stamp(h) PROVE TypeOK'
    BY <2>2 DEF Stamp, TypeOK, tables, history
  <2>3. ASSUME NEW h \in Handler, SelectEntry(h) PROVE TypeOK'
    BY <2>3 DEF SelectEntry, TypeOK, tables, history
  <2>4. ASSUME NEW h \in Handler, Replay(h) PROVE TypeOK'
    <3>1. idem[OwnerOf(req[h])].id \in Nat
      BY <2>4, RequestTypes DEF Replay, TypeOK, Entry
    <3> QED BY <2>4, <3>1, FinishTypes DEF Replay, TypeOK, tables
  <2>5. ASSUME NEW h \in Handler, Reserve(h) PROVE TypeOK'
    <3>1. OwnerOf(req[h]) \in Owner /\ stamp[h] + IdempotencyTTL \in Nat
      BY <2>5, RequestTypes, DurationAssumption DEF Reserve, TypeOK
    <3>2. [owner |-> OwnerOf(req[h]), id |-> nextId, until |-> stamp[h] + IdempotencyTTL]
            \in Reservation
      BY <3>1 DEF Reservation, TypeOK
    <3> QED BY <2>5, <3>1, <3>2 DEF Reserve, TypeOK, Entry
  <2>6. ASSUME NEW h \in Handler, StoreEnvelope(h) PROVE TypeOK'
    <3>1. EnvelopeOf(eid[h], req[h], stamp[h]) \in Kept
      BY <2>6, RequestTypes DEF StoreEnvelope, TypeOK
    <3> QED BY <2>6, <3>1 DEF StoreEnvelope, TypeOK
  <2>7. ASSUME NEW h \in Handler, Accepted(h) PROVE TypeOK'
    <3> DEFINE p == PairOf(req[h])
               seen == [routing[p] EXCEPT !.lastSeen = now]
    <3>1. HasRouting(p) => routing[p] \in Route
      BY <2>7, RequestTypes DEF Accepted, TypeOK, HasRouting
    <3>2. HasRouting(p) => seen \in Route
      BY <3>1 DEF TypeOK, Route
    <3>3. routing' \in [Pair -> Route \cup {None}]
      BY <2>7, <3>2 DEF Accepted, TypeOK
    <3> QED BY <2>7, <3>3, FinishTypes DEF Accepted, TypeOK
  <2>8. ASSUME NEW h \in Handler, Abort(h) PROVE TypeOK'
    BY <2>8, FinishTypes DEF Abort, TypeOK, tables, history
  <2>9. ASSUME NEW i \in Identity, FetchInbox(i) PROVE TypeOK'
    <3>1. PICK batch \in SUBSET envelopes :
            holding' = [holding EXCEPT ![i] = {e.id : e \in batch}]
      BY <2>9 DEF FetchInbox
    <3>2. {e.id : e \in batch} \in SUBSET Nat
      BY DEF TypeOK, Kept
    <3> QED BY <2>9, <3>1, <3>2 DEF FetchInbox, TypeOK, tables, posting, history
  <2>10. ASSUME NEW i \in Identity, NEW id \in holding[i], AckEnvelope(i, id) PROVE TypeOK'
    <3>1. {e.id : e \in {f \in envelopes : f.id = id /\ f.to = i}} \in SUBSET Nat
      BY DEF TypeOK, Kept
    <3> QED BY <2>10, <3>1 DEF AckEnvelope, TypeOK, posting
  <2>11. ASSUME NEW i \in Identity, LoseBatch(i) PROVE TypeOK'
    BY <2>11 DEF LoseBatch, TypeOK, tables, posting, history
  <2>12. ASSUME NEW a \in Identity, NEW b \in Identity, EstablishRouting(a, b) PROVE TypeOK'
    BY <2>12 DEF EstablishRouting, TypeOK, posting, history, Route
  <2>13. ASSUME NEW a \in Identity, NEW b \in Identity, MarkDisconnecting(a, b) PROVE TypeOK'
    <3>1. {a, b} \in Pair
      BY DEF Pair
    <3>2. routing[{a, b}] \in Route
      BY <2>13, <3>1 DEF MarkDisconnecting, HasRouting, TypeOK
    <3>3. [routing[{a, b}] EXCEPT !.status = "disconnecting", !.since = now] \in Route
      BY <3>2, SentinelAssumption DEF TypeOK, Route
    <3>4. routing' \in [Pair -> Route \cup {None}]
      BY <2>13, <3>1, <3>3 DEF MarkDisconnecting, TypeOK
    <3> QED BY <2>13, <3>4 DEF MarkDisconnecting, TypeOK, posting, history
  <2>14. CASE SweepStart
    BY <2>14 DEF SweepStart, TypeOK, tables, posting, history
  <2>15. CASE SweepEnvelopes
    BY <2>15 DEF SweepEnvelopes, TypeOK, posting, history
  <2>16. CASE SweepIdempotency
    BY <2>16 DEF SweepIdempotency, TypeOK, posting, history
  <2>17. CASE PruneExpiredRouting
    BY <2>17 DEF PruneExpiredRouting, TypeOK, posting, history
  <2>18. CASE SweepPassFails
    BY <2>18 DEF SweepPassFails, TypeOK, tables, posting, history
  <2>19. CASE Crash
    BY <2>19 DEF Crash, TypeOK, tables, history
  <2>20. CASE Tick
    BY <2>20 DEF Tick, TypeOK, tables, posting, history
  <2>21. CASE UNCHANGED vars
    BY <2>21 DEF vars, TypeOK, tables, posting, history
  <2> QED BY <2>1, <2>2, <2>3, <2>4, <2>5, <2>6, <2>7, <2>8, <2>9, <2>10, <2>11, <2>12,
             <2>13, <2>14, <2>15, <2>16, <2>17, <2>18, <2>19, <2>20, <2>21 DEF Next
<1> QED BY <1>1, <1>2, PTL DEF Spec

------------------------------------------------------------------------------
(* The clock *)

\* Captured instants are never ahead of the clock.
LEMMA ClockStep ==
  ASSUME TypeOK, ClockInv, [Next]_vars
  PROVE  ClockInv'
<1> USE BoundAssumption DEF TypeOK, ClockInv
<1>1. ASSUME NEW h \in Handler, NEW r \in Request, Receive(h, r) PROVE ClockInv'
  BY <1>1 DEF Receive
<1>2. ASSUME NEW h \in Handler,
             \/ Stamp(h) \/ SelectEntry(h) \/ Reserve(h) \/ StoreEnvelope(h)
      PROVE  ClockInv'
  BY <1>2 DEF Stamp, SelectEntry, Reserve, StoreEnvelope
<1>3. ASSUME NEW h \in Handler, Replay(h) \/ Accepted(h) \/ Abort(h) PROVE ClockInv'
  BY <1>3 DEF Replay, Accepted, Abort, Finish
<1>4. ASSUME NEW i \in Identity,
             \/ FetchInbox(i) \/ LoseBatch(i)
             \/ \E id \in holding[i] : AckEnvelope(i, id)
      PROVE  ClockInv'
  BY <1>4 DEF FetchInbox, LoseBatch, AckEnvelope, posting
<1>5. ASSUME NEW a \in Identity, NEW b \in Identity,
             EstablishRouting(a, b) \/ MarkDisconnecting(a, b)
      PROVE  ClockInv'
  BY <1>5 DEF EstablishRouting, MarkDisconnecting, posting
<1>6. CASE SweepStart \/ SweepEnvelopes \/ SweepIdempotency \/ PruneExpiredRouting
  BY <1>6 DEF SweepStart, SweepEnvelopes, SweepIdempotency, PruneExpiredRouting, posting
<1>7. CASE SweepPassFails
  BY <1>7 DEF SweepPassFails, posting
<1>8. CASE Crash
  BY <1>8 DEF Crash
<1>9. CASE Tick
  BY <1>9 DEF Tick, posting
<1>10. CASE UNCHANGED vars
  BY <1>10 DEF vars, posting
<1> QED BY <1>1, <1>2, <1>3, <1>4, <1>5, <1>6, <1>7, <1>8, <1>9, <1>10 DEF Next

------------------------------------------------------------------------------
(* Idempotency *)

\* A window that has run out stays in the history, run out.
LEMMA ClosedStays ==
  ASSUME now \in Nat, now' \in Nat, now <= now', reservations \subseteq Reservation,
         reservations \subseteq reservations', NEW o, SomeClosed(o)
  PROVE  SomeClosed(o)'
<1>1. PICK c \in reservations : c.owner = o /\ c.until <= now
  BY DEF SomeClosed
<1>2. c.until \in Nat
  BY DEF Reservation
<1> QED BY <1>1, <1>2 DEF SomeClosed

\* Steps that touch neither the entries nor their history, and that no handler
\* uses to find an expired entry, keep WindowInv.
LEMMA WindowFrame ==
  ASSUME TypeOK, WindowInv, now' \in Nat, now <= now',
         UNCHANGED <<idem, reservations>>,
         \A h \in Handler : pc'[h] = "expired" => pc[h] = "expired" /\ req'[h] = req[h]
  PROVE  WindowInv'
<1>1. \A o : SomeClosed(o) => SomeClosed(o)'
  BY ClosedStays DEF TypeOK
<1>2. \A h \in Handler : pc'[h] = "expired" => SomeClosed(OwnerOf(req[h]))'
  BY <1>1 DEF WindowInv, OwnerOf
<1>3. RetryWithinWindow'
  BY <1>1 DEF WindowInv, RetryWithinWindow, SomeClosed
<1> QED BY <1>1, <1>2, <1>3 DEF WindowInv

LEMMA WindowStep ==
  ASSUME TypeOK, TypeOK', ClockInv, WindowInv, [Next]_vars
  PROVE  WindowInv'
<1>1. ASSUME NEW h \in Handler, SelectEntry(h) PROVE WindowInv'
  <2> DEFINE o == OwnerOf(req[h])
  <2>1. o \in Owner
    BY <1>1, RequestTypes DEF SelectEntry, TypeOK
  <2>2. idem[o] # None => SomeClosed(o)
    <3> SUFFICES ASSUME idem[o] # None PROVE SomeClosed(o)
      OBVIOUS
    <3>1. idem[o].until <= stamp[h] /\ idem[o].until \in Nat
      BY <1>1, <2>1 DEF SelectEntry, TypeOK, Entry
    <3>2. idem[o].until <= now
      BY <3>1 DEF ClockInv, TypeOK
    <3> QED BY <2>1, <3>2 DEF WindowInv, SomeClosed
  <2>3. \A x : SomeClosed(x)' <=> SomeClosed(x)
    BY <1>1 DEF SelectEntry, history, SomeClosed
  <2>4. \A g \in Handler : pc'[g] = "expired" => SomeClosed(OwnerOf(req'[g]))
    BY <1>1, <2>2 DEF SelectEntry, TypeOK, WindowInv
  <2> QED BY <1>1, <2>3, <2>4 DEF SelectEntry, WindowInv, RetryWithinWindow, OwnerOf,
             tables, history
<1>2. ASSUME NEW h \in Handler, Reserve(h) PROVE WindowInv'
  <2> DEFINE o == OwnerOf(req[h])
             new == [owner |-> o, id |-> nextId, until |-> stamp[h] + IdempotencyTTL]
  <2>1. o \in Owner
    BY <1>2, RequestTypes DEF Reserve, TypeOK
  <2>2. reservations' = reservations \cup {new} /\ now' = now
    BY <1>2 DEF Reserve
  <2>3. \A r \in reservations : r.owner = o => SomeClosed(o)
    BY <1>2 DEF Reserve, WindowInv
  <2>4. \A x : SomeClosed(x) => SomeClosed(x)'
    BY <2>2 DEF SomeClosed
  <2>5. /\ idem'[o] = [id |-> nextId, until |-> stamp[h] + IdempotencyTTL]
        /\ \A x \in Owner \ {o} : idem'[x] = idem[x]
    BY <1>2, <2>1 DEF Reserve, TypeOK
  <2>6. \A x \in Owner : idem'[x] # None =>
          [owner |-> x, id |-> idem'[x].id, until |-> idem'[x].until] \in reservations'
    BY <2>2, <2>5 DEF WindowInv
  <2>7. \A r \in reservations' : idem'[r.owner] = None => SomeClosed(r.owner)'
    <3> SUFFICES ASSUME NEW r \in reservations', idem'[r.owner] = None
                 PROVE  SomeClosed(r.owner)'
      OBVIOUS
    <3>1. r.owner # o
      BY <1>2, <2>5, SentinelAssumption, DurationAssumption DEF TypeOK, Reserve, Entry
    <3>2. r \in reservations /\ r.owner \in Owner
      BY <2>2, <3>1 DEF TypeOK, Reservation
    <3> QED BY <2>4, <2>5, <3>1, <3>2 DEF WindowInv
  <2>8. \A g \in Handler : pc'[g] = "expired" => SomeClosed(OwnerOf(req[g]))'
    BY <1>2, <2>4 DEF Reserve, TypeOK, WindowInv, OwnerOf
  <2>9. RetryWithinWindow'
    <3> SUFFICES ASSUME NEW a \in reservations', NEW b \in reservations',
                        a.owner = b.owner, a # b
                 PROVE  SomeClosed(a.owner)'
      BY DEF RetryWithinWindow, SomeClosed
    <3>1. CASE a \in reservations /\ b \in reservations
      BY <2>4, <3>1 DEF WindowInv, RetryWithinWindow, SomeClosed
    <3>2. CASE a = new \/ b = new
      BY <2>2, <2>3, <2>4, <3>2
    <3> QED BY <2>2, <3>1, <3>2
  <2> QED BY <2>6, <2>7, <2>8, <2>9 DEF WindowInv
<1>3. CASE SweepIdempotency
  <2>1. reservations' = reservations /\ now' = now /\ pc' = pc /\ req' = req
    BY <1>3 DEF SweepIdempotency, history, posting
  <2>2. \A o \in Owner : \/ idem'[o] = idem[o]
                         \/ idem'[o] = None /\ idem[o] # None /\ idem[o].until <= sweep.start
    BY <1>3 DEF SweepIdempotency
  <2>3. \A o \in Owner : idem'[o] # idem[o] => SomeClosed(o)
    <3> SUFFICES ASSUME NEW o \in Owner, idem[o] # None, idem[o].until <= sweep.start
                 PROVE  SomeClosed(o)
      BY <2>2
    <3>1. idem[o].until <= now
      BY DEF ClockInv, TypeOK, Entry
    <3> QED BY <3>1 DEF WindowInv, SomeClosed
  <2>4. \A x : SomeClosed(x)' <=> SomeClosed(x)
    BY <2>1 DEF SomeClosed
  <2>5. \A r \in reservations : r.owner \in Owner
    BY DEF TypeOK, Reservation
  <2>6. \A r \in reservations' : idem'[r.owner] = None => SomeClosed(r.owner)'
    BY <2>1, <2>3, <2>4, <2>5 DEF WindowInv
  <2>7. RetryWithinWindow'
    BY <2>1 DEF WindowInv, RetryWithinWindow
  <2>8. \A o \in Owner : idem'[o] # None =>
          [owner |-> o, id |-> idem'[o].id, until |-> idem'[o].until] \in reservations'
    BY <2>1, <2>2 DEF WindowInv
  <2> QED BY <2>1, <2>4, <2>6, <2>7, <2>8 DEF WindowInv, OwnerOf
<1>4. ASSUME NEW h \in Handler, NEW r \in Request, Receive(h, r) PROVE WindowInv'
  BY <1>4, WindowFrame DEF Receive, TypeOK, tables, history
<1>5. ASSUME NEW h \in Handler, Stamp(h) \/ StoreEnvelope(h) PROVE WindowInv'
  BY <1>5, WindowFrame DEF Stamp, StoreEnvelope, TypeOK, tables, history
<1>6. ASSUME NEW h \in Handler, Replay(h) \/ Accepted(h) \/ Abort(h) PROVE WindowInv'
  BY <1>6, WindowFrame DEF Replay, Accepted, Abort, Finish, TypeOK, tables, history
<1>7. ASSUME NEW i \in Identity,
             \/ FetchInbox(i) \/ LoseBatch(i)
             \/ \E id \in holding[i] : AckEnvelope(i, id)
      PROVE  WindowInv'
  <2>1. UNCHANGED <<now, idem, reservations, pc, req>>
    BY <1>7 DEF FetchInbox, LoseBatch, AckEnvelope, tables, posting, history
  <2> QED BY <2>1, WindowFrame DEF TypeOK
<1>8. ASSUME NEW a \in Identity, NEW b \in Identity,
             EstablishRouting(a, b) \/ MarkDisconnecting(a, b)
      PROVE  WindowInv'
  BY <1>8, WindowFrame DEF EstablishRouting, MarkDisconnecting, TypeOK, posting, history
<1>9. CASE SweepStart \/ SweepEnvelopes \/ PruneExpiredRouting \/ SweepPassFails
  BY <1>9, WindowFrame DEF SweepStart, SweepEnvelopes, PruneExpiredRouting, SweepPassFails,
     TypeOK, tables, posting, history
<1>10. CASE Crash
  BY <1>10, WindowFrame DEF Crash, TypeOK, tables, history
<1>11. CASE Tick
  BY <1>11, WindowFrame DEF Tick, TypeOK, tables, posting, history
<1>12. CASE UNCHANGED vars
  BY <1>12, WindowFrame DEF vars, TypeOK, tables, posting, history
<1> QED BY <1>1, <1>2, <1>3, <1>4, <1>5, <1>6, <1>7, <1>8, <1>9, <1>10, <1>11, <1>12
        DEF Next

------------------------------------------------------------------------------
(* Envelopes *)

\* Steps that store nothing, hand out no id and bring no handler to a step
\* that owns one keep StoreInv.
LEMMA StoreFrame ==
  ASSUME StoreInv, UNCHANGED <<nextId, stored>>, envelopes' \subseteq envelopes,
         \A h \in Handler : pc'[h] \in {"reserved", "stored"}
                            => pc'[h] = pc[h] /\ eid'[h] = eid[h]
  PROVE  StoreInv'
  BY DEF StoreInv, PossibleEnvelopes

LEMMA StoreStep ==
  ASSUME TypeOK, ClockInv, StoreInv, [Next]_vars
  PROVE  StoreInv'
<1>1. ASSUME NEW h \in Handler, Reserve(h) PROVE StoreInv'
  <2>1. /\ nextId' = nextId + 1 /\ nextId < MaxEnvelopes
        /\ UNCHANGED <<envelopes, stored>>
        /\ pc'[h] = "reserved" /\ eid'[h] = nextId
        /\ \A g \in Handler \ {h} : pc'[g] = pc[g] /\ eid'[g] = eid[g]
    BY <1>1 DEF Reserve, TypeOK
  <2>2. nextId' <= MaxEnvelopes /\ envelopes' \subseteq stored' /\ stored' \subseteq PossibleEnvelopes
    BY <2>1, BoundAssumption DEF StoreInv, TypeOK
  <2>3. \A e \in stored' : e.id < nextId'
    BY <2>1 DEF StoreInv, TypeOK, Kept
  <2>4. \A g \in Handler : pc'[g] \in {"reserved", "stored"} => eid'[g] < nextId'
    BY <2>1 DEF StoreInv, TypeOK
  <2>5. \A g \in Handler : pc'[g] = "reserved" => \A e \in stored' : e.id # eid'[g]
    BY <2>1 DEF StoreInv, TypeOK, Kept
  <2>6. \A g \in Handler \ {h} : pc'[g] = "reserved" => eid'[g] # eid'[h]
    BY <2>1 DEF StoreInv, TypeOK
  <2> QED BY <2>1, <2>2, <2>3, <2>4, <2>5, <2>6 DEF StoreInv, PossibleEnvelopes
<1>2. ASSUME NEW h \in Handler, StoreEnvelope(h) PROVE StoreInv'
  <2> DEFINE new == EnvelopeOf(eid[h], req[h], stamp[h])
  <2>1. /\ pc[h] = "reserved"
        /\ envelopes' = envelopes \cup {new} /\ stored' = stored \cup {new}
        /\ nextId' = nextId /\ eid' = eid
        /\ pc'[h] = "stored"
        /\ \A g \in Handler \ {h} : pc'[g] = pc[g]
    BY <1>2 DEF StoreEnvelope, TypeOK
  <2>2. new.id = eid[h] /\ eid[h] < nextId /\ eid[h] \in Nat
    BY <2>1 DEF EnvelopeOf, StoreInv, TypeOK
  <2>3. new \in PossibleEnvelopes
    <3>1. eid[h] \in 0..(MaxEnvelopes - 1)
      BY <2>2, BoundAssumption DEF StoreInv, TypeOK
    <3>2. stamp[h] \in 0..MaxTime
      BY BoundAssumption DEF ClockInv, TypeOK
    <3>3. req[h] \in Request
      BY <2>1 DEF TypeOK
    <3> QED BY <3>1, <3>2, <3>3 DEF PossibleEnvelopes
  <2>4. \A e \in stored : e.id # new.id
    BY <2>1, <2>2 DEF StoreInv
  <2>5. \A e, f \in stored' : e.id = f.id => e = f
    BY <2>1, <2>4 DEF StoreInv
  <2>6. \A g \in Handler : pc'[g] = "reserved" => \A e \in stored' : e.id # eid'[g]
    BY <2>1, <2>2 DEF StoreInv
  <2>7. \A g \in Handler : pc'[g] = "stored" => \E e \in stored' : e.id = eid'[g]
    BY <2>1, <2>2 DEF StoreInv
  <2>8. PossibleEnvelopes' = PossibleEnvelopes
    BY DEF PossibleEnvelopes
  <2>9. /\ nextId' <= MaxEnvelopes /\ envelopes' \subseteq stored'
        /\ stored' \subseteq PossibleEnvelopes
        /\ \A e \in stored' : e.id < nextId'
    BY <2>1, <2>2, <2>3 DEF StoreInv
  <2>10. \A g \in Handler : pc'[g] \in {"reserved", "stored"} => eid'[g] < nextId'
    BY <2>1, <2>2 DEF StoreInv
  <2>11. \A g, k \in Handler : (pc'[g] = "reserved" /\ pc'[k] = "reserved" /\ eid'[g] = eid'[k])
                              => g = k
    BY <2>1 DEF StoreInv
  <2> QED BY <2>5, <2>6, <2>7, <2>8, <2>9, <2>10, <2>11 DEF StoreInv
<1>3. ASSUME NEW h \in Handler, NEW r \in Request, Receive(h, r) PROVE StoreInv'
  BY <1>3, StoreFrame DEF Receive, TypeOK, tables, history
<1>4. ASSUME NEW h \in Handler, Stamp(h) \/ SelectEntry(h) PROVE StoreInv'
  BY <1>4, StoreFrame DEF Stamp, SelectEntry, TypeOK, tables, history
<1>5. ASSUME NEW h \in Handler, Replay(h) \/ Accepted(h) \/ Abort(h) PROVE StoreInv'
  BY <1>5, StoreFrame DEF Replay, Accepted, Abort, Finish, TypeOK, tables, history
<1>6. ASSUME NEW i \in Identity,
             \/ FetchInbox(i) \/ LoseBatch(i)
             \/ \E id \in holding[i] : AckEnvelope(i, id)
      PROVE  StoreInv'
  <2>1. UNCHANGED <<nextId, stored, pc, eid>> /\ envelopes' \subseteq envelopes
    BY <1>6 DEF FetchInbox, LoseBatch, AckEnvelope, tables, posting, history
  <2> QED BY <2>1, StoreFrame
<1>7. ASSUME NEW a \in Identity, NEW b \in Identity,
             EstablishRouting(a, b) \/ MarkDisconnecting(a, b)
      PROVE  StoreInv'
  BY <1>7, StoreFrame DEF EstablishRouting, MarkDisconnecting, posting, history
<1>8. CASE SweepStart \/ SweepIdempotency \/ PruneExpiredRouting \/ SweepPassFails
  BY <1>8, StoreFrame DEF SweepStart, SweepIdempotency, PruneExpiredRouting, SweepPassFails,
     tables, posting, history
<1>9. CASE SweepEnvelopes
  BY <1>9, StoreFrame DEF SweepEnvelopes, posting, history
<1>10. CASE Crash
  BY <1>10, StoreFrame DEF Crash, tables, history
<1>11. CASE Tick
  BY <1>11, StoreFrame DEF Tick, tables, posting, history
<1>12. CASE UNCHANGED vars
  BY <1>12, StoreFrame DEF vars, tables, posting, history
<1> QED BY <1>1, <1>2, <1>3, <1>4, <1>5, <1>6, <1>7, <1>8, <1>9, <1>10, <1>11, <1>12
        DEF Next

\* Steps that leave the envelopes and the answers alone keep FateInv.
LEMMA FateFrame ==
  ASSUME FateInv, now \in Nat, now' \in Nat, now <= now', stored \subseteq Kept,
         UNCHANGED <<envelopes, stored, acked, created>>
  PROVE  FateInv'
<1>1. \A e \in stored : e.until <= now => e.until <= now'
  BY DEF Kept
<1> QED BY <1>1 DEF FateInv, AckedNeverReturns

LEMMA FateStep ==
  ASSUME TypeOK, ClockInv, StoreInv, FateInv, [Next]_vars
  PROVE  FateInv'
<1>1. ASSUME NEW h \in Handler, StoreEnvelope(h) PROVE FateInv'
  <2> DEFINE new == EnvelopeOf(eid[h], req[h], stamp[h])
  <2>1. /\ envelopes' = envelopes \cup {new} /\ stored' = stored \cup {new}
        /\ UNCHANGED <<acked, created, now>>
    BY <1>1 DEF StoreEnvelope
  <2>2. new.id \notin acked
    BY <1>1 DEF StoreEnvelope, EnvelopeOf, StoreInv, FateInv
  <2> QED BY <2>1, <2>2 DEF FateInv, AckedNeverReturns
<1>2. ASSUME NEW h \in Handler, Accepted(h) PROVE FateInv'
  <2>1. \E e \in stored : e.id = eid[h]
    BY <1>2 DEF Accepted, StoreInv
  <2> QED BY <1>2, <2>1 DEF Accepted, FateInv, AckedNeverReturns
<1>3. ASSUME NEW i \in Identity, NEW id \in holding[i], AckEnvelope(i, id) PROVE FateInv'
  <2> DEFINE rows == {e \in envelopes : e.id = id /\ e.to = i}
  <2>1. /\ envelopes' = envelopes \ rows
        /\ acked' = acked \cup {e.id : e \in rows}
        /\ UNCHANGED <<stored, created, now>>
    BY <1>3 DEF AckEnvelope
  <2>2. \A e \in envelopes' : e.id \notin acked'
    BY <2>1 DEF FateInv, AckedNeverReturns, StoreInv
  <2>3. \A n \in acked' : \E e \in stored' : e.id = n
    BY <2>1 DEF FateInv, StoreInv
  <2> QED BY <2>1, <2>2, <2>3 DEF FateInv, AckedNeverReturns
<1>4. CASE SweepEnvelopes
  <2>1. /\ envelopes' = {e \in envelopes : e.until > sweep.start}
        /\ UNCHANGED <<stored, acked, created, now>>
    BY <1>4 DEF SweepEnvelopes, history
  <2>2. \A e \in envelopes \ envelopes' : e.until <= now
    <3> SUFFICES ASSUME NEW e \in envelopes, ~(e.until > sweep.start) PROVE e.until <= now
      BY <2>1
    <3>1. e.until \in Nat /\ sweep.start \in Nat
      BY DEF TypeOK, Kept
    <3> QED BY <3>1 DEF ClockInv, TypeOK
  <2> QED BY <2>1, <2>2 DEF FateInv, AckedNeverReturns
<1>5. ASSUME NEW h \in Handler, NEW r \in Request, Receive(h, r) PROVE FateInv'
  BY <1>5, FateFrame DEF Receive, TypeOK, tables, history
<1>6. ASSUME NEW h \in Handler,
             Stamp(h) \/ SelectEntry(h) \/ Replay(h) \/ Reserve(h) \/ Abort(h)
      PROVE  FateInv'
  BY <1>6, FateFrame DEF Stamp, SelectEntry, Replay, Reserve, Abort, TypeOK, tables, history
<1>7. ASSUME NEW i \in Identity, FetchInbox(i) \/ LoseBatch(i) PROVE FateInv'
  <2>1. UNCHANGED <<now, envelopes, stored, acked, created>>
    BY <1>7 DEF FetchInbox, LoseBatch, tables, history
  <2> QED BY <2>1, FateFrame DEF TypeOK
<1>8. ASSUME NEW a \in Identity, NEW b \in Identity,
             EstablishRouting(a, b) \/ MarkDisconnecting(a, b)
      PROVE  FateInv'
  BY <1>8, FateFrame DEF EstablishRouting, MarkDisconnecting, TypeOK, history
<1>9. CASE SweepStart \/ SweepIdempotency \/ PruneExpiredRouting \/ SweepPassFails
  BY <1>9, FateFrame DEF SweepStart, SweepIdempotency, PruneExpiredRouting, SweepPassFails,
     TypeOK, tables, history
<1>10. CASE Crash
  BY <1>10, FateFrame DEF Crash, TypeOK, tables, history
<1>11. CASE Tick
  BY <1>11, FateFrame DEF Tick, TypeOK, tables, history
<1>12. CASE UNCHANGED vars
  BY <1>12, FateFrame DEF vars, TypeOK, tables, history
<1> QED BY <1>1, <1>2, <1>3, <1>4, <1>5, <1>6, <1>7, <1>8, <1>9, <1>10, <1>11, <1>12
        DEF Next

------------------------------------------------------------------------------
(* The inductive invariant and what follows from it *)

LEMMA InductiveInvariant == Spec => []IInv
<1>1. Init => ClockInv /\ WindowInv /\ StoreInv /\ FateInv
  BY BoundAssumption DEF Init, ClockInv, WindowInv, RetryWithinWindow, StoreInv, FateInv,
     AckedNeverReturns
<1>2. TypeOK /\ TypeOK' /\ (ClockInv /\ WindowInv /\ StoreInv /\ FateInv) /\ [Next]_vars
        => (ClockInv /\ WindowInv /\ StoreInv /\ FateInv)'
  BY ClockStep, WindowStep, StoreStep, FateStep
<1> QED BY <1>1, <1>2, TypeCorrect, PTL DEF Spec, IInv

\* However many retries, sweeps, crashes and concurrent handlers: while no
\* window of a key has run out, the key has had at most one envelope id
\* (LookupOrReserveIdempotency).
THEOREM RetriesShareOneEnvelope == Spec => []RetryWithinWindow
<1>1. IInv => RetryWithinWindow
  BY DEF IInv, WindowInv
<1> QED BY <1>1, InductiveInvariant, PTL

\* A 201 answer is a promise: the envelope stays fetchable until it is
\* acknowledged or its retention instant passes (handleEnvelopes, Sweeper.Run).
THEOREM AcceptedEnvelopesAreKept == Spec => []AcceptedIsKept
<1>1. IInv => AcceptedIsKept
  BY DEF IInv, StoreInv, FateInv, AcceptedIsKept
<1> QED BY <1>1, InductiveInvariant, PTL

\* Delivery is final: an acknowledged envelope never reaches an inbox again,
\* retries of its POST included (AckEnvelope, the replay branch).
THEOREM AcknowledgedIsFinal == Spec => []AckedNeverReturns
<1>1. IInv => AckedNeverReturns
  BY DEF IInv, FateInv
<1> QED BY <1>1, InductiveInvariant, PTL

------------------------------------------------------------------------------
(* Routing *)

\* An established pair has its active row, seen since, or none; a
\* disconnected pair has no active row.
RoutingInv ==
  \A p \in Pair :
    /\ asked[p].at <= now
    /\ asked[p].op = "establish" =>
         \/ HasRouting(p) /\ routing[p].lastSeen >= asked[p].at
         \/ asked[p].at + RoutingInactivityTTL <= now
    /\ asked[p].op = "disconnect" => ~HasRouting(p)

LEMMA RoutingFrame ==
  ASSUME TypeOK, RoutingInv, now' \in Nat, now <= now', UNCHANGED <<routing, asked>>
  PROVE  RoutingInv'
<1>1. \A p \in Pair : asked[p].at \in Nat
  BY DEF TypeOK
<1> QED BY <1>1, DurationAssumption DEF RoutingInv, HasRouting, TypeOK

LEMMA RoutingStep ==
  ASSUME TypeOK, TypeOK', ClockInv, RoutingInv, [Next]_vars
  PROVE  RoutingInv'
<1>1. ASSUME NEW h \in Handler, Accepted(h) PROVE RoutingInv'
  <2> DEFINE p == PairOf(req[h])
  <2>1. p \in Pair
    BY <1>1, RequestTypes DEF Accepted, TypeOK
  <2>2. CASE HasRouting(p) /\ routing' = [routing EXCEPT ![p].lastSeen = now]
    <3>1. routing[p] \in Route
      BY <2>1, <2>2 DEF HasRouting, TypeOK
    <3>2. /\ routing'[p].status = "active" /\ routing'[p].lastSeen = now /\ routing'[p] # None
          /\ \A q \in Pair \ {p} : routing'[q] = routing[q]
      BY <2>1, <2>2, <3>1, SentinelAssumption DEF TypeOK, HasRouting, Route
    <3>3. UNCHANGED <<now, asked>>
      BY <1>1 DEF Accepted
    <3>4. asked[p].op # "disconnect" /\ asked[p].at \in Nat
      BY <2>1, <2>2 DEF RoutingInv, TypeOK
    <3> QED BY <3>2, <3>3, <3>4 DEF RoutingInv, HasRouting
  <2>3. CASE routing' = routing
    BY <1>1, <2>3, RoutingFrame DEF Accepted, TypeOK
  <2> QED BY <1>1, <2>2, <2>3 DEF Accepted
<1>2. ASSUME NEW a \in Identity, NEW b \in Identity, EstablishRouting(a, b) PROVE RoutingInv'
  <2> DEFINE p == {a, b}
  <2>1. p \in Pair
    BY DEF Pair
  <2>2. /\ routing'[p] = [status |-> "active", lastSeen |-> now, since |-> None]
        /\ asked'[p] = [op |-> "establish", at |-> now]
        /\ \A q \in Pair \ {p} : routing'[q] = routing[q] /\ asked'[q] = asked[q]
        /\ now' = now
    BY <1>2, <2>1 DEF EstablishRouting, TypeOK
  <2>3. routing'[p] # None
    BY <2>2, SentinelAssumption DEF Route, TypeOK
  <2> SUFFICES ASSUME NEW q \in Pair
               PROVE  /\ asked'[q].at <= now'
                      /\ asked'[q].op = "establish" =>
                           \/ HasRouting(q)' /\ routing'[q].lastSeen >= asked'[q].at
                           \/ asked'[q].at + RoutingInactivityTTL <= now'
                      /\ asked'[q].op = "disconnect" => ~HasRouting(q)'
    BY DEF RoutingInv
  <2>8. CASE q = p
    BY <2>2, <2>3, <2>8 DEF HasRouting, TypeOK
  <2>9. CASE q # p
    BY <2>2, <2>3, <2>9 DEF RoutingInv, HasRouting
  <2> QED BY <2>8, <2>9
<1>3. ASSUME NEW a \in Identity, NEW b \in Identity, MarkDisconnecting(a, b) PROVE RoutingInv'
  <2> DEFINE p == {a, b}
  <2>1. p \in Pair
    BY DEF Pair
  <2>2. routing[p] \in Route
    BY <1>3, <2>1 DEF MarkDisconnecting, HasRouting, TypeOK
  <2>3. /\ routing'[p].status = "disconnecting"
        /\ asked'[p] = [op |-> "disconnect", at |-> now]
        /\ \A q \in Pair \ {p} : routing'[q] = routing[q] /\ asked'[q] = asked[q]
        /\ now' = now
    BY <1>3, <2>1, <2>2 DEF MarkDisconnecting, TypeOK, Route
  <2> SUFFICES ASSUME NEW q \in Pair
               PROVE  /\ asked'[q].at <= now'
                      /\ asked'[q].op = "establish" =>
                           \/ HasRouting(q)' /\ routing'[q].lastSeen >= asked'[q].at
                           \/ asked'[q].at + RoutingInactivityTTL <= now'
                      /\ asked'[q].op = "disconnect" => ~HasRouting(q)'
    BY DEF RoutingInv
  <2>8. CASE q = p
    BY <2>3, <2>8 DEF HasRouting, TypeOK
  <2>9. CASE q # p
    BY <2>3, <2>9 DEF RoutingInv, HasRouting
  <2> QED BY <2>8, <2>9
<1>4. CASE PruneExpiredRouting
  <2>1. UNCHANGED <<now, asked>>
    BY <1>4 DEF PruneExpiredRouting
  <2>2. \A p \in Pair : routing'[p] = IF PrunedBy(routing[p], sweep.start) THEN None ELSE routing[p]
    BY <1>4 DEF PruneExpiredRouting
  <2>3. ASSUME NEW p \in Pair, asked[p].op = "establish", HasRouting(p),
               routing[p].lastSeen >= asked[p].at, PrunedBy(routing[p], sweep.start)
        PROVE  asked[p].at + RoutingInactivityTTL <= now
    <3>1. routing[p] \in Route /\ asked[p].at \in Nat
      BY <2>3 DEF HasRouting, TypeOK
    <3>2. routing[p].lastSeen + RoutingInactivityTTL <= sweep.start
      BY <2>3 DEF PrunedBy, HasRouting
    <3> QED BY <2>3, <3>1, <3>2, DurationAssumption DEF ClockInv, TypeOK, Route
  <2> QED BY <2>1, <2>2, <2>3 DEF RoutingInv, HasRouting
<1>5. ASSUME NEW h \in Handler, NEW r \in Request, Receive(h, r) PROVE RoutingInv'
  BY <1>5, RoutingFrame DEF Receive, TypeOK, tables
<1>6. ASSUME NEW h \in Handler,
             \/ Stamp(h) \/ SelectEntry(h) \/ Replay(h) \/ Reserve(h)
             \/ StoreEnvelope(h) \/ Abort(h)
      PROVE  RoutingInv'
  BY <1>6, RoutingFrame
     DEF Stamp, SelectEntry, Replay, Reserve, StoreEnvelope, Abort, TypeOK, tables
<1>7. ASSUME NEW i \in Identity,
             \/ FetchInbox(i) \/ LoseBatch(i)
             \/ \E id \in holding[i] : AckEnvelope(i, id)
      PROVE  RoutingInv'
  <2>1. UNCHANGED <<now, routing, asked>>
    BY <1>7 DEF FetchInbox, LoseBatch, AckEnvelope, tables
  <2> QED BY <2>1, RoutingFrame DEF TypeOK
<1>8. CASE SweepStart \/ SweepEnvelopes \/ SweepIdempotency \/ SweepPassFails
  BY <1>8, RoutingFrame DEF SweepStart, SweepEnvelopes, SweepIdempotency, SweepPassFails,
     TypeOK, tables
<1>9. CASE Crash
  BY <1>9, RoutingFrame DEF Crash, TypeOK, tables
<1>10. CASE Tick
  BY <1>10, RoutingFrame DEF Tick, TypeOK, tables
<1>11. CASE UNCHANGED vars
  BY <1>11, RoutingFrame DEF vars, TypeOK, tables
<1> QED BY <1>1, <1>2, <1>3, <1>4, <1>5, <1>6, <1>7, <1>8, <1>9, <1>10, <1>11 DEF Next

\* A re-established pair survives its old disconnect until it has been idle
\* for the inactivity limit, and a disconnected pair stays closed
\* (EstablishRouting, MarkDisconnecting, TouchRouting, PruneExpiredRouting).
THEOREM LastRoutingRequestWins == Spec => []RoutingFollowsLastRequest
<1>1. Init => RoutingInv
  BY DEF Init, RoutingInv, Pair
<1>2. IInv /\ IInv' /\ RoutingInv /\ [Next]_vars => RoutingInv'
  BY RoutingStep DEF IInv
<1>3. IInv /\ RoutingInv => RoutingFollowsLastRequest
  <2> SUFFICES ASSUME IInv, RoutingInv, NEW p \in Pair
               PROVE  /\ (asked[p].op = "establish" /\ now < asked[p].at + RoutingInactivityTTL)
                           => HasRouting(p)
                      /\ asked[p].op = "disconnect" => ~HasRouting(p)
    BY DEF RoutingFollowsLastRequest
  <2>1. now \in Nat /\ asked[p].at \in Nat
    BY DEF IInv, TypeOK
  <2> QED BY <2>1, DurationAssumption DEF RoutingInv
<1> QED BY <1>1, <1>2, <1>3, InductiveInvariant, PTL DEF Spec

------------------------------------------------------------------------------
(* Refinement *)

\* Every step of the relay is one step of the abstract mailbox or none: only
\* StoreEnvelope, AckEnvelope, SweepEnvelopes and the clock are visible.
THEOREM RelayImplementsMailbox == Spec => ImplementsMailbox
<1>1. Init => Abstract!Init
  BY DEF Init, Abstract!Init, DeliveredEnvelopes
<1>2. IInv /\ IInv' /\ [Next]_vars => [Abstract!Next]_(Abstract!vars)
  <2> SUFFICES ASSUME IInv, IInv', [Next]_vars PROVE [Abstract!Next]_(Abstract!vars)
    OBVIOUS
  <2> USE DEF DeliveredEnvelopes
  <2> DEFINE dropped == (stored \ envelopes) \ DeliveredEnvelopes
  <2>1. ASSUME NEW h \in Handler, StoreEnvelope(h) PROVE Abstract!Next
    <3> DEFINE new == EnvelopeOf(eid[h], req[h], stamp[h])
    <3>1. /\ envelopes' = envelopes \cup {new} /\ stored' = stored \cup {new}
          /\ UNCHANGED <<acked, now>>
      BY <2>1 DEF StoreEnvelope
    <3>2. new \in PossibleEnvelopes
      BY <3>1 DEF IInv, StoreInv, PossibleEnvelopes
    <3>3. \A e \in stored : e.id # new.id
      BY <2>1 DEF StoreEnvelope, EnvelopeOf, IInv, StoreInv
    <3>4. new.id \notin acked
      BY <3>3 DEF IInv, FateInv
    <3>5. DeliveredEnvelopes' = DeliveredEnvelopes /\ dropped' = dropped
      BY <3>1, <3>3, <3>4 DEF IInv, StoreInv
    <3>6. \A k \in Abstract!Known : k.id # new.id
      BY <3>3 DEF Abstract!Known, IInv, StoreInv
    <3> QED BY <3>1, <3>2, <3>5, <3>6 DEF Abstract!Next, Abstract!Accept
  <2>2. ASSUME NEW i \in Identity, NEW id \in holding[i], AckEnvelope(i, id)
        PROVE  [Abstract!Next]_(Abstract!vars)
    <3> DEFINE rows == {e \in envelopes : e.id = id /\ e.to = i}
    <3>1. /\ envelopes' = envelopes \ rows /\ acked' = acked \cup {e.id : e \in rows}
          /\ UNCHANGED <<stored, now>>
      BY <2>2 DEF AckEnvelope
    <3>2. CASE rows = {}
      BY <3>1, <3>2 DEF Abstract!vars
    <3>3. ASSUME NEW e \in rows PROVE Abstract!Deliver(e)
      <4>1. rows = {e} /\ e \in stored
        BY <3>3 DEF IInv, StoreInv
      <4>2. DeliveredEnvelopes' = DeliveredEnvelopes \cup {e}
        BY <3>1, <4>1 DEF IInv, StoreInv
      <4>3. dropped' = dropped
        BY <3>1, <4>1, <4>2
      <4> QED BY <3>1, <4>1, <4>2, <4>3 DEF Abstract!Deliver
    <3> QED BY <3>2, <3>3 DEF Abstract!Next
  <2>3. CASE SweepEnvelopes
    <3> DEFINE gone == envelopes \ envelopes'
    <3>1. /\ envelopes' = {e \in envelopes : e.until > sweep.start}
          /\ UNCHANGED <<stored, acked, now>>
      BY <2>3 DEF SweepEnvelopes, history
    <3>2. \A e \in gone : e.until <= now
      <4> SUFFICES ASSUME NEW e \in envelopes, ~(e.until > sweep.start) PROVE e.until <= now
        BY <3>1
      <4>1. e.until \in Nat /\ sweep.start \in Nat /\ now \in Nat /\ sweep.start <= now
        BY DEF IInv, TypeOK, Kept, ClockInv
      <4> QED BY <4>1
    <3>3. dropped' = dropped \cup gone /\ DeliveredEnvelopes' = DeliveredEnvelopes
      BY <3>1 DEF IInv, StoreInv, FateInv, AckedNeverReturns
    <3>4. PICK g \in SUBSET envelopes : g = gone
      OBVIOUS
    <3>5. Abstract!Drop(g)
      BY <3>1, <3>2, <3>3, <3>4 DEF Abstract!Drop
    <3> QED BY <3>5 DEF Abstract!Next
  <2>4. CASE Tick
    BY <2>4 DEF Tick, Abstract!Next, Abstract!Tick, tables, history
  <2>5. ASSUME NEW h \in Handler, NEW r \in Request, Receive(h, r) PROVE UNCHANGED Abstract!vars
    BY <2>5 DEF Receive, Abstract!vars, tables, history
  <2>6. ASSUME NEW h \in Handler,
               \/ Stamp(h) \/ SelectEntry(h) \/ Replay(h) \/ Reserve(h)
               \/ Accepted(h) \/ Abort(h)
        PROVE  UNCHANGED Abstract!vars
    BY <2>6 DEF Stamp, SelectEntry, Replay, Reserve, Accepted, Abort, Abstract!vars, tables, history
  <2>7. ASSUME NEW i \in Identity, FetchInbox(i) \/ LoseBatch(i) PROVE UNCHANGED Abstract!vars
    BY <2>7 DEF FetchInbox, LoseBatch, Abstract!vars, tables, history
  <2>8. ASSUME NEW a \in Identity, NEW b \in Identity,
               EstablishRouting(a, b) \/ MarkDisconnecting(a, b)
        PROVE  UNCHANGED Abstract!vars
    BY <2>8 DEF EstablishRouting, MarkDisconnecting, Abstract!vars, history
  <2>9. CASE SweepStart \/ SweepIdempotency \/ PruneExpiredRouting \/ SweepPassFails \/ Crash
    BY <2>9 DEF SweepStart, SweepIdempotency, PruneExpiredRouting, SweepPassFails, Crash,
       Abstract!vars, tables, history
  <2>10. CASE UNCHANGED vars
    BY <2>10 DEF vars, Abstract!vars, tables, history
  <2> QED BY <2>1, <2>2, <2>3, <2>4, <2>5, <2>6, <2>7, <2>8, <2>9, <2>10 DEF Next
<1> QED BY <1>1, <1>2, InductiveInvariant, PTL DEF Spec, ImplementsMailbox, Abstract!Spec
==============================================================================
