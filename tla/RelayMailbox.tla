----------------------------- MODULE RelayMailbox -----------------------------
(***************************************************************************)
(* The relay's mailbox: routing relationships, idempotency entries and     *)
(* stored envelopes (relay/internal/store/store.go), the HTTP handlers     *)
(* that change them (relay/internal/api/api.go) and the sweeper            *)
(* (relay/internal/sweeper/sweeper.go).                                    *)
(*                                                                         *)
(* Every SQL statement or transaction is one atomic step; a handler is the *)
(* sequence of its statements, so requests, sweeps and crashes interleave  *)
(* between them.  LookupOrReserveIdempotency runs at READ COMMITTED, hence *)
(* its SELECT and its write are two steps.                                 *)
(***************************************************************************)
EXTENDS Naturals, FiniteSets

CONSTANTS
  Identity,              \* opaque routing identities
  Key,                   \* idempotency keys
  Request,               \* the bodies clients may POST to /v1/envelopes
  Handler,               \* concurrent POST /v1/envelopes goroutines
  NoDeadline,            \* a request without expires_at
  None,                  \* SQL NULL, or no row
  EnvelopeTTLMax, IdempotencyTTL, DisconnectGrace, RoutingInactivityTTL,
  InboxLimit,            \* the limit of one GET /v1/inbox
  MaxTime, MaxEnvelopes  \* bounds on the clock and on envelope ids

ASSUME RequestAssumption ==
  Request \subseteq [from : Identity, to : Identity, key : Key,
                     deadline : Nat \cup {NoDeadline}]
ASSUME DurationAssumption ==
  /\ EnvelopeTTLMax \in Nat
  /\ IdempotencyTTL \in Nat
  /\ DisconnectGrace \in Nat
  /\ RoutingInactivityTTL \in Nat
ASSUME BoundAssumption == MaxTime \in Nat /\ MaxEnvelopes \in Nat

VARIABLES
  now,           \* the wall clock shared by relay and database
  routing,       \* routing_relationships, by unordered pair
  idem,          \* idempotency_entries, by <<sender, key>>
  envelopes,     \* rows of the envelopes table
  pc,            \* where each handler stands
  req, stamp, eid, \* its request, its captured "now", its envelope id
  sweep,         \* the pass the sweeper is at and its captured start
  holding,       \* ids a recipient fetched and has not acknowledged yet
  \* History, read by properties only.
  nextId,        \* the next envelope id
  reservations,  \* every idempotency entry ever written
  stored,        \* every envelope ever written
  acked,         \* ids whose row an acknowledgement deleted
  created,       \* ids answered 201
  replayed,      \* ids answered 200 with replay
  asked          \* the last routing request that took effect, by pair

tables == <<routing, idem, envelopes>>
posting == <<pc, req, stamp, eid, nextId>>
history == <<reservations, stored, acked, created, replayed>>
vars == <<now, tables, posting, sweep, holding, history, asked>>

Pair == {{a, b} : a, b \in Identity}
Owner == Identity \X Key
Kept == [id : Nat, from : Identity, to : Identity, created : Nat, until : Nat]
Reservation == [owner : Owner, id : Nat, until : Nat]
Entry == [id : Nat, until : Nat]
\* A pair has a disconnect time exactly while it is disconnecting.
Route ==
  {r \in [status : {"active", "disconnecting"}, lastSeen : Nat, since : Nat \cup {None}] :
     r.status = "active" <=> r.since = None}

\* NULL is not a value, and a missing row is not a row.
ASSUME SentinelAssumption ==
  NoDeadline \notin Nat /\ None \notin Nat /\ None \notin Entry /\ None \notin Route

TypeOK ==
  /\ now \in Nat
  /\ routing \in [Pair -> Route \cup {None}]
  /\ idem \in [Owner -> Entry \cup {None}]
  /\ envelopes \subseteq Kept
  /\ pc \in [Handler -> {"idle", "admitted", "stamped", "absent", "expired", "reserved", "stored"}]
  /\ req \in [Handler -> Request \cup {None}]
  /\ \A h \in Handler : pc[h] # "idle" => req[h] \in Request
  /\ stamp \in [Handler -> Nat]
  /\ eid \in [Handler -> Nat]
  /\ sweep \in [pass : {"idle", "envelopes", "idempotency", "routing"}, start : Nat]
  /\ holding \in [Identity -> SUBSET Nat]
  /\ nextId \in Nat
  /\ reservations \subseteq Reservation
  /\ stored \subseteq Kept
  /\ acked \subseteq Nat
  /\ created \subseteq Nat
  /\ replayed \subseteq Nat
  /\ asked \in [Pair -> [op : {"none", "establish", "disconnect"}, at : Nat]]

Init ==
  /\ now = 0
  /\ routing = [p \in Pair |-> None]
  /\ idem = [o \in Owner |-> None]
  /\ envelopes = {}
  /\ pc = [h \in Handler |-> "idle"]
  /\ req = [h \in Handler |-> None]
  /\ stamp = [h \in Handler |-> 0]
  /\ eid = [h \in Handler |-> 0]
  /\ sweep = [pass |-> "idle", start |-> 0]
  /\ holding = [i \in Identity |-> {}]
  /\ nextId = 0
  /\ reservations = {}
  /\ stored = {}
  /\ acked = {}
  /\ created = {}
  /\ replayed = {}
  /\ asked = [p \in Pair |-> [op |-> "none", at |-> 0]]

------------------------------------------------------------------------------
(* Helpers *)

OwnerOf(r) == <<r.from, r.key>>
PairOf(r) == {r.from, r.to}

HasRouting(p) == routing[p] # None /\ routing[p].status = "active"

\* Delivery cutoff of a request stamped at t.
envelopeRetentionUntil(r, t) ==
  IF r.deadline = NoDeadline \/ r.deadline > t + EnvelopeTTLMax
  THEN t + EnvelopeTTLMax
  ELSE r.deadline

\* The row a request stamped at t leaves under the given id.
EnvelopeOf(id, r, t) ==
  [id |-> id, from |-> r.from, to |-> r.to, created |-> t,
   until |-> envelopeRetentionUntil(r, t)]

\* A finished handler keeps nothing.
Finish(h) ==
  /\ pc' = [pc EXCEPT ![h] = "idle"]
  /\ req' = [req EXCEPT ![h] = None]
  /\ stamp' = [stamp EXCEPT ![h] = 0]
  /\ eid' = [eid EXCEPT ![h] = 0]

------------------------------------------------------------------------------
(* POST /v1/envelopes *)

\* Framing and rate limits passed and the pair is routed; a request refused
\* here changes nothing.
Receive(h, r) ==
  /\ pc[h] = "idle"
  /\ HasRouting(PairOf(r))
  /\ pc' = [pc EXCEPT ![h] = "admitted"]
  /\ req' = [req EXCEPT ![h] = r]
  /\ UNCHANGED <<now, tables, stamp, eid, nextId, sweep, holding, history, asked>>

\* The entitlement service agreed (or the kind is not gated), "now" is
\* captured and the requested deadline is still ahead.
Stamp(h) ==
  /\ pc[h] = "admitted"
  /\ req[h].deadline # NoDeadline => req[h].deadline > now
  /\ pc' = [pc EXCEPT ![h] = "stamped"]
  /\ stamp' = [stamp EXCEPT ![h] = now]
  /\ UNCHANGED <<now, tables, req, eid, nextId, sweep, holding, history, asked>>

\* The SELECT of LookupOrReserveIdempotency finds no usable entry.
SelectEntry(h) ==
  /\ pc[h] = "stamped"
  /\ LET entry == idem[OwnerOf(req[h])] IN
       /\ entry # None => entry.until <= stamp[h]
       /\ pc' = [pc EXCEPT ![h] = IF entry = None THEN "absent" ELSE "expired"]
  /\ UNCHANGED <<now, tables, req, stamp, eid, nextId, sweep, holding, history, asked>>

\* Mutant: a retry stores its envelope under the id it is answered.
ReplayStoring(h) ==
  /\ pc[h] = "stamped"
  /\ LET entry == idem[OwnerOf(req[h])] IN
       /\ entry # None
       /\ entry.until > stamp[h]
       /\ envelopes' = envelopes \cup {EnvelopeOf(entry.id, req[h], stamp[h])}
  /\ Finish(h)
  /\ UNCHANGED <<now, routing, idem, nextId, sweep, holding, history, asked>>

\* The SELECT finds a live entry: 200 with the id it holds.
Replay(h) ==
  /\ pc[h] = "stamped"
  /\ LET entry == idem[OwnerOf(req[h])] IN
       /\ entry # None
       /\ entry.until > stamp[h]
       /\ replayed' = replayed \cup {entry.id}
  /\ Finish(h)
  /\ UNCHANGED <<now, tables, nextId, sweep, holding, reservations, stored,
                 acked, created, asked>>

\* The DELETE of an expired entry and the INSERT of the new one, committed.
\* The DELETE names the key alone; without it, the INSERT fails on the
\* primary key when another request got there first (see Abort).
Reserve(h) ==
  LET o == OwnerOf(req[h])
      until == stamp[h] + IdempotencyTTL
  IN
  /\ \/ pc[h] = "expired"
     \/ pc[h] = "absent" /\ idem[o] = None
  /\ nextId < MaxEnvelopes
  /\ idem' = [idem EXCEPT ![o] = [id |-> nextId, until |-> until]]
  /\ reservations' = reservations \cup {[owner |-> o, id |-> nextId, until |-> until]}
  /\ pc' = [pc EXCEPT ![h] = "reserved"]
  /\ eid' = [eid EXCEPT ![h] = nextId]
  /\ nextId' = nextId + 1
  /\ UNCHANGED <<now, routing, envelopes, req, stamp, sweep, holding, stored,
                 acked, created, replayed, asked>>

StoreEnvelope(h) ==
  /\ pc[h] = "reserved"
  /\ LET e == EnvelopeOf(eid[h], req[h], stamp[h])
     IN  /\ envelopes' = envelopes \cup {e}
         /\ stored' = stored \cup {e}
  /\ pc' = [pc EXCEPT ![h] = "stored"]
  /\ UNCHANGED <<now, routing, idem, req, stamp, eid, nextId, sweep, holding,
                 reservations, acked, created, replayed, asked>>

\* TouchRouting, whose error is ignored, then 201.
Accepted(h) ==
  /\ pc[h] = "stored"
  /\ \/ /\ HasRouting(PairOf(req[h]))
        /\ routing' = [routing EXCEPT ![PairOf(req[h])].lastSeen = now]
     \/ UNCHANGED routing
  /\ created' = created \cup {eid[h]}
  /\ Finish(h)
  /\ UNCHANGED <<now, idem, envelopes, nextId, sweep, holding, reservations,
                 stored, acked, replayed, asked>>

\* Any earlier end: refused by the entitlement service, deadline not in the
\* future, a failed statement, a primary-key conflict, a client that went away.
Abort(h) ==
  /\ pc[h] # "idle"
  /\ Finish(h)
  /\ UNCHANGED <<now, tables, nextId, sweep, holding, history, asked>>

------------------------------------------------------------------------------
(* Inbox, acknowledgements *)

\* The oldest InboxLimit unexpired rows; equal creation times come in any order.
FetchInbox(i) ==
  LET live == {e \in envelopes : e.to = i /\ e.until > now} IN
  \E batch \in SUBSET live :
    /\ batch # {}
    /\ \/ batch = live /\ Cardinality(live) <= InboxLimit
       \/ /\ Cardinality(batch) = InboxLimit
          /\ \A e \in batch, f \in live \ batch : e.created <= f.created
    /\ holding' = [holding EXCEPT ![i] = {e.id : e \in batch}]
    /\ UNCHANGED <<now, tables, posting, sweep, history, asked>>

\* Mutant: an acknowledgement empties the inbox.
AckWholeInbox(i, id) ==
  /\ id \in holding[i]
  /\ envelopes' = {e \in envelopes : e.to # i}
  /\ acked' = acked \cup {id}
  /\ holding' = [holding EXCEPT ![i] = @ \ {id}]
  /\ UNCHANGED <<now, routing, idem, posting, sweep, reservations, stored,
                 created, replayed, asked>>

\* POST /v1/envelopes/:id/ack; an id that is gone is answered 404, which the
\* client takes for success.
AckEnvelope(i, id) ==
  LET rows == {e \in envelopes : e.id = id /\ e.to = i} IN
  /\ id \in holding[i]
  /\ envelopes' = envelopes \ rows
  /\ acked' = acked \cup {e.id : e \in rows}
  /\ holding' = [holding EXCEPT ![i] = @ \ {id}]
  /\ UNCHANGED <<now, routing, idem, posting, sweep, reservations, stored,
                 created, replayed, asked>>

\* The client is closed between its fetch and its acknowledgements.
LoseBatch(i) ==
  /\ holding[i] # {}
  /\ holding' = [holding EXCEPT ![i] = {}]
  /\ UNCHANGED <<now, tables, posting, sweep, history, asked>>

------------------------------------------------------------------------------
(* Routing relationships *)

\* Mutant: the row of a known pair is left as it is.
EstablishIfAbsent(a, b) ==
  /\ a # b
  /\ routing' = IF routing[{a, b}] # None THEN routing
                ELSE [routing EXCEPT ![{a, b}] =
                        [status |-> "active", lastSeen |-> now, since |-> None]]
  /\ asked' = [asked EXCEPT ![{a, b}] = [op |-> "establish", at |-> now]]
  /\ UNCHANGED <<now, idem, envelopes, posting, sweep, holding, history>>

\* Mutant: the upsert leaves disconnect_started_at as it was.
EstablishKeepingSince(a, b) ==
  LET known == routing[{a, b}] # None IN
  /\ a # b
  /\ routing' = [routing EXCEPT ![{a, b}] =
                   [status |-> "active", lastSeen |-> now,
                    since |-> IF known THEN routing[{a, b}].since ELSE None]]
  /\ asked' = [asked EXCEPT ![{a, b}] = [op |-> "establish", at |-> now]]
  /\ UNCHANGED <<now, idem, envelopes, posting, sweep, holding, history>>

EstablishRouting(a, b) ==
  /\ a # b
  /\ routing' = [routing EXCEPT ![{a, b}] =
                   [status |-> "active", lastSeen |-> now, since |-> None]]
  /\ asked' = [asked EXCEPT ![{a, b}] = [op |-> "establish", at |-> now]]
  /\ UNCHANGED <<now, idem, envelopes, posting, sweep, holding, history>>

MarkDisconnecting(a, b) ==
  /\ HasRouting({a, b})
  /\ routing' = [routing EXCEPT ![{a, b}].status = "disconnecting",
                                ![{a, b}].since = now]
  /\ asked' = [asked EXCEPT ![{a, b}] = [op |-> "disconnect", at |-> now]]
  /\ UNCHANGED <<now, idem, envelopes, posting, sweep, holding, history>>

------------------------------------------------------------------------------
(* The sweeper *)

SweepStart ==
  /\ sweep.pass = "idle"
  /\ sweep' = [pass |-> "envelopes", start |-> now]
  /\ UNCHANGED <<now, tables, posting, holding, history, asked>>

\* Mutant: an envelope is swept one instant before its cutoff.
SweepEnvelopesEarly ==
  /\ sweep.pass = "envelopes"
  /\ envelopes' = {e \in envelopes : e.until > sweep.start + 1}
  /\ sweep' = [sweep EXCEPT !.pass = "idempotency"]
  /\ UNCHANGED <<now, routing, idem, posting, holding, history, asked>>

\* Mutant: the envelopes of a severed pair are passed over.
SweepEnvelopesOfRouted ==
  /\ sweep.pass = "envelopes"
  /\ envelopes' = {e \in envelopes : e.until > sweep.start \/ ~HasRouting({e.from, e.to})}
  /\ sweep' = [sweep EXCEPT !.pass = "idempotency"]
  /\ UNCHANGED <<now, routing, idem, posting, holding, history, asked>>

SweepEnvelopes ==
  /\ sweep.pass = "envelopes"
  /\ envelopes' = {e \in envelopes : e.until > sweep.start}
  /\ sweep' = [sweep EXCEPT !.pass = "idempotency"]
  /\ UNCHANGED <<now, routing, idem, posting, holding, history, asked>>

\* Mutant: an entry is swept one instant before its window closes.
SweepIdempotencyEarly ==
  /\ sweep.pass = "idempotency"
  /\ idem' = [o \in Owner |->
                IF idem[o] # None /\ idem[o].until <= sweep.start + 1 THEN None ELSE idem[o]]
  /\ sweep' = [sweep EXCEPT !.pass = "routing"]
  /\ UNCHANGED <<now, routing, envelopes, posting, holding, history, asked>>

SweepIdempotency ==
  /\ sweep.pass = "idempotency"
  /\ idem' = [o \in Owner |->
                IF idem[o] # None /\ idem[o].until <= sweep.start THEN None ELSE idem[o]]
  /\ sweep' = [sweep EXCEPT !.pass = "routing"]
  /\ UNCHANGED <<now, routing, envelopes, posting, holding, history, asked>>

\* Mutant: only idle pairs are pruned.
PrunedWhenIdle(r, start) ==
  r # None /\ r.status = "active" /\ r.lastSeen + RoutingInactivityTTL <= start

PrunedBy(r, start) ==
  /\ r # None
  /\ \/ r.status = "disconnecting" /\ r.since # None /\ r.since + DisconnectGrace <= start
     \/ r.status = "active" /\ r.lastSeen + RoutingInactivityTTL <= start

PruneExpiredRouting ==
  /\ sweep.pass = "routing"
  /\ routing' = [p \in Pair |-> IF PrunedBy(routing[p], sweep.start) THEN None ELSE routing[p]]
  /\ sweep' = [pass |-> "idle", start |-> 0]
  /\ UNCHANGED <<now, idem, envelopes, posting, holding, history, asked>>

\* A pass whose statement failed is skipped; the ones after it still run.
SweepPassFails ==
  /\ sweep.pass # "idle"
  /\ sweep' = CASE sweep.pass = "envelopes" -> [sweep EXCEPT !.pass = "idempotency"]
                [] sweep.pass = "idempotency" -> [sweep EXCEPT !.pass = "routing"]
                [] OTHER -> [pass |-> "idle", start |-> 0]
  /\ UNCHANGED <<now, tables, posting, holding, history, asked>>

------------------------------------------------------------------------------
\* The relay process dies: every handler and the sweeper start over.
Crash ==
  /\ pc' = [h \in Handler |-> "idle"]
  /\ req' = [h \in Handler |-> None]
  /\ stamp' = [h \in Handler |-> 0]
  /\ eid' = [h \in Handler |-> 0]
  /\ sweep' = [pass |-> "idle", start |-> 0]
  /\ UNCHANGED <<now, tables, nextId, holding, history, asked>>

Tick ==
  /\ now < MaxTime
  /\ now' = now + 1
  /\ UNCHANGED <<tables, posting, sweep, holding, history, asked>>

Next ==
  \/ \E h \in Handler, r \in Request : Receive(h, r)
  \/ \E h \in Handler : Stamp(h) \/ SelectEntry(h) \/ Replay(h) \/ Reserve(h)
                        \/ StoreEnvelope(h) \/ Accepted(h) \/ Abort(h)
  \/ \E i \in Identity : FetchInbox(i) \/ LoseBatch(i)
  \/ \E i \in Identity : \E id \in holding[i] : AckEnvelope(i, id)
  \/ \E a, b \in Identity : EstablishRouting(a, b) \/ MarkDisconnecting(a, b)
  \/ SweepStart \/ SweepEnvelopes \/ SweepIdempotency \/ PruneExpiredRouting
  \/ SweepPassFails \/ Crash \/ Tick

Spec == Init /\ [][Next]_vars

(***************************************************************************)
(* The sweeper loop ticks for ever, and no pass fails every time it is     *)
(* tried.                                                                  *)
(***************************************************************************)
FairSpec ==
  /\ Spec
  /\ WF_vars(SweepStart)
  /\ SF_vars(SweepEnvelopes)
  /\ SF_vars(SweepIdempotency)
  /\ SF_vars(PruneExpiredRouting)

------------------------------------------------------------------------------
(* Properties *)

\* A key whose windows are all still open has had one envelope id: retries
\* inside the window never create a second envelope, whatever sweeps, crashes
\* and concurrent retries do (LookupOrReserveIdempotency).
RetryWithinWindow ==
  \A a, b \in reservations :
    (a.owner = b.owner /\ a # b) =>
      \E c \in reservations : c.owner = a.owner /\ c.until <= now

\* An envelope answered 201 stays fetchable until it is acknowledged or its
\* retention instant is past (handleEnvelopes, AckEnvelope, SweepEnvelopes).
AcceptedIsKept ==
  \A id \in created :
    \E e \in stored : /\ e.id = id
                      /\ e \in envelopes \/ id \in acked \/ e.until <= now

\* Once acknowledged, an envelope never reaches an inbox again, even when the
\* POST that created it is retried (replay answers without storing).
AckedNeverReturns == \A e \in envelopes : e.id \notin acked

\* A pair established again after a disconnect stays usable until the
\* inactivity limit, and a disconnected pair stays closed until it is
\* established again, whatever the sweeper or TouchRouting do meanwhile.
RoutingFollowsLastRequest ==
  \A p \in Pair :
    /\ (asked[p].op = "establish" /\ now < asked[p].at + RoutingInactivityTTL)
         => HasRouting(p)
    /\ asked[p].op = "disconnect" => ~HasRouting(p)

\* The mailbox the clients see is the abstract one.
PossibleEnvelopes ==
  {EnvelopeOf(n, r, t) : n \in 0..(MaxEnvelopes - 1), r \in Request, t \in 0..MaxTime}
DeliveredEnvelopes == {e \in stored : e.id \in acked}
Abstract == INSTANCE Mailbox WITH
  Envelope <- PossibleEnvelopes,
  queued <- envelopes,
  delivered <- DeliveredEnvelopes,
  dropped <- (stored \ envelopes) \ DeliveredEnvelopes
ImplementsMailbox == Abstract!Spec

\* Every undelivered envelope past its retention instant is deleted in the
\* end (Sweeper.Loop).
ExpiredIsSwept ==
  \A n \in 0..(MaxEnvelopes - 1) :
    (\E e \in envelopes : e.id = n /\ e.until <= now)
      ~> ~(\E e \in envelopes : e.id = n)

\* A disconnected pair is forgotten in the end, unless it is established again.
DisconnectIsSevered ==
  \A p \in Pair :
    (asked[p].op = "disconnect" /\ asked[p].at + DisconnectGrace <= now)
      ~> (routing[p] = None \/ asked[p].op = "establish")

\* What retrying a POST is documented to be: safe.  A 200 replay tells the
\* client its envelope was accepted, so the id it names was stored.
ReplayNamesStoredEnvelope ==
  \A id \in replayed : \E e \in stored : e.id = id
==============================================================================
