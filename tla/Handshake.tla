------------------------------- MODULE Handshake -------------------------------
(***************************************************************************)
(* One invitation code between the device that made it and the devices     *)
(* that enter it (mobile/lib/relay/handshake_orchestrator.dart).  Devices  *)
(* see each other only through two inboxes of the relay, the inviter's and *)
(* the invitee's address, both derived from the code.                      *)
(*                                                                         *)
(* A step is what happens between two awaits: a read or write of the       *)
(* device's database, or one relay call.  Several operations of a device   *)
(* run at once, on the poll timer, in the push isolate and on screens; the *)
(* `_processing` flag covers the timer alone.  A thread here is one such   *)
(* operation after another.  The app may be stopped between any two steps. *)
(***************************************************************************)
EXTENDS Naturals, Sequences, FiniteSets

CONSTANTS
  Inviter,       \* the device that made the code
  Redeemer,      \* the devices on which it is entered
  Thread, DeviceOf,
  Poller,        \* threads that poll: the timer, the push isolate
  Screen,        \* threads that do what the user asks for
  Anchored,      \* redeemers a module of the inviter's may know by device
  Expiring,      \* devices whose row may outlive its validity
  Stopping,      \* devices the system may stop the app on
  Fragile,       \* the <<call, fault>> pairs that may happen
  MaxTroubles, MaxEnvelopes,   \* bounds of the model
  None

Device == {Inviter} \cup Redeemer
Fault == {"none", "server_error", "request_lost", "reply_lost"}
RelayCall == {"fetch", "hello", "ack", "acknowledge", "decommission",
              "inviter_establish", "invitee_establish"}

ASSUME DeviceAssumption ==
  /\ Inviter \notin Redeemer
  /\ None \notin Device
  /\ DeviceOf \in [Thread -> Device]
  /\ Poller \subseteq Thread /\ Screen \subseteq Thread
  /\ Anchored \subseteq Redeemer /\ Expiring \cup Stopping \subseteq Device
ASSUME BoundAssumption ==
  /\ Fragile \subseteq RelayCall \X (Fault \ {"none"})
  /\ MaxTroubles \in Nat /\ MaxEnvelopes \in Nat

VARIABLES
  \* on the devices
  invitation,  \* contact_invitations.status, on the inviter
  state,       \* pending_handshakes.state; "none": no row.  A failed row is
               \* "expired" or, with relay_unavailable, "unreachable"
  peer,        \* the inviter's peerLongTermPublicMaterialB64
  contact,     \* contacts.kind of the stub, "none" before it exists
  deleted,     \* contacts.deletedAt is set
  late,        \* the row's expiresAt has passed
  job,         \* what each thread is doing
  \* on the relay
  inbox,       \* envelopes at the two handshake addresses, in order
  helloKey,    \* the hello's idempotency key: reserved a first or second time?
  routing,     \* the handshake pair's routing relationship
  steady,      \* redeemers with a steady-state routing to the inviter
  \* counters of the bounds: envelopes, and faults, stops and expiries
  posted, troubles,
  \* history: redeemers whose completed row was written over
  reopened

deviceVars == <<invitation, state, peer, contact, deleted, late, reopened>>
relayVars == <<inbox, helloKey, routing, steady, posted>>
vars == <<deviceVars, job, relayVars, troubles>>

State == {"none", "awaiting_hello", "hello_received", "dispatching_hello",
          "awaiting_ack", "completed", "rejected", "expired", "unreachable"}
Envelope == [id : 1 .. MaxEnvelopes, peer : Redeemer, says : {"hello", "accept", "refuse"}]
Step == {"idle", "row", "envelope", "consume", "stash", "confirm", "accept",
         "establish", "claim", "promote", "discard", "decommission", "shown", "drop",
         "refuse", "post", "mark", "undo", "forget", "fetch", "refused", "giveup"}

\* seen: the state in the row the thread read; peer: the peer in it;
\* mode: "poll", or what a redemption started from; envs: the envelopes
\* fetched and not yet dealt with.
Idle == [at |-> "idle", mode |-> "poll", seen |-> "none", peer |-> None, envs |-> <<>>]

TypeOK ==
  /\ invitation \in {"pending", "used", "expired", "revoked"}
  /\ state \in [Device -> State]
  /\ peer \in Redeemer \cup {None}
  /\ contact \in [Device -> {"none", "stub", "connected"}]
  /\ deleted \in [Device -> BOOLEAN]
  /\ late \in [Device -> BOOLEAN]
  /\ job \in [Thread -> [at : Step, mode : {"poll", "fresh", "again", "repeat"},
                         seen : State, peer : Redeemer \cup {None}, envs : Seq(Envelope)]]
  /\ \A t \in Thread : job[t].at \in {"envelope", "consume", "stash", "discard", "giveup"} =>
       job[t].envs # <<>>
  /\ inbox \in [{"inviter", "invitee"} -> Seq(Envelope)]
  /\ helloKey \in {"free", "first", "lapsed", "second"}
  /\ routing \in {"active", "disconnecting"}
  /\ steady \subseteq Redeemer
  /\ posted \in 0 .. MaxEnvelopes
  /\ troubles \in 0 .. MaxTroubles
  /\ reopened \subseteq Redeemer

\* The code has been generated and is on its way to the redeemers.
Init ==
  /\ invitation = "pending"
  /\ state = [d \in Device |-> IF d = Inviter THEN "awaiting_hello" ELSE "none"]
  /\ peer = None
  /\ contact = [d \in Device |-> IF d = Inviter THEN "stub" ELSE "none"]
  /\ deleted = [d \in Device |-> FALSE]
  /\ late = [d \in Device |-> FALSE]
  /\ job = [t \in Thread |-> Idle]
  /\ inbox = [a \in {"inviter", "invitee"} |-> <<>>]
  /\ helloKey = "free"
  /\ routing = "active"
  /\ steady = {}
  /\ posted = 0
  /\ troubles = 0
  /\ reopened = {}

------------------------------------------------------------------------------
(* Relay calls.  A call has no fault, is answered with an error that        *)
(* changed nothing, or is never answered, having reached the relay or not. *)

Trouble ==
  /\ troubles < MaxTroubles
  /\ troubles' = troubles + 1

Call(call, f) ==
  \/ f = "none" /\ UNCHANGED troubles
  \/ <<call, f>> \in Fragile /\ Trouble

Reaches(f) == f \in {"none", "reply_lost"}
Transport(f) == f \in {"request_lost", "reply_lost"}

Put(address, p, says) ==
  /\ posted < MaxEnvelopes
  /\ posted' = posted + 1
  /\ inbox' = [inbox EXCEPT ![address] =
                 Append(@, [id |-> posted + 1, peer |-> p, says |-> says])]

\* POST of an ack, whose idempotency key is random: stored while the pair
\* is active.
PostAck(p, says, f) ==
  /\ Call("ack", f)
  /\ IF Reaches(f) /\ routing = "active"
       THEN Put("invitee", p, says)
       ELSE UNCHANGED <<inbox, posted>>
  /\ UNCHANGED <<helloKey, routing, steady>>

\* POST of a hello, whose idempotency key comes from the code alone.
PostHello(r, f) ==
  /\ Call("hello", f)
  /\ IF Reaches(f) /\ routing = "active" /\ helloKey \in {"free", "lapsed"}
       THEN /\ Put("inviter", r, "hello")
            /\ helloKey' = IF helloKey = "free" THEN "first" ELSE "second"
       ELSE UNCHANGED <<inbox, posted, helloKey>>
  /\ UNCHANGED <<routing, steady>>

\* An inbox without the envelope of an id, which is in it once at most.
Without(s, id) ==
  IF \E i \in 1 .. Len(s) : s[i].id = id
    THEN LET k == CHOOSE i \in 1 .. Len(s) : s[i].id = id
         IN  [i \in 1 .. Len(s) - 1 |-> s[IF i < k THEN i ELSE i + 1]]
    ELSE s

Acknowledge(address, e, f) ==
  /\ Call("acknowledge", f)
  /\ inbox' = [inbox EXCEPT ![address] = IF Reaches(f) THEN Without(@, e.id) ELSE @]
  /\ UNCHANGED <<helloKey, routing, steady, posted>>

Establish(call, r, f) ==
  /\ Call(call, f)
  /\ steady' = IF Reaches(f) THEN steady \cup {r} ELSE steady
  /\ UNCHANGED <<inbox, helloKey, routing, posted>>

\* Both directions of the pair are one row of the relay.
DecommissionHandshakeAddresses(f) ==
  /\ Call("decommission", f)
  /\ routing' = IF Reaches(f) THEN "disconnecting" ELSE routing
  /\ UNCHANGED <<inbox, helloKey, steady, posted>>

\* The entry of a hello's key lives a day, a code up to two: a key reserved
\* again outlives its code.
KeyExpires ==
  /\ helloKey = "first"
  /\ helloKey' = "lapsed"
  /\ UNCHANGED <<deviceVars, job, inbox, routing, steady, posted, troubles>>

------------------------------------------------------------------------------
(* Threads. *)

Free(t) == job[t].at = "idle"
At(t, step) == job[t].at = step
Goto(t, step) == job' = [job EXCEPT ![t].at = step]
Leave(t) == job' = [job EXCEPT ![t] = Idle]
Current(t) == Head(job[t].envs)

\* The loop over the fetched envelopes.
\* Mutant: an empty inbox is worked on.
WorkAlways(envs) == [Idle EXCEPT !.at = "envelope", !.envs = envs]

Work(envs) == IF envs = <<>> THEN Idle ELSE [Idle EXCEPT !.at = "envelope", !.envs = envs]
NextEnvelope(t) ==
  job' = [job EXCEPT ![t] = IF Len(@.envs) > 1 THEN Work(Tail(@.envs)) ELSE Idle]

------------------------------------------------------------------------------
(* Both roles: listing the row, giving up an expired one, fetching. *)

\* A write that does not look at the row: a redeemer's completed one is taken
\* back to where the handshake was before.
Overwrites(d) ==
  reopened' = IF state[d] = "completed" THEN reopened \cup ({d} \cap Redeemer) ELSE reopened

Address(d) == IF d = Inviter THEN "inviter" ELSE "invitee"

\* Mutant: a hello that was received is left to the user.
PolledWhileWaiting(d) == state[d] \in {"awaiting_hello", "dispatching_hello", "awaiting_ack"}

Polled(d) == state[d] \in {"awaiting_hello", "dispatching_hello", "awaiting_ack",
                           "hello_received", "unreachable"}

ListRow(t) ==
  LET d == DeviceOf[t] IN
  /\ t \in Poller /\ Free(t) /\ Polled(d)
  /\ job' = [job EXCEPT ![t] = [Idle EXCEPT !.at = "row", !.seen = state[d],
                                            !.peer = IF d = Inviter THEN peer ELSE None]]
  /\ UNCHANGED <<deviceVars, relayVars, troubles>>

ExpireRow(t) ==
  /\ At(t, "row") /\ late[DeviceOf[t]]
  /\ state' = [state EXCEPT ![DeviceOf[t]] = "expired"]
  /\ Overwrites(DeviceOf[t])
  /\ Leave(t)
  /\ UNCHANGED <<invitation, peer, contact, deleted, late, relayVars, troubles>>

FetchInbox(t, f) ==
  LET d == DeviceOf[t] IN
  /\ \/ At(t, "row") /\ ~late[d]
        /\ job[t].seen \notin {"hello_received", "dispatching_hello"}
     \/ At(t, "fetch")
  /\ Call("fetch", f)
  /\ job' = [job EXCEPT ![t] =
       IF f = "none" THEN Work(inbox[Address(d)]) ELSE Idle]
  /\ UNCHANGED <<deviceVars, relayVars>>

\* An envelope there is nothing to do about.
Discard(t, f) ==
  /\ At(t, "discard")
  /\ Acknowledge(Address(DeviceOf[t]), Current(t), f)
  /\ IF f = "server_error" THEN Goto(t, "giveup") ELSE NextEnvelope(t)
  /\ UNCHANGED deviceVars

\* After an answered error an envelope is acknowledged unheard.
GiveUp(t, f) ==
  /\ At(t, "giveup")
  /\ Acknowledge(Address(DeviceOf[t]), Current(t), f)
  /\ NextEnvelope(t)
  /\ UNCHANGED deviceVars

Decommission(t, f) ==
  /\ At(t, "decommission")
  /\ DecommissionHandshakeAddresses(f)
  /\ NextEnvelope(t)
  /\ UNCHANGED deviceVars

------------------------------------------------------------------------------
(* The inviter. *)

\* Mutant: a hello is heard whatever became of the invitation.
HearAnyHello(t) ==
  /\ DeviceOf[t] = Inviter /\ At(t, "envelope")
  /\ Goto(t, IF Current(t).says = "hello" THEN "consume" ELSE "discard")
  /\ UNCHANGED <<deviceVars, relayVars, troubles>>

\* A hello is heard while the invitation is pending.
HearHello(t) ==
  /\ DeviceOf[t] = Inviter /\ At(t, "envelope")
  /\ Goto(t, IF invitation = "pending" /\ Current(t).says = "hello"
               THEN "consume" ELSE "discard")
  /\ UNCHANGED <<deviceVars, relayVars, troubles>>

\* The handler does not look at what markUsed returns.
MarkUsed(t) ==
  /\ At(t, "consume")
  /\ invitation' = IF invitation # "pending" THEN invitation
                   ELSE IF late[Inviter] THEN "expired" ELSE "used"
  /\ Goto(t, "stash")
  /\ UNCHANGED <<state, peer, contact, deleted, late, reopened, relayVars, troubles>>

StashPeer(t) ==
  /\ At(t, "stash")
  /\ state' = [state EXCEPT ![Inviter] = "hello_received"]
  /\ peer' = Current(t).peer
  /\ Goto(t, "confirm")
  /\ UNCHANGED <<invitation, contact, deleted, late, reopened, relayVars, troubles>>

\* The acknowledgement, and on success the auto-acceptance of the row as it is
\* then read.
ConfirmHello(t, f) ==
  /\ DeviceOf[t] = Inviter /\ At(t, "confirm")
  /\ Acknowledge("inviter", Current(t), f)
  /\ CASE f = "none" /\ state[Inviter] = "hello_received" ->
              job' = [job EXCEPT ![t].at = "accept", ![t].peer = peer]
       [] f = "server_error" -> Goto(t, "giveup")
       [] OTHER -> NextEnvelope(t)
  /\ UNCHANGED deviceVars

AutoAccept(t) ==
  /\ At(t, "row") /\ ~late[Inviter]
  /\ job[t].seen = "hello_received"
  /\ Goto(t, "accept")
  /\ UNCHANGED <<deviceVars, relayVars, troubles>>

\* An acceptance begins with the answer; it is a refusal when a module of the
\* inviter's uses an older contact of the same device.
SendAck(t, f) ==
  /\ At(t, "accept")
  /\ \E refusing \in {FALSE, job[t].peer \in Anchored} :
       /\ PostAck(job[t].peer, IF refusing THEN "refuse" ELSE "accept", f)
       /\ IF f = "none" /\ routing = "active"
            THEN Goto(t, IF refusing THEN "drop" ELSE "establish")
            ELSE NextEnvelope(t)
  /\ UNCHANGED deviceVars

EstablishAsInviter(t, f) ==
  /\ DeviceOf[t] = Inviter /\ At(t, "establish")
  /\ Establish("inviter_establish", job[t].peer, f)
  /\ IF f = "none" THEN Goto(t, "claim") ELSE NextEnvelope(t)
  /\ UNCHANGED deviceVars

ClaimAsInviter(t) ==
  /\ DeviceOf[t] = Inviter /\ At(t, "claim")
  /\ IF state[Inviter] = "hello_received"
       THEN /\ state' = [state EXCEPT ![Inviter] = "completed"]
            /\ Goto(t, "promote")
       ELSE NextEnvelope(t) /\ UNCHANGED state
  /\ UNCHANGED <<invitation, peer, contact, deleted, late, reopened, relayVars, troubles>>

PromoteAsInviter(t) ==
  /\ DeviceOf[t] = Inviter /\ At(t, "promote")
  /\ contact' = [contact EXCEPT ![Inviter] = "connected"]
  /\ Goto(t, "decommission")
  /\ UNCHANGED <<invitation, state, peer, deleted, late, reopened, relayVars, troubles>>

\* The screen shows a hello that was received; the user answers it later.
ShowIncoming(t) ==
  /\ t \in Screen /\ DeviceOf[t] = Inviter /\ Free(t)
  /\ state[Inviter] = "hello_received"
  /\ Goto(t, "shown")
  /\ UNCHANGED <<deviceVars, relayVars, troubles>>

AcceptIncoming(t) ==
  /\ At(t, "shown")
  /\ IF state[Inviter] = "hello_received"
       THEN job' = [job EXCEPT ![t].at = "accept", ![t].peer = peer]
       ELSE Leave(t)
  /\ UNCHANGED <<deviceVars, relayVars, troubles>>

RejectIncoming(t, f) ==
  /\ At(t, "shown")
  /\ PostAck(peer, "refuse", f)
  /\ IF f = "none" /\ routing = "active" THEN Goto(t, "drop") ELSE Leave(t)
  /\ UNCHANGED deviceVars

DropStub(t) ==
  /\ At(t, "drop")
  /\ deleted' = [deleted EXCEPT ![DeviceOf[t]] = TRUE]
  /\ Goto(t, IF DeviceOf[t] = Inviter THEN "refuse" ELSE "confirm")
  /\ UNCHANGED <<invitation, state, peer, contact, late, reopened, relayVars, troubles>>

MarkRejected(t) ==
  /\ At(t, "refuse")
  /\ state' = [state EXCEPT ![Inviter] = "rejected"]
  /\ Goto(t, "decommission")
  /\ UNCHANGED <<invitation, peer, contact, deleted, late, reopened, relayVars, troubles>>

Revoke ==
  /\ invitation = "pending"
  /\ invitation' = "revoked"
  /\ UNCHANGED <<state, peer, contact, deleted, late, reopened, job, relayVars, troubles>>

------------------------------------------------------------------------------
(* A redeemer. *)

\* A first attempt, or one after a failure, writes the stub (whose deletedAt
\* the upsert leaves alone) and a new row; a live row is taken up again.
RedeemInvitation(t) ==
  LET r == DeviceOf[t] IN
  /\ t \in Screen /\ r \in Redeemer /\ Free(t)
  /\ \/ /\ state[r] \in {"none", "expired", "unreachable"}
        /\ contact' = [contact EXCEPT ![r] = "stub"]
        /\ state' = [state EXCEPT ![r] = "dispatching_hello"]
        /\ late' = [late EXCEPT ![r] = FALSE]
        /\ job' = [job EXCEPT ![t].at = "post", ![t].mode = "fresh"]
     \/ /\ state[r] \in {"dispatching_hello", "awaiting_ack"}
        /\ job' = [job EXCEPT ![t].at = "post",
             ![t].mode = IF state[r] = "awaiting_ack" THEN "repeat" ELSE "again"]
        /\ UNCHANGED <<contact, state, late>>
  /\ UNCHANGED <<invitation, peer, deleted, reopened, relayVars, troubles>>

RetryHello(t) ==
  /\ At(t, "row") /\ ~late[DeviceOf[t]]
  /\ job[t].seen = "dispatching_hello"
  /\ Goto(t, "post")
  /\ UNCHANGED <<deviceVars, relayVars, troubles>>

\* A poll takes a pair that is gone for a hello that was heard, and a relay it
\* cannot reach for a failure; a redemption that fails is undone.
SendHello(t, f) ==
  LET r == DeviceOf[t]
      refused == f = "server_error" \/ (f = "none" /\ routing # "active")
      delivered == f = "none" /\ (routing = "active" \/ job[t].mode = "poll")
      unreachable == Transport(f) /\ job[t].mode = "poll" IN
  /\ At(t, "post")
  /\ PostHello(r, f)
  /\ IF delivered
       THEN IF job[t].mode = "repeat" THEN Leave(t) ELSE Goto(t, "mark")
       ELSE IF job[t].mode = "fresh" THEN Goto(t, "undo") ELSE Leave(t)
  /\ IF unreachable /\ state[r] # "none"
       THEN state' = [state EXCEPT ![r] = "unreachable"] /\ Overwrites(r)
       ELSE UNCHANGED <<state, reopened>>
  /\ UNCHANGED <<invitation, peer, contact, deleted, late>>

MarkAwaitingAck(t) ==
  LET r == DeviceOf[t] IN
  /\ At(t, "mark")
  /\ state' = IF state[r] = "none" THEN state ELSE [state EXCEPT ![r] = "awaiting_ack"]
  /\ Overwrites(r)
  /\ IF job[t].mode = "poll" /\ state[r] # "none" THEN Goto(t, "fetch") ELSE Leave(t)
  /\ UNCHANGED <<invitation, peer, contact, deleted, late, relayVars, troubles>>

UndoStub(t) ==
  /\ At(t, "undo")
  /\ deleted' = [deleted EXCEPT ![DeviceOf[t]] = TRUE]
  /\ Goto(t, "forget")
  /\ UNCHANGED <<invitation, state, peer, contact, late, reopened, relayVars, troubles>>

ForgetRow(t) ==
  /\ At(t, "forget")
  /\ state' = [state EXCEPT ![DeviceOf[t]] = "none"]
  /\ Leave(t)
  /\ UNCHANGED <<invitation, peer, contact, deleted, late, reopened, relayVars, troubles>>

\* An ack encrypted to somebody else does not decrypt.
HearAck(t) ==
  LET r == DeviceOf[t] e == Current(t) IN
  /\ r \in Redeemer /\ At(t, "envelope")
  /\ Goto(t, IF e.peer # r \/ e.says = "hello" THEN "discard"
               ELSE IF e.says = "accept" THEN "establish" ELSE "refused")
  /\ UNCHANGED <<deviceVars, relayVars, troubles>>

\* Mutant: the relay's answer is not waited for.
EstablishUnanswered(t, f) ==
  LET r == DeviceOf[t] IN
  /\ r \in Redeemer /\ At(t, "establish")
  /\ Establish("invitee_establish", r, f)
  /\ Goto(t, "claim")
  /\ UNCHANGED deviceVars

EstablishAsInvitee(t, f) ==
  LET r == DeviceOf[t] IN
  /\ r \in Redeemer /\ At(t, "establish")
  /\ Establish("invitee_establish", r, f)
  /\ CASE f = "none" -> Goto(t, "claim")
       [] f = "server_error" -> Goto(t, "giveup")
       [] Transport(f) -> NextEnvelope(t)
  /\ UNCHANGED deviceVars

\* Mutant: the state expected of the row is left out.
ClaimUnconditionally(t) ==
  LET r == DeviceOf[t] IN
  /\ r \in Redeemer /\ job[t].at \in {"claim", "refused"}
  /\ state' = [state EXCEPT ![r] = IF At(t, "claim") THEN "completed" ELSE "rejected"]
  /\ Goto(t, IF At(t, "claim") THEN "promote" ELSE "drop")
  /\ UNCHANGED <<invitation, peer, contact, deleted, late, reopened, relayVars, troubles>>

ClaimAsInvitee(t) ==
  LET r == DeviceOf[t] IN
  /\ r \in Redeemer /\ job[t].at \in {"claim", "refused"}
  /\ IF state[r] = "awaiting_ack"
       THEN /\ state' = [state EXCEPT ![r] = IF At(t, "claim") THEN "completed" ELSE "rejected"]
            /\ Goto(t, IF At(t, "claim") THEN "promote" ELSE "drop")
       ELSE Goto(t, "discard") /\ UNCHANGED state
  /\ UNCHANGED <<invitation, peer, contact, deleted, late, reopened, relayVars, troubles>>

PromoteAsInvitee(t) ==
  LET r == DeviceOf[t] IN
  /\ r \in Redeemer /\ At(t, "promote")
  /\ contact' = [contact EXCEPT ![r] = "connected"]
  /\ Goto(t, "confirm")
  /\ UNCHANGED <<invitation, state, peer, deleted, late, reopened, relayVars, troubles>>

ConfirmAck(t, f) ==
  /\ DeviceOf[t] \in Redeemer /\ At(t, "confirm")
  /\ Acknowledge("invitee", Current(t), f)
  /\ CASE f = "none" -> Goto(t, "decommission")
       [] f = "server_error" -> Goto(t, "giveup")
       [] Transport(f) -> NextEnvelope(t)
  /\ UNCHANGED deviceVars

------------------------------------------------------------------------------
(* The devices' clocks, and the system stopping the app. *)

Expire(d) ==
  /\ d \in Expiring /\ ~late[d] /\ state[d] # "none"
  /\ Trouble
  /\ late' = [late EXCEPT ![d] = TRUE]
  /\ UNCHANGED <<invitation, state, peer, contact, deleted, reopened, job, relayVars>>

Stop(d) ==
  /\ d \in Stopping /\ Trouble
  /\ \E t \in Thread : DeviceOf[t] = d /\ ~Free(t)
  /\ job' = [t \in Thread |-> IF DeviceOf[t] = d THEN Idle ELSE job[t]]
  /\ UNCHANGED <<deviceVars, relayVars>>

Quiet(t) ==
  \/ ExpireRow(t)
  \/ HearHello(t) \/ MarkUsed(t) \/ StashPeer(t) \/ AutoAccept(t)
  \/ ClaimAsInviter(t) \/ PromoteAsInviter(t)
  \/ DropStub(t) \/ MarkRejected(t)
  \/ RetryHello(t) \/ MarkAwaitingAck(t) \/ UndoStub(t) \/ ForgetRow(t)
  \/ HearAck(t) \/ ClaimAsInvitee(t) \/ PromoteAsInvitee(t)

OverRelay(t, f) ==
  \/ FetchInbox(t, f) \/ Discard(t, f) \/ GiveUp(t, f) \/ Decommission(t, f)
  \/ ConfirmHello(t, f) \/ SendAck(t, f) \/ EstablishAsInviter(t, f)
  \/ SendHello(t, f) \/ EstablishAsInvitee(t, f) \/ ConfirmAck(t, f)

\* What a thread does of itself: polls, and operations under way.
Proceed(t) ==
  \/ ListRow(t)
  \/ ~Free(t) /\ (Quiet(t) \/ \E f \in Fault : OverRelay(t, f))

User(t) ==
  \/ ShowIncoming(t) \/ AcceptIncoming(t) \/ RedeemInvitation(t)
  \/ \E f \in Fault : RejectIncoming(t, f)

Next ==
  \/ \E t \in Thread : Proceed(t) \/ User(t)
  \/ \E d \in Device : Expire(d) \/ Stop(d)
  \/ Revoke
  \/ KeyExpires

Spec == Init /\ [][Next]_vars
\* The poll loop never stops while a row is open.
FairSpec == Spec /\ \A t \in Thread : WF_vars(Proceed(t))

------------------------------------------------------------------------------
(* Properties. *)

Connected(d) == contact[d] = "connected" /\ ~deleted[d]

ClaimedCode == INSTANCE Invitation WITH
  Nobody <- None, holder <- peer,
  connected <- {r \in Redeemer : contact[r] = "connected"}

\* A code is used by one redeemer only: the first whose hello the inviter
\* takes holds it for good, whatever hellos follow, and nobody else gets a
\* connected contact out of it.
ImplementsInvitation == ClaimedCode!Spec

\* Whoever sees the other as connected can write to them: the relay has the
\* steady-state pair before either contact is promoted.
ConnectedCanWrite ==
  /\ contact[Inviter] = "connected" => peer \in steady
  /\ \A r \in Redeemer : contact[r] = "connected" => r \in steady

\* A redeemer whose request was refused is left without the contact, even when
\* acceptances of the same request are under way in another of its threads or
\* still to come.  Not so once a write that does not look at the row has taken a
\* completed one back: a retried redemption or hello that was held up, a
\* relay that cannot be reached, an expiry.  A refusal is then heard although
\* the contact is connected.
RefusedStaysOut ==
  \A r \in Redeemer \ reopened : state[r] = "rejected" => ~Connected(r)

\* Once the inviter's inbox has the hello of a redeemer who awaits the answer,
\* both sides end up with the contact, unless the invitation is revoked.  Polls
\* cut short, fetches, acknowledgements and decommissionings that fail, an answer
\* or an establishment of the redeemer's that does not arrive are made good.
\* Nothing makes good a hello that fails, an answer whose reply is lost, an
\* establishment that the inviter does not get through or the redeemer is
\* refused; these, stops of the app and expiry of the code are left out.
HelloConnectsBoth ==
  \A r \in Redeemer :
    (/\ \E i \in 1 .. Len(inbox["inviter"]) : inbox["inviter"][i].peer = r
     /\ state[r] = "awaiting_ack"
     /\ ~\E t \in Thread : DeviceOf[t] = r /\ job[t].mode = "fresh")
      ~> \/ Connected(Inviter) /\ Connected(r)
         \/ invitation = "revoked"
==============================================================================
