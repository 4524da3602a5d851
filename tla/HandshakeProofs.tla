---------------------------- MODULE HandshakeProofs ----------------------------
(***************************************************************************)
(* Proofs about Handshake for any number of redeemers, threads, envelopes  *)
(* and troubles, and whatever calls fail: its type invariant, that a       *)
(* connected contact can be written to, that a refused redeemer stays out, *)
(* and that a code has one holder (the refinement of Invitation).          *)
(***************************************************************************)
EXTENDS Handshake, TLAPS

Job == [at : Step, mode : {"poll", "fresh", "again", "repeat"},
        seen : State, peer : Redeemer \cup {None}, envs : Seq(Envelope)]

InviterStep == {"idle", "row", "envelope", "consume", "stash", "confirm", "accept",
                "establish", "claim", "promote", "discard", "decommission", "shown",
                "drop", "refuse", "giveup"}
RedeemerStep == {"idle", "row", "envelope", "confirm", "establish", "claim", "promote",
                 "discard", "decommission", "drop", "post", "mark", "undo", "forget",
                 "fetch", "refused", "giveup"}
\* Steps that have an envelope in hand.
HandlingAsInviter == {"envelope", "consume", "stash", "confirm", "discard", "giveup"}
HandlingAsInvitee == {"envelope", "establish", "claim", "refused", "promote", "drop",
                      "confirm", "discard", "giveup"}

\* What thread t may be doing: the steps of its device's role, with an envelope
\* where the step needs one, for a row in a state of that role.
WellFormed(t, j) ==
  /\ j \in Job
  /\ DeviceOf[t] = Inviter =>
       /\ j.at \in InviterStep
       /\ j.at \in HandlingAsInviter => j.envs # <<>>
       /\ j.seen # "dispatching_hello"
  /\ DeviceOf[t] # Inviter =>
       /\ j.at \in RedeemerStep
       /\ j.at \in HandlingAsInvitee => j.envs # <<>>
       /\ j.seen # "hello_received"

ThreadsOK == job \in [Thread -> Job] /\ \A t \in Thread : WellFormed(t, job[t])

\* The device's tables: a row is in a state of its device's role.
DeviceOK ==
  /\ invitation \in {"pending", "used", "expired", "revoked"}
  /\ state \in [Device -> State]
  /\ state[Inviter] # "dispatching_hello"
  /\ \A r \in Redeemer : state[r] # "hello_received"
  /\ peer \in Redeemer \cup {None}
  /\ contact \in [Device -> {"none", "stub", "connected"}]
  /\ deleted \in [Device -> BOOLEAN]
  /\ late \in [Device -> BOOLEAN]
  /\ reopened \subseteq Redeemer

RelayOK ==
  /\ inbox \in [{"inviter", "invitee"} -> Seq(Envelope)]
  /\ helloKey \in {"free", "first", "lapsed", "second"}
  /\ routing \in {"active", "disconnecting"}
  /\ steady \subseteq Redeemer
  /\ posted \in 0 .. MaxEnvelopes
  /\ troubles \in 0 .. MaxTroubles

\* What an inviter's thread says about the holder of the code.  While the
\* invitation is pending the hello in hand is the first in the inbox.
InviterKnows(j) ==
  /\ \A i \in 1 .. Len(j.envs) : j.envs[i].says = "hello"
  /\ j.at \in {"accept", "establish", "claim", "promote"} => j.peer = peer
  /\ j.at = "row" /\ j.seen = "hello_received" => j.peer = peer /\ peer # None
  /\ j.at \in {"accept", "establish", "claim", "promote", "shown"} => peer # None
  /\ invitation = "pending" => j.at \in {"idle", "row", "envelope", "consume"}
  /\ invitation = "pending" /\ j.at \in {"envelope", "consume"} =>
       inbox["inviter"] # <<>> /\ Head(j.envs) = Head(inbox["inviter"])
  /\ j.at \in {"consume", "stash"} /\ peer # None => Head(j.envs).peer = peer

\* What a thread of redeemer r says about it: answers are meant for the holder.
InviteeKnows(r, j) ==
  /\ \A i \in 1 .. Len(j.envs) : j.envs[i].peer = peer
  /\ j.at \in {"establish", "claim", "promote"} => peer = r

Knows(t, j) ==
  IF DeviceOf[t] = Inviter THEN InviterKnows(j) ELSE InviteeKnows(DeviceOf[t], j)

\* The inviter is about to take the hello that thread t has in hand.
About(t) == DeviceOf[t] = Inviter /\ job[t].at \in {"consume", "stash"}

\* All threads that are about to take a hello take the same redeemer's.
Agreed ==
  \A t, u \in Thread :
    About(t) /\ About(u) => Head(job[t].envs).peer = Head(job[u].envs).peer

InboxInv ==
  /\ \A i \in 1 .. Len(inbox["inviter"]) : inbox["inviter"][i].says = "hello"
  /\ \A i \in 1 .. Len(inbox["invitee"]) : inbox["invitee"][i].peer = peer

CodeInv ==
  /\ InboxInv
  /\ invitation = "pending" => peer = None
  /\ state[Inviter] = "hello_received" => peer # None
  /\ \A r \in Redeemer : contact[r] = "connected" => peer = r

HolderInv == CodeInv /\ Agreed /\ \A t \in Thread : Knows(t, job[t])

\* The relay has the pair before a thread may promote a contact.
RoutedInv ==
  /\ \A t \in Thread : job[t].at \in {"claim", "promote"} =>
       IF DeviceOf[t] = Inviter THEN job[t].peer \in steady ELSE DeviceOf[t] \in steady
  /\ ConnectedCanWrite

Typed == DeviceOK /\ ThreadsOK /\ RelayOK
IInv == Typed /\ HolderInv /\ RoutedInv

\* The row of redeemer r says completed, or no promotion is made or under way.
Answered(r) ==
  \/ state[r] = "completed"
  \/ /\ contact[r] # "connected"
     /\ \A t \in Thread : DeviceOf[t] = r => job[t].at # "promote"

\* A redeemer whose contact is being connected has a completed row, unless the
\* row has been written over or the contact deleted, as it is before a row is
\* forgotten.
CompletedInv ==
  /\ \A r \in Redeemer \ reopened : deleted[r] \/ Answered(r)
  /\ \A t \in Thread : job[t].at = "forget" => deleted[DeviceOf[t]]

------------------------------------------------------------------------------
(* What a thread does next *)

\* The two lists of envelopes are different, and so are the two roles.
LEMMA Roles ==
  ASSUME NEW t \in Thread
  PROVE  /\ DeviceOf[t] \in Device
         /\ DeviceOf[t] # Inviter <=> DeviceOf[t] \in Redeemer
         /\ Address(DeviceOf[t]) \in {"inviter", "invitee"}
BY DeviceAssumption DEF Device, Address

\* A thread with nothing to do, and one with a list of envelopes, are well formed.
LEMMA IdleOK ==
  ASSUME NEW t \in Thread PROVE WellFormed(t, Idle)
<1>1. <<>> \in Seq(Envelope) OBVIOUS
<1> QED BY <1>1 DEF WellFormed, Idle, Job, Step, State, InviterStep, RedeemerStep,
                    HandlingAsInviter, HandlingAsInvitee

LEMMA WorkOK ==
  ASSUME NEW t \in Thread, NEW envs \in Seq(Envelope) PROVE WellFormed(t, Work(envs))
<1>1. CASE envs = <<>> BY <1>1, IdleOK DEF Work
<1>2. CASE envs # <<>>
  BY <1>2 DEF Work, WellFormed, Idle, Job, Step, State, InviterStep, RedeemerStep,
              HandlingAsInviter, HandlingAsInvitee
<1> QED BY <1>1, <1>2

\* Replacing the work of one thread by something well formed.
LEMMA JobOK ==
  ASSUME ThreadsOK, NEW t \in Thread, NEW j, WellFormed(t, j), job' = [job EXCEPT ![t] = j]
  PROVE  ThreadsOK'
<1>1. j \in Job BY DEF WellFormed
<1> QED BY <1>1 DEF ThreadsOK, WellFormed

LEMMA GotoOK ==
  ASSUME ThreadsOK, NEW t \in Thread, NEW step, Goto(t, step),
         DeviceOf[t] = Inviter =>
           step \in InviterStep /\ (step \in HandlingAsInviter => job[t].envs # <<>>),
         DeviceOf[t] # Inviter =>
           step \in RedeemerStep /\ (step \in HandlingAsInvitee => job[t].envs # <<>>)
  PROVE  ThreadsOK'
<1> DEFINE j == [job[t] EXCEPT !.at = step]
<1>1. job' = [job EXCEPT ![t] = j] BY DEF Goto
<1>2. step \in Step BY DEF Step, InviterStep, RedeemerStep
<1>3. job[t] \in Job /\ WellFormed(t, job[t]) BY DEF ThreadsOK
<1>4. WellFormed(t, j)
  BY <1>2, <1>3 DEF WellFormed, Job
<1> QED BY <1>1, <1>4, JobOK

LEMMA NextEnvelopeOK ==
  ASSUME ThreadsOK, NEW t \in Thread, NextEnvelope(t)
  PROVE  ThreadsOK'
<1> DEFINE j == IF Len(job[t].envs) > 1 THEN Work(Tail(job[t].envs)) ELSE Idle
<1>1. job' = [job EXCEPT ![t] = j] BY DEF NextEnvelope
<1>2. job[t].envs \in Seq(Envelope) BY DEF Job, ThreadsOK
<1>3. Len(job[t].envs) > 1 => Tail(job[t].envs) \in Seq(Envelope) BY <1>2
<1>4. WellFormed(t, j) BY <1>3, WorkOK, IdleOK
<1> QED BY <1>1, <1>4, JobOK

LEMMA LeaveOK ==
  ASSUME ThreadsOK, NEW t \in Thread, Leave(t)
  PROVE  ThreadsOK'
BY IdleOK, JobOK DEF Leave

\* The envelope in hand is the first of those fetched.
LEMMA CurrentOK ==
  ASSUME ThreadsOK, NEW t \in Thread, job[t].envs # <<>>
  PROVE  /\ Current(t) \in Envelope /\ Current(t) = job[t].envs[1]
         /\ 1 \in 1 .. Len(job[t].envs)
<1>1. job[t].envs \in Seq(Envelope) BY DEF ThreadsOK, Job
<1>2. Len(job[t].envs) \in Nat /\ Len(job[t].envs) # 0 BY <1>1
<1>3. 1 \in 1 .. Len(job[t].envs) BY <1>2
<1> QED BY <1>1, <1>3 DEF Current

------------------------------------------------------------------------------
(* What a relay call leaves *)

\* An inbox without an envelope holds envelopes it held before.
LEMMA WithoutKeeps ==
  ASSUME NEW s \in Seq(Envelope), NEW id
  PROVE  /\ Without(s, id) \in Seq(Envelope)
         /\ \A j \in 1 .. Len(Without(s, id)) :
              \E i \in 1 .. Len(s) : Without(s, id)[j] = s[i]
<1>1. CASE \E i \in 1 .. Len(s) : s[i].id = id
  <2> DEFINE k == CHOOSE i \in 1 .. Len(s) : s[i].id = id
             w == [i \in 1 .. Len(s) - 1 |-> s[IF i < k THEN i ELSE i + 1]]
  <2>1. Without(s, id) = w BY <1>1 DEF Without
  <2>2. k \in 1 .. Len(s) BY <1>1
  <2> HIDE DEF k
  <2>3. Len(s) - 1 \in Nat BY <2>2
  <2>4. \A i \in 1 .. Len(s) - 1 : (IF i < k THEN i ELSE i + 1) \in 1 .. Len(s)
    BY <2>2
  <2>5. \A i \in 1 .. Len(s) - 1 : w[i] \in Envelope BY <2>4
  <2>6. w \in Seq(Envelope) /\ Len(w) = Len(s) - 1 BY <2>3, <2>5
  <2> QED BY <2>1, <2>4, <2>6
<1>2. CASE ~\E i \in 1 .. Len(s) : s[i].id = id
  BY <1>2 DEF Without
<1> QED BY <1>1, <1>2

\* A call keeps the types of the relay's tables.
LEMMA CallOK ==
  ASSUME RelayOK, NEW call, NEW f, Call(call, f)
  PROVE  troubles' \in 0 .. MaxTroubles
BY BoundAssumption DEF RelayOK, Call, Trouble

LEMMA PutOK ==
  ASSUME RelayOK, NEW a \in {"inviter", "invitee"}, NEW p \in Redeemer,
         NEW says \in {"hello", "accept", "refuse"}, Put(a, p, says)
  PROVE  /\ inbox' \in [{"inviter", "invitee"} -> Seq(Envelope)]
         /\ posted' \in 0 .. MaxEnvelopes
<1> DEFINE e == [id |-> posted + 1, peer |-> p, says |-> says]
<1>1. posted + 1 \in 1 .. MaxEnvelopes BY BoundAssumption DEF RelayOK, Put
<1>2. e \in Envelope BY <1>1 DEF Envelope
<1>3. Append(inbox[a], e) \in Seq(Envelope) BY <1>2 DEF RelayOK
<1>4. posted' = posted + 1 /\ inbox' = [inbox EXCEPT ![a] = Append(@, e)]
  BY DEF Put
<1> QED BY <1>1, <1>3, <1>4 DEF RelayOK

LEMMA PostAckOK ==
  ASSUME RelayOK, NEW p \in Redeemer, NEW says \in {"accept", "refuse"}, NEW f,
         PostAck(p, says, f)
  PROVE  RelayOK'
BY CallOK, PutOK DEF PostAck, RelayOK

LEMMA PostHelloOK ==
  ASSUME RelayOK, NEW r \in Redeemer, NEW f, PostHello(r, f)
  PROVE  RelayOK'
BY CallOK, PutOK DEF PostHello, RelayOK

LEMMA AcknowledgeOK ==
  ASSUME RelayOK, NEW a \in {"inviter", "invitee"}, NEW e, NEW f, Acknowledge(a, e, f)
  PROVE  RelayOK'
BY CallOK, WithoutKeeps DEF Acknowledge, RelayOK

LEMMA EstablishOK ==
  ASSUME RelayOK, NEW call, NEW r \in Redeemer, NEW f, Establish(call, r, f)
  PROVE  RelayOK'
BY CallOK DEF Establish, RelayOK

LEMMA DecommissionOK ==
  ASSUME RelayOK, NEW f, DecommissionHandshakeAddresses(f)
  PROVE  RelayOK'
BY CallOK DEF DecommissionHandshakeAddresses, RelayOK

------------------------------------------------------------------------------
(* Types *)

LEMMA TypedInit == Init => Typed
<1> SUFFICES ASSUME Init PROVE Typed OBVIOUS
<1>1. DeviceOK BY DeviceAssumption DEF Init, DeviceOK, Device, State
<1>2. job = [t \in Thread |-> Idle] BY DEF Init
<1>3. \A t \in Thread : WellFormed(t, Idle) BY IdleOK
<1>4. ThreadsOK BY <1>2, <1>3 DEF ThreadsOK, WellFormed
<1>5. RelayOK BY BoundAssumption DEF Init, RelayOK
<1> QED BY <1>1, <1>4, <1>5 DEF Typed

LEMMA TypedImpliesTypeOK == Typed => TypeOK
BY DEF Typed, TypeOK, DeviceOK, ThreadsOK, RelayOK, WellFormed, Job,
       HandlingAsInviter, HandlingAsInvitee, RedeemerStep

\* Steps on the device alone.
LEMMA TypedQuiet ==
  ASSUME Typed, NEW t \in Thread, Quiet(t) PROVE Typed'
<1> USE DEF At, Typed
<1>0. /\ DeviceOf[t] \in Device
      /\ DeviceOf[t] # Inviter <=> DeviceOf[t] \in Redeemer
      /\ WellFormed(t, job[t])
  BY Roles DEF ThreadsOK
<1> USE <1>0
<1> USE DEF InviterStep, RedeemerStep, HandlingAsInviter, HandlingAsInvitee
<1>r. UNCHANGED <<relayVars, troubles>> => RelayOK'
  BY DEF RelayOK, relayVars
<1>1. CASE ExpireRow(t)
  <2>1. reopened' \subseteq Redeemer BY <1>1 DEF ExpireRow, Overwrites, DeviceOK
  <2>2. /\ state' = [state EXCEPT ![DeviceOf[t]] = "expired"]
        /\ UNCHANGED <<invitation, peer, contact, deleted, late>>
    BY <1>1 DEF ExpireRow
  <2>3. DeviceOK' BY <2>1, <2>2 DEF DeviceOK, State
  <2>4. ThreadsOK' BY <1>1, LeaveOK DEF ExpireRow
  <2> QED BY <1>r, <1>1, <2>3, <2>4 DEF ExpireRow
<1>2. CASE HearHello(t)
  <2>1. DeviceOK' BY <1>2 DEF HearHello, DeviceOK, deviceVars
  <2>2. ThreadsOK' BY <1>2, GotoOK DEF HearHello, WellFormed
  <2> QED BY <1>r, <1>2, <2>1, <2>2 DEF HearHello
<1>3. CASE MarkUsed(t)
  <2>1. DeviceOK' BY <1>3 DEF MarkUsed, DeviceOK
  <2>2. ThreadsOK' BY <1>3, GotoOK DEF MarkUsed, WellFormed
  <2> QED BY <1>r, <1>3, <2>1, <2>2 DEF MarkUsed
<1>4. CASE StashPeer(t)
  <2>1. DeviceOf[t] = Inviter /\ job[t].envs # <<>> /\ job[t].envs \in Seq(Envelope)
    BY <1>4 DEF StashPeer, WellFormed, Job
  <2>2. Current(t).peer \in Redeemer
    BY <2>1, CurrentOK DEF Envelope
  <2>3. DeviceOK' BY <1>4, <2>2, DeviceAssumption DEF StashPeer, DeviceOK, Device, State
  <2>4. ThreadsOK' BY <1>4, <2>1, GotoOK DEF StashPeer, WellFormed
  <2> QED BY <1>r, <1>4, <2>3, <2>4 DEF StashPeer
<1>5. CASE AutoAccept(t)
  <2>1. DeviceOK' BY <1>5 DEF AutoAccept, DeviceOK, deviceVars
  <2>2. ThreadsOK' BY <1>5, GotoOK DEF AutoAccept, WellFormed
  <2> QED BY <1>r, <1>5, <2>1, <2>2 DEF AutoAccept
<1>6. CASE ClaimAsInviter(t)
  <2>1. DeviceOK' BY <1>6, DeviceAssumption DEF ClaimAsInviter, DeviceOK, Device, State
  <2>2. ThreadsOK' BY <1>6, GotoOK, NextEnvelopeOK DEF ClaimAsInviter, WellFormed
  <2> QED BY <1>r, <1>6, <2>1, <2>2 DEF ClaimAsInviter
<1>7. CASE PromoteAsInviter(t)
  <2>1. DeviceOK' BY <1>7 DEF PromoteAsInviter, DeviceOK
  <2>2. ThreadsOK' BY <1>7, GotoOK DEF PromoteAsInviter, WellFormed
  <2> QED BY <1>r, <1>7, <2>1, <2>2 DEF PromoteAsInviter
<1>8. CASE DropStub(t)
  <2>1. DeviceOK' BY <1>8 DEF DropStub, DeviceOK
  <2>2. ThreadsOK' BY <1>8, GotoOK DEF DropStub, WellFormed
  <2> QED BY <1>r, <1>8, <2>1, <2>2 DEF DropStub
<1>9. CASE MarkRejected(t)
  <2>1. DeviceOK' BY <1>9, DeviceAssumption DEF MarkRejected, DeviceOK, Device, State
  <2>2. ThreadsOK' BY <1>9, GotoOK DEF MarkRejected, WellFormed
  <2> QED BY <1>r, <1>9, <2>1, <2>2 DEF MarkRejected
<1>10. CASE RetryHello(t)
  <2>1. DeviceOK' BY <1>10 DEF RetryHello, DeviceOK, deviceVars
  <2>2. ThreadsOK' BY <1>10, GotoOK DEF RetryHello, WellFormed
  <2> QED BY <1>r, <1>10, <2>1, <2>2 DEF RetryHello
<1>11. CASE MarkAwaitingAck(t)
  <2>1. reopened' \subseteq Redeemer BY <1>11 DEF MarkAwaitingAck, Overwrites, DeviceOK
  <2>2. /\ state' = state \/ state' = [state EXCEPT ![DeviceOf[t]] = "awaiting_ack"]
        /\ UNCHANGED <<invitation, peer, contact, deleted, late>>
    BY <1>11 DEF MarkAwaitingAck
  <2>3. DeviceOK' BY <2>1, <2>2, DeviceAssumption DEF DeviceOK, Device, State
  <2>4. ThreadsOK' BY <1>11, GotoOK, LeaveOK DEF MarkAwaitingAck, WellFormed
  <2> QED BY <1>r, <1>11, <2>3, <2>4 DEF MarkAwaitingAck
<1>12. CASE UndoStub(t)
  <2>1. DeviceOK' BY <1>12 DEF UndoStub, DeviceOK
  <2>2. ThreadsOK' BY <1>12, GotoOK DEF UndoStub, WellFormed
  <2> QED BY <1>r, <1>12, <2>1, <2>2 DEF UndoStub
<1>13. CASE ForgetRow(t)
  <2>1. DeviceOK' BY <1>13, DeviceAssumption DEF ForgetRow, DeviceOK, Device, State
  <2>2. ThreadsOK' BY <1>13, LeaveOK DEF ForgetRow
  <2> QED BY <1>r, <1>13, <2>1, <2>2 DEF ForgetRow
<1>14. CASE HearAck(t)
  <2>1. DeviceOK' BY <1>14 DEF HearAck, DeviceOK, deviceVars
  <2>2. ThreadsOK' BY <1>14, GotoOK DEF HearAck, WellFormed
  <2> QED BY <1>r, <1>14, <2>1, <2>2 DEF HearAck
<1>15. CASE ClaimAsInvitee(t)
  <2>1. DeviceOK' BY <1>15, DeviceAssumption DEF ClaimAsInvitee, DeviceOK, Device, State
  <2>2. ThreadsOK' BY <1>15, GotoOK DEF ClaimAsInvitee, WellFormed
  <2> QED BY <1>r, <1>15, <2>1, <2>2 DEF ClaimAsInvitee
<1>16. CASE PromoteAsInvitee(t)
  <2>1. DeviceOK' BY <1>16 DEF PromoteAsInvitee, DeviceOK
  <2>2. ThreadsOK' BY <1>16, GotoOK DEF PromoteAsInvitee, WellFormed
  <2> QED BY <1>r, <1>16, <2>1, <2>2 DEF PromoteAsInvitee
<1> QED
  BY <1>1, <1>2, <1>3, <1>4, <1>5, <1>6, <1>7, <1>8, <1>9, <1>10, <1>11, <1>12,
     <1>13, <1>14, <1>15, <1>16 DEF Quiet

\* Steps that are relay calls.
LEMMA TypedOverRelay ==
  ASSUME Typed, HolderInv, NEW t \in Thread, NEW f \in Fault, OverRelay(t, f)
  PROVE  Typed'
<1> USE DEF At, Typed
<1>0. /\ DeviceOf[t] \in Device
      /\ DeviceOf[t] # Inviter <=> DeviceOf[t] \in Redeemer
      /\ Address(DeviceOf[t]) \in {"inviter", "invitee"}
      /\ WellFormed(t, job[t])
  BY Roles DEF ThreadsOK
<1> USE <1>0
<1> USE DEF InviterStep, RedeemerStep, HandlingAsInviter, HandlingAsInvitee
<1>d. UNCHANGED deviceVars => DeviceOK'
  BY DEF DeviceOK, deviceVars
<1>1. CASE FetchInbox(t, f)
  <2>1. RelayOK' BY <1>1, CallOK DEF FetchInbox, RelayOK, relayVars
  <2>2. inbox[Address(DeviceOf[t])] \in Seq(Envelope) BY DEF RelayOK
  <2>3. ThreadsOK' BY <1>1, <2>2, IdleOK, WorkOK, JobOK DEF FetchInbox
  <2> QED BY <1>d, <1>1, <2>1, <2>3 DEF FetchInbox
<1>2. CASE Discard(t, f)
  <2>1. RelayOK' BY <1>2, AcknowledgeOK DEF Discard
  <2>2. ThreadsOK' BY <1>2, GotoOK, NextEnvelopeOK DEF Discard, WellFormed
  <2> QED BY <1>d, <1>2, <2>1, <2>2 DEF Discard
<1>3. CASE GiveUp(t, f)
  <2>1. RelayOK' BY <1>3, AcknowledgeOK DEF GiveUp
  <2>2. ThreadsOK' BY <1>3, NextEnvelopeOK DEF GiveUp
  <2> QED BY <1>d, <1>3, <2>1, <2>2 DEF GiveUp
<1>4. CASE Decommission(t, f)
  <2>1. RelayOK' BY <1>4, DecommissionOK DEF Decommission
  <2>2. ThreadsOK' BY <1>4, NextEnvelopeOK DEF Decommission
  <2> QED BY <1>d, <1>4, <2>1, <2>2 DEF Decommission
<1>5. CASE ConfirmHello(t, f)
  <2>1. RelayOK' BY <1>5, AcknowledgeOK DEF ConfirmHello
  <2>2. CASE f = "none" /\ state[Inviter] = "hello_received"
    <3> DEFINE j == [job[t] EXCEPT !.at = "accept", !.peer = peer]
    <3>1. job' = [job EXCEPT ![t] = j] BY <1>5, <2>2 DEF ConfirmHello
    <3>2. WellFormed(t, j) BY <1>5 DEF ConfirmHello, WellFormed, Job, Step, DeviceOK
    <3> QED BY <3>1, <3>2, JobOK, <1>d, <1>5, <2>1 DEF ConfirmHello
  <2>3. CASE ~(f = "none" /\ state[Inviter] = "hello_received")
    <3>1. ThreadsOK'
      BY <1>5, <2>3, GotoOK, NextEnvelopeOK DEF ConfirmHello, WellFormed
    <3> QED BY <1>d, <1>5, <2>1, <3>1 DEF ConfirmHello
  <2> QED BY <2>2, <2>3
<1>6. CASE SendAck(t, f)
  <2>1. DeviceOf[t] = Inviter BY <1>6 DEF SendAck, WellFormed
  <2>2. job[t].peer \in Redeemer
    BY <1>6, <2>1 DEF SendAck, HolderInv, Knows, InviterKnows, DeviceOK
  <2>3. RelayOK' BY <1>6, <2>2, PostAckOK DEF SendAck
  <2>4. ThreadsOK' BY <1>6, <2>1, GotoOK, NextEnvelopeOK DEF SendAck
  <2> QED BY <1>d, <1>6, <2>3, <2>4 DEF SendAck
<1>7. CASE EstablishAsInviter(t, f)
  <2>1. job[t].peer \in Redeemer
    BY <1>7 DEF EstablishAsInviter, HolderInv, Knows, InviterKnows, DeviceOK
  <2>2. RelayOK' BY <1>7, <2>1, EstablishOK DEF EstablishAsInviter
  <2>3. ThreadsOK' BY <1>7, GotoOK, NextEnvelopeOK DEF EstablishAsInviter
  <2> QED BY <1>d, <1>7, <2>2, <2>3 DEF EstablishAsInviter
<1>8. CASE SendHello(t, f)
  <2>1. DeviceOf[t] \in Redeemer BY <1>8 DEF SendHello, WellFormed
  <2>2. RelayOK' BY <1>8, <2>1, PostHelloOK DEF SendHello
  <2>3. ThreadsOK' BY <1>8, <2>1, GotoOK, LeaveOK DEF SendHello
  <2>4. reopened' \subseteq Redeemer BY <1>8 DEF SendHello, Overwrites, DeviceOK
  <2>5. /\ state' = state \/ state' = [state EXCEPT ![DeviceOf[t]] = "unreachable"]
        /\ UNCHANGED <<invitation, peer, contact, deleted, late>>
    BY <1>8 DEF SendHello
  <2>6. DeviceOK' BY <2>1, <2>4, <2>5, DeviceAssumption DEF DeviceOK, Device, State
  <2> QED BY <2>2, <2>3, <2>6
<1>9. CASE EstablishAsInvitee(t, f)
  <2>1. RelayOK' BY <1>9, EstablishOK DEF EstablishAsInvitee
  <2>2. ThreadsOK'
    BY <1>9, GotoOK, NextEnvelopeOK DEF EstablishAsInvitee, WellFormed, Transport, Fault
  <2> QED BY <1>d, <1>9, <2>1, <2>2 DEF EstablishAsInvitee
<1>10. CASE ConfirmAck(t, f)
  <2>1. RelayOK' BY <1>10, AcknowledgeOK DEF ConfirmAck
  <2>2. ThreadsOK'
    BY <1>10, GotoOK, NextEnvelopeOK DEF ConfirmAck, WellFormed, Transport, Fault
  <2> QED BY <1>d, <1>10, <2>1, <2>2 DEF ConfirmAck
<1> QED
  BY <1>1, <1>2, <1>3, <1>4, <1>5, <1>6, <1>7, <1>8, <1>9, <1>10 DEF OverRelay

\* What the user, the clocks and the system do.
LEMMA TypedRest ==
  ASSUME Typed, HolderInv
  PROVE  /\ \A t \in Thread : ListRow(t) \/ User(t) => Typed'
         /\ \A d \in Device : Expire(d) \/ Stop(d) => Typed'
         /\ Revoke \/ KeyExpires \/ UNCHANGED vars => Typed'
<1> USE DEF At, Typed
<1>d. UNCHANGED deviceVars => DeviceOK'
  BY DEF DeviceOK, deviceVars
<1>r. UNCHANGED <<relayVars, troubles>> => RelayOK'
  BY DEF RelayOK, relayVars
<1>j. UNCHANGED job => ThreadsOK'
  BY DEF ThreadsOK, WellFormed
<1>1. ASSUME NEW t \in Thread, ListRow(t) \/ User(t) PROVE Typed'
  <2>0. /\ DeviceOf[t] \in Device
        /\ DeviceOf[t] # Inviter <=> DeviceOf[t] \in Redeemer
        /\ WellFormed(t, job[t])
    BY Roles DEF ThreadsOK
  <2> USE <2>0
  <2> USE DEF InviterStep, RedeemerStep, HandlingAsInviter, HandlingAsInvitee
  <2>1. CASE ListRow(t)
    <3> DEFINE d == DeviceOf[t]
               j == [Idle EXCEPT !.at = "row", !.seen = state[d],
                                 !.peer = IF d = Inviter THEN peer ELSE None]
    <3>1. job' = [job EXCEPT ![t] = j] BY <2>1 DEF ListRow
    <3>2. j.at = "row" /\ j.seen = state[d] /\ j \in Job
      <4>1. <<>> \in Seq(Envelope) OBVIOUS
      <4>2. state[d] \in State /\ peer \in Redeemer \cup {None} BY DEF DeviceOK
      <4>3. (IF d = Inviter THEN peer ELSE None) \in Redeemer \cup {None} BY <4>2
      <4>4. Idle \in Job BY <4>1 DEF Idle, Job, Step, State
      <4>5. "row" \in Step BY DEF Step
      <4> QED BY <4>2, <4>3, <4>4, <4>5 DEF Job
    <3>3. WellFormed(t, j) BY <3>2 DEF WellFormed, DeviceOK
    <3> QED BY <3>1, <3>3, JobOK, <1>d, <1>r, <2>1 DEF ListRow
  <2>2. CASE ShowIncoming(t)
    <3>1. ThreadsOK' BY <2>2, GotoOK DEF ShowIncoming
    <3> QED BY <1>d, <1>r, <2>2, <3>1 DEF ShowIncoming
  <2>3. CASE AcceptIncoming(t)
    <3>1. DeviceOf[t] = Inviter BY <2>3 DEF AcceptIncoming, WellFormed
    <3>2. CASE state[Inviter] = "hello_received"
      <4> DEFINE j == [job[t] EXCEPT !.at = "accept", !.peer = peer]
      <4>1. job' = [job EXCEPT ![t] = j] BY <2>3, <3>2 DEF AcceptIncoming
      <4>2. WellFormed(t, j) BY <3>1 DEF WellFormed, Job, Step, DeviceOK
      <4> QED BY <4>1, <4>2, JobOK, <1>d, <1>r, <2>3 DEF AcceptIncoming
    <3>3. CASE state[Inviter] # "hello_received"
      <4>1. ThreadsOK' BY <2>3, <3>3, LeaveOK DEF AcceptIncoming
      <4> QED BY <4>1, <1>d, <1>r, <2>3 DEF AcceptIncoming
    <3> QED BY <3>2, <3>3
  <2>4. CASE RedeemInvitation(t)
    <3> DEFINE r == DeviceOf[t]
    <3>1. r \in Redeemer BY <2>4 DEF RedeemInvitation
    <3>2. DeviceOK'
      <4>1. "dispatching_hello" \in State /\ r # Inviter
        BY <3>1, DeviceAssumption DEF State
      <4>2. /\ state' = state \/ state' = [state EXCEPT ![r] = "dispatching_hello"]
            /\ late' = late \/ late' = [late EXCEPT ![r] = FALSE]
            /\ contact' = contact \/ contact' = [contact EXCEPT ![r] = "stub"]
            /\ UNCHANGED <<invitation, peer, deleted, reopened>>
        BY <2>4 DEF RedeemInvitation
      <4>3. state' \in [Device -> State] /\ state'[Inviter] = state[Inviter]
            /\ \A q \in Redeemer : state'[q] # "hello_received"
        BY <4>1, <4>2 DEF DeviceOK, Device
      <4>4. late' \in [Device -> BOOLEAN]
            /\ contact' \in [Device -> {"none", "stub", "connected"}]
        BY <4>2 DEF DeviceOK
      <4> QED BY <4>2, <4>3, <4>4 DEF DeviceOK
    <3>3. PICK m \in {"fresh", "again", "repeat"} :
             job' = [job EXCEPT ![t].at = "post", ![t].mode = m]
      BY <2>4 DEF RedeemInvitation
    <3> DEFINE j == [job[t] EXCEPT !.at = "post", !.mode = m]
    <3>4. job' = [job EXCEPT ![t] = j] BY <3>3
    <3>5. WellFormed(t, j) BY <3>1 DEF WellFormed, Job, Step
    <3>6. ThreadsOK' BY <3>4, <3>5, JobOK
    <3> QED BY <1>r, <2>4, <3>2, <3>6 DEF RedeemInvitation
  <2>5. ASSUME NEW f \in Fault, RejectIncoming(t, f) PROVE Typed'
    <3>1. DeviceOf[t] = Inviter BY <2>5 DEF RejectIncoming, WellFormed
    <3>2. peer \in Redeemer
      BY <2>5, <3>1 DEF RejectIncoming, HolderInv, Knows, InviterKnows, DeviceOK
    <3>3. RelayOK' BY <2>5, <3>2, PostAckOK DEF RejectIncoming
    <3>4. ThreadsOK' BY <2>5, <3>1, GotoOK, LeaveOK DEF RejectIncoming
    <3> QED BY <1>d, <2>5, <3>3, <3>4 DEF RejectIncoming
  <2> QED BY <1>1, <2>1, <2>2, <2>3, <2>4, <2>5 DEF User
<1>2. ASSUME NEW d \in Device, Expire(d) PROVE Typed'
  <2>1. DeviceOK' BY <1>2 DEF Expire, DeviceOK
  <2>2. RelayOK' BY <1>2, BoundAssumption DEF Expire, RelayOK, relayVars, Trouble
  <2> QED BY <1>j, <1>2, <2>1, <2>2 DEF Expire
<1>3. ASSUME NEW d \in Device, Stop(d) PROVE Typed'
  <2>1. RelayOK' BY <1>3, BoundAssumption DEF Stop, RelayOK, relayVars, Trouble
  <2>2. job' = [t \in Thread |-> IF DeviceOf[t] = d THEN Idle ELSE job[t]]
    BY <1>3 DEF Stop
  <2>3. \A t \in Thread : WellFormed(t, job'[t]) /\ job'[t] \in Job
    BY <2>2, IdleOK DEF ThreadsOK, WellFormed
  <2>4. ThreadsOK' BY <2>2, <2>3 DEF ThreadsOK, WellFormed
  <2> QED BY <1>d, <1>3, <2>1, <2>4 DEF Stop
<1>4. CASE Revoke
  <2>1. DeviceOK' BY <1>4 DEF Revoke, DeviceOK
  <2> QED BY <1>j, <1>r, <1>4, <2>1 DEF Revoke
<1>5. CASE KeyExpires
  <2>1. RelayOK' BY <1>5 DEF KeyExpires, RelayOK
  <2> QED BY <1>d, <1>j, <1>5, <2>1 DEF KeyExpires
<1>6. CASE UNCHANGED vars
  BY <1>d, <1>j, <1>r, <1>6 DEF vars
<1> QED BY <1>1, <1>2, <1>3, <1>4, <1>5, <1>6

LEMMA TypedStep == Typed /\ HolderInv /\ [Next]_vars => Typed'
BY TypedQuiet, TypedOverRelay, TypedRest DEF Next, Proceed

------------------------------------------------------------------------------
(* The holder: what a step leaves alone *)

\* The holder stays, an invitation that was used is not pending again, and a
\* pending one has the same first hello.
CodeKept ==
  /\ UNCHANGED peer
  /\ invitation' = "pending" => invitation = "pending"
  /\ invitation' = "pending" /\ inbox["inviter"] # <<>> =>
       inbox'["inviter"] # <<>> /\ Head(inbox'["inviter"]) = Head(inbox["inviter"])

Others(t) == \A u \in Thread \ {t} : job'[u] = job[u]

LEMMA KnowsKept ==
  ASSUME HolderInv, CodeKept, NEW u \in Thread, job'[u] = job[u]
  PROVE  Knows(u, job[u])'
BY DEF HolderInv, CodeKept, Knows, InviterKnows, InviteeKnows

LEMMA IdleKnows ==
  ASSUME NEW u \in Thread, job'[u] = Idle
  PROVE  Knows(u, job[u])' /\ ~About(u)'
<1>1. job'[u].envs = <<>> /\ job'[u].at = "idle" BY DEF Idle
<1>2. 1 .. Len(job'[u].envs) = {} BY <1>1
<1> QED BY <1>1, <1>2 DEF Knows, InviterKnows, InviteeKnows, About

LEMMA HolderOne ==
  ASSUME HolderInv, CodeKept, CodeInv', NEW t \in Thread, Others(t),
         Knows(t, job[t])', ~About(t)'
  PROVE  HolderInv'
<1>1. \A u \in Thread : Knows(u, job[u])' BY KnowsKept DEF Others
<1>2. Agreed'
  <2>1. \A u \in Thread : About(u)' => job'[u] = job[u] /\ About(u)
    BY DEF Others, About
  <2> QED BY <2>1 DEF Agreed, HolderInv
<1> QED BY <1>1, <1>2 DEF HolderInv

LEMMA HolderSame ==
  ASSUME HolderInv, CodeKept, CodeInv',
         \A u \in Thread : job'[u] = job[u] \/ job'[u] = Idle
  PROVE  HolderInv'
<1>1. \A u \in Thread : Knows(u, job[u])' BY KnowsKept, IdleKnows
<1>2. Agreed'
  <2>1. \A u \in Thread : About(u)' => job'[u] = job[u] /\ About(u)
    BY IdleKnows DEF About
  <2> QED BY <2>1 DEF Agreed, HolderInv
<1> QED BY <1>1, <1>2 DEF HolderInv

\* A thread whose work is replaced, and what it knows then.
LEMMA LeaveKnows ==
  ASSUME Typed, NEW t \in Thread, Leave(t)
  PROVE  Knows(t, job[t])' /\ ~About(t)' /\ Others(t)
<1>1. job'[t] = Idle BY DEF Typed, ThreadsOK, Leave
<1> QED BY <1>1, IdleKnows DEF Others, Leave, Typed, ThreadsOK

LEMMA NextKnows ==
  ASSUME Typed, HolderInv, CodeKept, NEW t \in Thread, NextEnvelope(t),
         DeviceOf[t] = Inviter => invitation # "pending"
  PROVE  Knows(t, job[t])' /\ ~About(t)' /\ Others(t)
<1> DEFINE envs == job[t].envs
           j == IF Len(envs) > 1 THEN Work(Tail(envs)) ELSE Idle
<1>1. job' = [job EXCEPT ![t] = j] BY DEF NextEnvelope
<1>2. Others(t) /\ job'[t] = j BY <1>1 DEF Others, Typed, ThreadsOK
<1>3. CASE Len(envs) > 1 /\ Tail(envs) # <<>>
  <2>1. envs \in Seq(Envelope) BY DEF Typed, ThreadsOK, Job
  <2>2. job'[t].at = "envelope" /\ job'[t].envs = Tail(envs)
    BY <1>2, <1>3 DEF Work, Idle
  <2>3. \A i \in 1 .. Len(Tail(envs)) :
          i + 1 \in 1 .. Len(envs) /\ Tail(envs)[i] = envs[i + 1]
    BY <1>3, <2>1
  <2>4. Knows(t, job[t]) BY DEF HolderInv
  <2>5. CASE DeviceOf[t] = Inviter
    <3>1. InviterKnows(job[t])'
      BY <2>2, <2>3, <2>4, <2>5 DEF Knows, InviterKnows, CodeKept
    <3> QED BY <1>2, <2>2, <2>5, <3>1 DEF Knows, About
  <2>6. CASE DeviceOf[t] # Inviter
    <3>1. InviteeKnows(DeviceOf[t], job[t])'
      BY <2>2, <2>3, <2>4, <2>6 DEF Knows, InviteeKnows, CodeKept
    <3> QED BY <1>2, <2>2, <2>6, <3>1 DEF Knows, About
  <2> QED BY <2>5, <2>6
<1>4. CASE ~(Len(envs) > 1 /\ Tail(envs) # <<>>)
  <2>1. j = Idle BY <1>4 DEF Work
  <2> QED BY <1>2, <2>1, IdleKnows
<1> QED BY <1>3, <1>4

LEMMA GotoKnows ==
  ASSUME Typed, HolderInv, CodeKept, NEW t \in Thread, NEW step, Goto(t, step),
         DeviceOf[t] = Inviter =>
           /\ invitation # "pending" /\ step \notin {"row", "consume", "stash"}
           /\ step \in {"accept", "establish", "claim", "promote"} => job[t].peer = peer
           /\ step \in {"accept", "establish", "claim", "promote", "shown"} => peer # None,
         DeviceOf[t] # Inviter =>
           (step \in {"establish", "claim", "promote"} => peer = DeviceOf[t])
  PROVE  Knows(t, job[t])' /\ ~About(t)' /\ Others(t)
<1>1. job' = [job EXCEPT ![t].at = step] /\ job[t] \in Job
  BY DEF Goto, Typed, ThreadsOK
<1>2. Others(t) BY <1>1 DEF Others, Typed, ThreadsOK
<1>3. job'[t].at = step /\ job'[t].envs = job[t].envs /\ job'[t].peer = job[t].peer
  BY <1>1 DEF Job, Typed, ThreadsOK
<1>4. Knows(t, job[t]) BY DEF HolderInv
<1> QED BY <1>2, <1>3, <1>4 DEF Knows, InviterKnows, InviteeKnows, About, CodeKept

------------------------------------------------------------------------------
(* The holder: what a relay call leaves *)

HeadKept ==
  inbox["inviter"] # <<>> =>
    inbox'["inviter"] # <<>> /\ Head(inbox'["inviter"]) = Head(inbox["inviter"])

LEMMA HelloInbox ==
  ASSUME RelayOK, InboxInv, UNCHANGED peer, NEW r \in Redeemer, NEW f, PostHello(r, f)
  PROVE  InboxInv' /\ HeadKept
<1>1. CASE UNCHANGED inbox BY <1>1 DEF InboxInv, HeadKept
<1>2. CASE Put("inviter", r, "hello")
  <2> DEFINE e == [id |-> posted + 1, peer |-> r, says |-> "hello"]
             s == inbox["inviter"]
  <2>1. inbox'["inviter"] = Append(s, e) /\ inbox'["invitee"] = inbox["invitee"]
    BY <1>2 DEF Put, RelayOK
  <2>2. s \in Seq(Envelope) BY DEF RelayOK
  <2>3. \A i \in 1 .. Len(Append(s, e)) : Append(s, e)[i].says = "hello"
    <3>1. \A i \in 1 .. Len(s) : Append(s, e)[i] = s[i] BY <2>2
    <3>2. Append(s, e)[Len(s) + 1] = e /\ Len(Append(s, e)) = Len(s) + 1 BY <2>2
    <3>3. \A i \in 1 .. Len(s) + 1 : i \in 1 .. Len(s) \/ i = Len(s) + 1 BY <2>2
    <3>4. \A i \in 1 .. Len(s) : s[i].says = "hello" BY DEF InboxInv
    <3> QED BY <3>1, <3>2, <3>3, <3>4
  <2>4. ASSUME s # <<>> PROVE Append(s, e) # <<>> /\ Head(Append(s, e)) = Head(s)
    <3>1. posted + 1 \in 1 .. MaxEnvelopes BY <1>2, BoundAssumption DEF Put, RelayOK
    <3>2. e \in Envelope BY <3>1 DEF Envelope
    <3> HIDE DEF e
    <3>3. Append(s, e) \in Seq(Envelope) /\ Len(Append(s, e)) = Len(s) + 1
      BY <2>2, <3>2
    <3>4. 1 \in 1 .. Len(s) BY <2>2, <2>4
    <3>5. Append(s, e)[1] = s[1] BY <2>2, <3>2, <3>4
    <3> QED BY <2>2, <3>3, <3>4, <3>5
  <2> HIDE DEF e
  <2>5. \A i \in 1 .. Len(inbox'["inviter"]) : inbox'["inviter"][i].says = "hello"
    BY <2>1, <2>3
  <2>6. \A i \in 1 .. Len(inbox'["invitee"]) : inbox'["invitee"][i].peer = peer'
    BY <2>1 DEF InboxInv
  <2>7. HeadKept BY <2>1, <2>4 DEF HeadKept
  <2> QED BY <2>5, <2>6, <2>7 DEF InboxInv
<1> QED BY <1>1, <1>2 DEF PostHello

LEMMA AckInbox ==
  ASSUME RelayOK, InboxInv, UNCHANGED peer, NEW says, NEW f, PostAck(peer, says, f)
  PROVE  InboxInv' /\ HeadKept
<1>1. CASE UNCHANGED inbox BY <1>1 DEF InboxInv, HeadKept
<1>2. CASE Put("invitee", peer, says)
  <2> DEFINE e == [id |-> posted + 1, peer |-> peer, says |-> says]
             s == inbox["invitee"]
  <2>1. inbox'["invitee"] = Append(s, e) /\ inbox'["inviter"] = inbox["inviter"]
    BY <1>2 DEF Put, RelayOK
  <2>2. s \in Seq(Envelope) BY DEF RelayOK
  <2>3. \A i \in 1 .. Len(Append(s, e)) : Append(s, e)[i].peer = peer
    <3>1. \A i \in 1 .. Len(s) : Append(s, e)[i] = s[i] BY <2>2
    <3>2. Append(s, e)[Len(s) + 1] = e /\ Len(Append(s, e)) = Len(s) + 1 BY <2>2
    <3>3. \A i \in 1 .. Len(s) + 1 : i \in 1 .. Len(s) \/ i = Len(s) + 1 BY <2>2
    <3>4. \A i \in 1 .. Len(s) : s[i].peer = peer BY DEF InboxInv
    <3> QED BY <3>1, <3>2, <3>3, <3>4
  <2>4. \A i \in 1 .. Len(inbox'["invitee"]) : inbox'["invitee"][i].peer = peer'
    BY <2>1, <2>3
  <2>5. \A i \in 1 .. Len(inbox'["inviter"]) : inbox'["inviter"][i].says = "hello"
    BY <2>1 DEF InboxInv
  <2> QED BY <2>1, <2>4, <2>5 DEF InboxInv, HeadKept
<1> QED BY <1>1, <1>2 DEF PostAck

LEMMA AcknowledgedInbox ==
  ASSUME RelayOK, InboxInv, UNCHANGED peer, NEW a \in {"inviter", "invitee"}, NEW e, NEW f,
         Acknowledge(a, e, f)
  PROVE  InboxInv' /\ (a # "inviter" => HeadKept)
<1>1. CASE UNCHANGED inbox BY <1>1 DEF InboxInv, HeadKept
<1>2. CASE inbox' = [inbox EXCEPT ![a] = Without(@, e.id)]
  <2>1. inbox'[a] = Without(inbox[a], e.id) /\ inbox[a] \in Seq(Envelope)
        /\ \A b \in {"inviter", "invitee"} \ {a} : inbox'[b] = inbox[b]
    BY <1>2 DEF RelayOK
  <2>2. \A j \in 1 .. Len(inbox'[a]) : \E i \in 1 .. Len(inbox[a]) : inbox'[a][j] = inbox[a][i]
    BY <2>1, WithoutKeeps
  <2>3. InboxInv' BY <2>1, <2>2 DEF InboxInv
  <2>4. a # "inviter" => inbox'["inviter"] = inbox["inviter"] BY <2>1
  <2> QED BY <2>3, <2>4 DEF HeadKept
<1>3. UNCHANGED inbox \/ inbox' = [inbox EXCEPT ![a] = Without(@, e.id)]
  BY DEF Acknowledge, RelayOK
<1> QED BY <1>1, <1>2, <1>3

------------------------------------------------------------------------------
(* The holder: each step *)

LEMMA HolderInit == Init => HolderInv
<1> SUFFICES ASSUME Init PROVE HolderInv OBVIOUS
<1>1. \A t \in Thread : job[t].envs = <<>> /\ job[t].at = "idle" BY DEF Init, Idle
<1>2. 1 .. Len(<<>>) = {} OBVIOUS
<1>3. \A t \in Thread : Knows(t, job[t])
  BY <1>1, <1>2 DEF Knows, InviterKnows, InviteeKnows
<1>4. Agreed BY <1>1 DEF Agreed, About
<1>5. CodeInv
  BY <1>2, DeviceAssumption DEF Init, CodeInv, InboxInv, Device
<1> QED BY <1>3, <1>4, <1>5 DEF HolderInv

\* Hearing a hello while the invitation is pending: it is the first in the
\* inbox, and so is that of every other thread about to take one.
LEMMA HolderHears ==
  ASSUME Typed, HolderInv, NEW t \in Thread, HearHello(t) PROVE HolderInv'
<1> USE DEF At
<1>k. CodeKept /\ CodeInv'
  BY DEF HearHello, deviceVars, relayVars, CodeKept, HolderInv, CodeInv, InboxInv
<1>1. /\ job[t].envs # <<>> /\ Knows(t, job[t]) /\ WellFormed(t, job[t])
      /\ DeviceOf[t] = Inviter
  BY DEF Typed, ThreadsOK, WellFormed, HolderInv, HearHello, HandlingAsInviter
<1>2. CASE invitation = "pending" /\ Current(t).says = "hello"
  <2>1. job' = [job EXCEPT ![t].at = "consume"] BY <1>2 DEF HearHello, Goto
  <2>2. /\ job'[t].at = "consume" /\ job'[t].envs = job[t].envs
        /\ \A u \in Thread \ {t} : job'[u] = job[u]
    BY <2>1, <1>1 DEF Typed, ThreadsOK, WellFormed, Job
  <2>3. Knows(t, job[t])'
    BY <1>1, <1>2, <2>2 DEF Knows, InviterKnows, HearHello, deviceVars, relayVars,
                           HolderInv, CodeInv
  <2>4. \A u \in Thread : Knows(u, job[u])' BY <1>k, <2>2, <2>3, KnowsKept
  <2>5. \A u \in Thread : About(u) => Head(job[u].envs) = Head(inbox["inviter"])
    BY <1>2 DEF About, HolderInv, Knows, InviterKnows
  <2>6. Head(job[t].envs) = Head(inbox["inviter"])
    BY <1>1, <1>2 DEF HearHello, Knows, InviterKnows
  <2>7. \A u \in Thread : About(u)' => Head(job'[u].envs) = Head(inbox["inviter"])
    BY <2>2, <2>5, <2>6 DEF About
  <2> QED BY <1>k, <2>4, <2>7 DEF HolderInv, Agreed
<1>3. CASE ~(invitation = "pending" /\ Current(t).says = "hello")
  <2>1. Current(t).says = "hello"
    BY <1>1, CurrentOK DEF Typed, Knows, InviterKnows
  <2>2. Goto(t, "discard") BY <1>3 DEF HearHello
  <2> QED BY <1>k, <1>1, <1>3, <2>1, <2>2, GotoKnows, HolderOne
<1> QED BY <1>2, <1>3

LEMMA HolderMarks ==
  ASSUME Typed, HolderInv, NEW t \in Thread, MarkUsed(t) PROVE HolderInv'
<1> USE DEF At
<1>1. /\ WellFormed(t, job[t]) /\ Knows(t, job[t]) /\ DeviceOf[t] = Inviter
  BY DEF Typed, ThreadsOK, WellFormed, HolderInv, MarkUsed, RedeemerStep
<1>2. invitation' # "pending"
  BY DEF MarkUsed
<1>k. CodeKept /\ CodeInv'
  BY <1>2 DEF MarkUsed, relayVars, CodeKept, HolderInv, CodeInv, InboxInv
<1>3. /\ job'[t].at = "stash" /\ job'[t].envs = job[t].envs
      /\ \A u \in Thread \ {t} : job'[u] = job[u]
  BY <1>1 DEF MarkUsed, Goto, Typed, ThreadsOK, WellFormed, Job
<1>4. Knows(t, job[t])'
  BY <1>1, <1>2, <1>3 DEF MarkUsed, Knows, InviterKnows
<1>5. \A u \in Thread : Knows(u, job[u])' BY <1>k, <1>3, <1>4, KnowsKept
<1>6. \A u \in Thread : About(u)' => About(u) /\ Head(job'[u].envs) = Head(job[u].envs)
  BY <1>1, <1>3 DEF About, MarkUsed
<1> QED BY <1>k, <1>5, <1>6 DEF HolderInv, Agreed

\* Taking a hello: whoever takes one later, or has taken one, takes the same.
LEMMA HolderTakes ==
  ASSUME Typed, HolderInv, NEW t \in Thread, StashPeer(t) PROVE HolderInv'
<1> USE DEF At
<1>1. /\ WellFormed(t, job[t]) /\ Knows(t, job[t]) /\ DeviceOf[t] = Inviter
      /\ About(t) /\ job[t].envs # <<>>
  BY DEF Typed, ThreadsOK, WellFormed, HolderInv, StashPeer, RedeemerStep, About,
         HandlingAsInviter
<1>2. peer' = Head(job[t].envs).peer /\ peer' \in Redeemer /\ peer' # None
  BY <1>1, CurrentOK, DeviceAssumption DEF StashPeer, Current, Envelope, Typed, Device
<1>3. peer = None \/ peer' = peer
  BY <1>1, <1>2 DEF StashPeer, Knows, InviterKnows
<1>4. invitation # "pending" BY <1>1 DEF StashPeer, Knows, InviterKnows
<1>5. /\ job'[t].at = "confirm" /\ job'[t].envs = job[t].envs
      /\ \A u \in Thread \ {t} : job'[u] = job[u]
      /\ UNCHANGED <<invitation, inbox, contact>>
  BY <1>1 DEF StashPeer, Goto, Typed, ThreadsOK, WellFormed, Job, relayVars
<1>6. \A u \in Thread : About(u)' => About(u) /\ Head(job'[u].envs).peer = peer'
  BY <1>1, <1>2, <1>5 DEF About, HolderInv, Agreed
<1>7. ASSUME NEW u \in Thread PROVE Knows(u, job[u])'
  <2>1. Knows(u, job[u]) /\ WellFormed(u, job[u])
    BY DEF HolderInv, Typed, ThreadsOK
  <2>2. CASE DeviceOf[u] = Inviter
    <3>1. \A i \in 1 .. Len(job'[u].envs) : job'[u].envs[i].says = "hello"
      BY <1>5, <2>1, <2>2 DEF Knows, InviterKnows
    <3>2. job'[u].at \in {"consume", "stash"} => Head(job'[u].envs).peer = peer'
      BY <1>6, <2>2 DEF About
    <3>3. CASE u = t
      BY <1>2, <1>4, <1>5, <2>2, <3>1, <3>2, <3>3 DEF Knows, InviterKnows
    <3>4. CASE u # t
      BY <1>2, <1>3, <1>4, <1>5, <2>1, <2>2, <3>1, <3>2, <3>4 DEF Knows, InviterKnows
    <3> QED BY <3>3, <3>4
  <2>3. CASE DeviceOf[u] # Inviter
    <3>1. u # t BY <1>1, <2>3
    <3>2. job[u].envs \in Seq(Envelope) BY <2>1 DEF WellFormed, Job
    <3>3. ASSUME NEW i \in 1 .. Len(job[u].envs) PROVE peer # None
      <4>1. job[u].envs[i] \in Envelope BY <3>2
      <4>2. job[u].envs[i].peer = peer BY <2>1, <2>3 DEF Knows, InviteeKnows
      <4> QED BY <4>1, <4>2, DeviceAssumption DEF Envelope, Device
    <3>4. job[u].at \in {"establish", "claim", "promote"} => peer # None
      BY <2>1, <2>3, Roles, DeviceAssumption DEF Knows, InviteeKnows
    <3> QED BY <1>3, <1>5, <2>1, <2>3, <3>1, <3>3, <3>4 DEF Knows, InviteeKnows
  <2> QED BY <2>2, <2>3
<1>8. CodeInv'
  <2>1. ASSUME NEW i \in 1 .. Len(inbox["invitee"]) PROVE peer # None
    <3>1. inbox["invitee"] \in Seq(Envelope) BY DEF Typed, RelayOK
    <3>2. inbox["invitee"][i] \in Envelope BY <3>1
    <3>3. inbox["invitee"][i].peer = peer BY DEF HolderInv, CodeInv, InboxInv
    <3> QED BY <3>2, <3>3, DeviceAssumption DEF Envelope, Device
  <2>2. InboxInv' BY <1>3, <1>5, <2>1 DEF HolderInv, CodeInv, InboxInv
  <2>3. \A r \in Redeemer : contact[r] = "connected" => peer # None
    BY DeviceAssumption DEF HolderInv, CodeInv, Device
  <2> QED BY <1>2, <1>3, <1>4, <1>5, <2>2, <2>3 DEF HolderInv, CodeInv
<1> QED BY <1>6, <1>7, <1>8 DEF HolderInv, Agreed

\* The steps on the device that neither hear nor take a hello.
LEMMA HolderQuiet ==
  ASSUME Typed, HolderInv, NEW t \in Thread, Quiet(t) PROVE HolderInv'
<1> USE DEF At
<1>0. /\ WellFormed(t, job[t]) /\ Knows(t, job[t]) /\ Typed
      /\ DeviceOf[t] \in Device /\ Inviter \in Device
      /\ DeviceOf[t] # Inviter <=> DeviceOf[t] \in Redeemer
  BY Roles DEF Typed, ThreadsOK, HolderInv, Device
<1> USE <1>0 DEF InviterStep, RedeemerStep, WellFormed
<1>k. UNCHANGED <<invitation, peer, inbox>> => CodeKept
  BY DEF CodeKept
<1>c. ASSUME UNCHANGED <<invitation, peer, inbox, contact>>,
             state'[Inviter] = "hello_received" => state[Inviter] = "hello_received"
      PROVE  CodeInv'
  BY <1>c DEF HolderInv, CodeInv, InboxInv
<1>1. CASE ExpireRow(t)
  <2>1. state'[Inviter] = "hello_received" => state[Inviter] = "hello_received"
    BY <1>1 DEF ExpireRow, Typed, DeviceOK
  <2> QED BY <1>1, <1>k, <1>c, <2>1, LeaveKnows, HolderOne DEF ExpireRow, relayVars
<1>2. CASE HearHello(t) BY <1>2, HolderHears
<1>3. CASE MarkUsed(t) BY <1>3, HolderMarks
<1>4. CASE StashPeer(t) BY <1>4, HolderTakes
<1>5. CASE AutoAccept(t)
  <2>1. DeviceOf[t] = Inviter BY <1>5 DEF AutoAccept
  <2>2. job[t].peer = peer /\ peer # None /\ invitation # "pending"
    BY <1>5, <2>1 DEF AutoAccept, Knows, InviterKnows, HolderInv, CodeInv
  <2>3. CodeKept /\ CodeInv'
    BY <1>5, <1>k, <1>c DEF AutoAccept, relayVars, deviceVars
  <2> QED BY <1>5, <2>1, <2>2, <2>3, GotoKnows, HolderOne DEF AutoAccept
<1>6. CASE ClaimAsInviter(t)
  <2>1. /\ DeviceOf[t] = Inviter /\ job[t].peer = peer /\ peer # None
        /\ invitation # "pending"
    BY <1>6 DEF ClaimAsInviter, Knows, InviterKnows
  <2>2. state'[Inviter] = "hello_received" => state[Inviter] = "hello_received"
    BY <1>6 DEF ClaimAsInviter
  <2>3. CodeKept /\ CodeInv'
    BY <1>6, <1>k, <1>c, <2>2 DEF ClaimAsInviter, relayVars
  <2> QED BY <1>6, <2>1, <2>3, GotoKnows, NextKnows, HolderOne DEF ClaimAsInviter
<1>7. CASE PromoteAsInviter(t)
  <2>1. invitation # "pending" BY <1>7 DEF PromoteAsInviter, Knows, InviterKnows
  <2>2. UNCHANGED <<invitation, peer, inbox, state>>
        /\ \A r \in Redeemer : contact'[r] = contact[r]
    BY <1>7, DeviceAssumption DEF PromoteAsInviter, relayVars, Typed, DeviceOK, Device
  <2>3. CodeInv' BY <2>2 DEF HolderInv, CodeInv, InboxInv
  <2> QED BY <1>7, <1>k, <2>1, <2>2, <2>3, GotoKnows, HolderOne DEF PromoteAsInviter
<1>8. CASE DropStub(t)
  <2>1. DeviceOf[t] = Inviter => invitation # "pending"
    BY <1>8 DEF DropStub, Knows, InviterKnows
  <2>2. CodeKept /\ CodeInv' BY <1>8, <1>k, <1>c DEF DropStub, relayVars
  <2> QED BY <1>8, <2>1, <2>2, GotoKnows, HolderOne DEF DropStub
<1>9. CASE MarkRejected(t)
  <2>1. DeviceOf[t] = Inviter BY <1>9 DEF MarkRejected
  <2>2. invitation # "pending" BY <1>9, <2>1 DEF MarkRejected, Knows, InviterKnows
  <2>3. state'[Inviter] = "rejected" BY <1>9 DEF MarkRejected, Typed, DeviceOK
  <2>4. CodeKept /\ CodeInv' BY <1>9, <1>k, <1>c, <2>3 DEF MarkRejected, relayVars
  <2> QED BY <1>9, <2>1, <2>2, <2>4, GotoKnows, HolderOne DEF MarkRejected
<1>10. CASE RetryHello(t)
  <2>1. DeviceOf[t] # Inviter BY <1>10 DEF RetryHello
  <2>2. CodeKept /\ CodeInv'
    BY <1>10, <1>k, <1>c DEF RetryHello, relayVars, deviceVars
  <2> QED BY <1>10, <2>1, <2>2, GotoKnows, HolderOne DEF RetryHello
<1>11. CASE MarkAwaitingAck(t)
  <2>1. DeviceOf[t] # Inviter BY <1>11 DEF MarkAwaitingAck
  <2>2. state'[Inviter] = state[Inviter]
    BY <1>11, <2>1 DEF MarkAwaitingAck, Typed, DeviceOK
  <2>3. CodeKept /\ CodeInv' BY <1>11, <1>k, <1>c, <2>2 DEF MarkAwaitingAck, relayVars
  <2> QED BY <1>11, <2>1, <2>3, GotoKnows, LeaveKnows, HolderOne DEF MarkAwaitingAck
<1>12. CASE UndoStub(t)
  <2>1. DeviceOf[t] # Inviter BY <1>12 DEF UndoStub
  <2>2. CodeKept /\ CodeInv' BY <1>12, <1>k, <1>c DEF UndoStub, relayVars
  <2> QED BY <1>12, <2>1, <2>2, GotoKnows, HolderOne DEF UndoStub
<1>13. CASE ForgetRow(t)
  <2>1. DeviceOf[t] # Inviter BY <1>13 DEF ForgetRow
  <2>2. state'[Inviter] = state[Inviter]
    BY <1>13, <2>1 DEF ForgetRow, Typed, DeviceOK
  <2>3. CodeKept /\ CodeInv' BY <1>13, <1>k, <1>c, <2>2 DEF ForgetRow, relayVars
  <2> QED BY <1>13, <2>3, LeaveKnows, HolderOne DEF ForgetRow
<1>14. CASE HearAck(t)
  <2>1. DeviceOf[t] # Inviter /\ job[t].envs # <<>>
    BY <1>14, DeviceAssumption DEF HearAck, HandlingAsInvitee
  <2>2. Current(t).peer = peer
    BY <2>1, CurrentOK DEF Knows, InviteeKnows, Typed
  <2>3. CodeKept /\ CodeInv' BY <1>14, <1>k, <1>c DEF HearAck, relayVars, deviceVars
  <2>4. PICK step : Goto(t, step) /\ (step = "establish" => peer = DeviceOf[t])
                    /\ step \in {"discard", "establish", "refused"}
    BY <1>14, <2>2 DEF HearAck
  <2> QED BY <2>1, <2>3, <2>4, GotoKnows, HolderOne
<1>15. CASE ClaimAsInvitee(t)
  <2>1. DeviceOf[t] # Inviter BY <1>15, DeviceAssumption DEF ClaimAsInvitee
  <2>2. state'[Inviter] = state[Inviter]
    BY <1>15, <2>1 DEF ClaimAsInvitee, Typed, DeviceOK
  <2>3. CodeKept /\ CodeInv' BY <1>15, <1>k, <1>c, <2>2 DEF ClaimAsInvitee, relayVars
  <2>4. PICK step : Goto(t, step) /\ (step = "promote" => peer = DeviceOf[t])
                    /\ step \in {"discard", "promote", "drop"}
    BY <1>15, <2>1 DEF ClaimAsInvitee, Knows, InviteeKnows
  <2> QED BY <2>1, <2>3, <2>4, GotoKnows, HolderOne
<1>16. CASE PromoteAsInvitee(t)
  <2>1. DeviceOf[t] # Inviter /\ peer = DeviceOf[t]
    BY <1>16, DeviceAssumption DEF PromoteAsInvitee, Knows, InviteeKnows
  <2>2. UNCHANGED <<invitation, peer, inbox, state>>
        /\ \A r \in Redeemer \ {peer} : contact'[r] = contact[r]
    BY <1>16, <2>1 DEF PromoteAsInvitee, relayVars, Typed, DeviceOK, Device
  <2>3. CodeInv' BY <2>2 DEF HolderInv, CodeInv, InboxInv
  <2> QED BY <1>16, <1>k, <2>1, <2>2, <2>3, GotoKnows, HolderOne DEF PromoteAsInvitee
<1> QED
  BY <1>1, <1>2, <1>3, <1>4, <1>5, <1>6, <1>7, <1>8, <1>9, <1>10, <1>11, <1>12,
     <1>13, <1>14, <1>15, <1>16 DEF Quiet

\* The steps that are relay calls.
LEMMA HolderOverRelay ==
  ASSUME Typed, HolderInv, NEW t \in Thread, NEW f \in Fault, OverRelay(t, f)
  PROVE  HolderInv'
<1> USE DEF At
<1>0. /\ WellFormed(t, job[t]) /\ Knows(t, job[t]) /\ Typed /\ RelayOK /\ InboxInv
      /\ Address(DeviceOf[t]) \in {"inviter", "invitee"}
      /\ DeviceOf[t] # Inviter <=> DeviceOf[t] \in Redeemer
      /\ DeviceOf[t] # Inviter => Address(DeviceOf[t]) # "inviter"
  BY Roles, DeviceAssumption DEF Typed, ThreadsOK, HolderInv, CodeInv, Address
<1> USE <1>0 DEF InviterStep, RedeemerStep, WellFormed
<1>k. ASSUME UNCHANGED <<invitation, peer>>, invitation # "pending" \/ HeadKept
      PROVE  CodeKept
  BY <1>k DEF CodeKept, HeadKept
<1>c. ASSUME UNCHANGED deviceVars, InboxInv' PROVE CodeInv'
  BY <1>c DEF HolderInv, CodeInv, deviceVars
<1>n. UNCHANGED inbox => HeadKept /\ (UNCHANGED peer => InboxInv')
  BY DEF HeadKept, InboxInv
<1>1. CASE FetchInbox(t, f)
  <2> DEFINE box == inbox[Address(DeviceOf[t])]
  <2>1. CodeKept /\ CodeInv'
    BY <1>1, <1>k, <1>c, <1>n DEF FetchInbox, relayVars, deviceVars
  <2>2. /\ job' = [job EXCEPT ![t] = IF f = "none" THEN Work(box) ELSE Idle]
        /\ UNCHANGED <<deviceVars, relayVars>>
    BY <1>1 DEF FetchInbox
  <2>3. Others(t) /\ job'[t] = IF f = "none" THEN Work(box) ELSE Idle
    BY <2>2 DEF Others, Typed, ThreadsOK
  <2>4. CASE f = "none" /\ box # <<>>
    <3>1. job'[t].at = "envelope" /\ job'[t].envs = box
      BY <2>3, <2>4 DEF Work, Idle
    <3>2. CASE DeviceOf[t] = Inviter
      <4>1. InviterKnows(job[t])'
        BY <2>2, <2>4, <3>1, <3>2
           DEF InviterKnows, Address, InboxInv, deviceVars, relayVars
      <4> QED BY <2>1, <2>3, <3>1, <3>2, <4>1, HolderOne DEF Knows, About
    <3>3. CASE DeviceOf[t] # Inviter
      <4>1. InviteeKnows(DeviceOf[t], job[t])'
        BY <2>2, <3>1, <3>3 DEF InviteeKnows, Address, InboxInv, deviceVars, relayVars
      <4> QED BY <2>1, <2>3, <3>1, <3>3, <4>1, HolderOne DEF Knows, About
    <3> QED BY <3>2, <3>3
  <2>5. CASE ~(f = "none" /\ box # <<>>)
    <3>1. job'[t] = Idle BY <2>3, <2>5 DEF Work
    <3> QED BY <2>1, <2>3, <3>1, IdleKnows, HolderOne
  <2> QED BY <2>4, <2>5
<1>2. CASE Discard(t, f)
  <2>1. DeviceOf[t] = Inviter => invitation # "pending"
    BY <1>2 DEF Discard, Knows, InviterKnows
  <2>2. CodeKept /\ CodeInv'
    BY <1>2, <1>k, <1>c, <2>1, AcknowledgedInbox DEF Discard, deviceVars
  <2> QED BY <1>2, <2>1, <2>2, GotoKnows, NextKnows, HolderOne DEF Discard
<1>3. CASE GiveUp(t, f)
  <2>1. DeviceOf[t] = Inviter => invitation # "pending"
    BY <1>3 DEF GiveUp, Knows, InviterKnows
  <2>2. CodeKept /\ CodeInv'
    BY <1>3, <1>k, <1>c, <2>1, AcknowledgedInbox DEF GiveUp, deviceVars
  <2> QED BY <1>3, <2>1, <2>2, NextKnows, HolderOne DEF GiveUp
<1>4. CASE Decommission(t, f)
  <2>1. DeviceOf[t] = Inviter => invitation # "pending"
    BY <1>4 DEF Decommission, Knows, InviterKnows
  <2>2. CodeKept /\ CodeInv'
    BY <1>4, <1>k, <1>c, <1>n
       DEF Decommission, DecommissionHandshakeAddresses, deviceVars
  <2> QED BY <1>4, <2>1, <2>2, NextKnows, HolderOne DEF Decommission
<1>5. CASE ConfirmHello(t, f)
  <2>1. DeviceOf[t] = Inviter /\ invitation # "pending"
    BY <1>5 DEF ConfirmHello, Knows, InviterKnows
  <2>2. CodeKept /\ CodeInv'
    BY <1>5, <1>k, <1>c, <2>1, AcknowledgedInbox DEF ConfirmHello, deviceVars
  <2>3. CASE f = "none" /\ state[Inviter] = "hello_received"
    <3>1. job' = [job EXCEPT ![t].at = "accept", ![t].peer = peer] /\ peer # None
      BY <1>5, <2>3 DEF ConfirmHello, HolderInv, CodeInv
    <3>2. /\ job'[t].at = "accept" /\ job'[t].peer = peer /\ job'[t].envs = job[t].envs
          /\ Others(t)
      BY <3>1 DEF Others, Typed, ThreadsOK, Job
    <3>3. Knows(t, job[t])' /\ ~About(t)'
      BY <2>1, <2>2, <3>1, <3>2 DEF Knows, InviterKnows, CodeKept, About
    <3> QED BY <2>2, <3>2, <3>3, HolderOne
  <2>4. CASE ~(f = "none" /\ state[Inviter] = "hello_received")
    BY <1>5, <2>1, <2>2, <2>4, GotoKnows, NextKnows, HolderOne DEF ConfirmHello
  <2> QED BY <2>3, <2>4
<1>6. CASE SendAck(t, f)
  <2>1. /\ DeviceOf[t] = Inviter /\ job[t].peer = peer /\ peer # None
        /\ invitation # "pending"
    BY <1>6 DEF SendAck, Knows, InviterKnows
  <2>2. PICK refusing \in {FALSE, job[t].peer \in Anchored} :
          /\ PostAck(peer, IF refusing THEN "refuse" ELSE "accept", f)
          /\ IF f = "none" /\ routing = "active"
               THEN Goto(t, IF refusing THEN "drop" ELSE "establish")
               ELSE NextEnvelope(t)
    BY <1>6, <2>1 DEF SendAck
  <2>3. UNCHANGED <<invitation, peer>> BY <1>6 DEF SendAck, deviceVars
  <2>4. CodeKept /\ CodeInv'
    BY <1>6, <1>k, <1>c, <2>1, <2>2, <2>3, AckInbox DEF SendAck
  <2> QED BY <2>1, <2>2, <2>4, GotoKnows, NextKnows, HolderOne
<1>7. CASE EstablishAsInviter(t, f)
  <2>1. /\ DeviceOf[t] = Inviter /\ job[t].peer = peer /\ peer # None
        /\ invitation # "pending"
    BY <1>7 DEF EstablishAsInviter, Knows, InviterKnows
  <2>2. CodeKept /\ CodeInv'
    BY <1>7, <1>k, <1>c, <1>n DEF EstablishAsInviter, Establish, deviceVars
  <2> QED BY <1>7, <2>1, <2>2, GotoKnows, NextKnows, HolderOne DEF EstablishAsInviter
<1>8. CASE SendHello(t, f)
  <2>1. DeviceOf[t] \in Redeemer /\ DeviceOf[t] # Inviter BY <1>8 DEF SendHello
  <2>2. InboxInv' /\ HeadKept BY <1>8, <2>1, HelloInbox DEF SendHello
  <2>3. /\ state' = state \/ state' = [state EXCEPT ![DeviceOf[t]] = "unreachable"]
        /\ UNCHANGED <<invitation, peer, contact>>
    BY <1>8 DEF SendHello
  <2>4. state'[Inviter] = state[Inviter] BY <2>1, <2>3 DEF Typed, DeviceOK, Device
  <2>5. CodeKept /\ CodeInv' BY <1>k, <2>2, <2>3, <2>4 DEF HolderInv, CodeInv
  <2>6. Leave(t) \/ \E step \in {"mark", "undo"} : Goto(t, step)
    BY <1>8 DEF SendHello
  <2> QED BY <2>1, <2>5, <2>6, GotoKnows, LeaveKnows, HolderOne
<1>9. CASE EstablishAsInvitee(t, f)
  <2>1. DeviceOf[t] # Inviter /\ peer = DeviceOf[t]
    BY <1>9, DeviceAssumption DEF EstablishAsInvitee, Knows, InviteeKnows
  <2>2. CodeKept /\ CodeInv'
    BY <1>9, <1>k, <1>c, <1>n DEF EstablishAsInvitee, Establish, deviceVars
  <2>3. NextEnvelope(t) \/ \E step \in {"claim", "giveup"} : Goto(t, step)
    BY <1>9 DEF EstablishAsInvitee, Transport, Fault
  <2> QED BY <2>1, <2>2, <2>3, GotoKnows, NextKnows, HolderOne
<1>10. CASE ConfirmAck(t, f)
  <2>1. DeviceOf[t] # Inviter BY <1>10, DeviceAssumption DEF ConfirmAck
  <2>2. CodeKept /\ CodeInv'
    BY <1>10, <1>k, <1>c, AcknowledgedInbox DEF ConfirmAck, deviceVars
  <2>3. NextEnvelope(t) \/ \E step \in {"decommission", "giveup"} : Goto(t, step)
    BY <1>10 DEF ConfirmAck, Transport, Fault
  <2> QED BY <2>1, <2>2, <2>3, GotoKnows, NextKnows, HolderOne
<1> QED
  BY <1>1, <1>2, <1>3, <1>4, <1>5, <1>6, <1>7, <1>8, <1>9, <1>10 DEF OverRelay

LEMMA HolderRest ==
  ASSUME Typed, HolderInv
  PROVE  /\ \A t \in Thread : ListRow(t) \/ User(t) => HolderInv'
         /\ \A d \in Device : Expire(d) \/ Stop(d) => HolderInv'
         /\ Revoke \/ KeyExpires \/ UNCHANGED vars => HolderInv'
<1> USE DEF At, Typed
<1>k. UNCHANGED <<invitation, peer, inbox>> => CodeKept
  BY DEF CodeKept
<1>c. UNCHANGED <<invitation, peer, inbox, contact, state>> => CodeInv'
  BY DEF HolderInv, CodeInv, InboxInv
<1>1. ASSUME NEW t \in Thread, ListRow(t) \/ User(t) PROVE HolderInv'
  <2>0. /\ WellFormed(t, job[t]) /\ Knows(t, job[t])
        /\ DeviceOf[t] # Inviter <=> DeviceOf[t] \in Redeemer
    BY Roles DEF ThreadsOK, HolderInv
  <2> USE <2>0 DEF InviterStep, RedeemerStep, WellFormed
  <2>1. CASE ListRow(t)
    <3> DEFINE d == DeviceOf[t]
               j == [Idle EXCEPT !.at = "row", !.seen = state[d],
                                 !.peer = IF d = Inviter THEN peer ELSE None]
    <3>1. CodeKept /\ CodeInv'
      BY <2>1, <1>k, <1>c DEF ListRow, deviceVars, relayVars
    <3>2. Others(t) /\ job'[t] = j
      BY <2>1 DEF ListRow, Others, ThreadsOK
    <3>3. j.at = "row" /\ j.seen = state[d] /\ j.envs = <<>>
          /\ (d = Inviter => j.peer = peer)
      BY DEF Idle
    <3>4. 1 .. Len(j.envs) = {} BY <3>3
    <3> HIDE DEF j
    <3>5. Knows(t, job[t])' /\ ~About(t)'
      BY <2>1, <3>2, <3>3, <3>4
         DEF ListRow, deviceVars, Knows, InviterKnows, InviteeKnows, About,
             HolderInv, CodeInv
    <3> QED BY <3>1, <3>2, <3>5, HolderOne
  <2>2. CASE ShowIncoming(t)
    <3>1. CodeKept /\ CodeInv'
      BY <2>2, <1>k, <1>c DEF ShowIncoming, deviceVars, relayVars
    <3>2. peer # None /\ invitation # "pending"
      BY <2>2 DEF ShowIncoming, HolderInv, CodeInv
    <3> QED BY <2>2, <3>1, <3>2, GotoKnows, HolderOne DEF ShowIncoming
  <2>3. CASE AcceptIncoming(t)
    <3>1. CodeKept /\ CodeInv'
      BY <2>3, <1>k, <1>c DEF AcceptIncoming, deviceVars, relayVars
    <3>2. DeviceOf[t] = Inviter /\ peer # None /\ invitation # "pending"
      BY <2>3 DEF AcceptIncoming, Knows, InviterKnows
    <3>3. CASE state[Inviter] = "hello_received"
      <4>1. job' = [job EXCEPT ![t].at = "accept", ![t].peer = peer]
        BY <2>3, <3>3 DEF AcceptIncoming
      <4>2. /\ job'[t].at = "accept" /\ job'[t].peer = peer
            /\ job'[t].envs = job[t].envs /\ Others(t)
        BY <4>1 DEF Others, ThreadsOK, Job
      <4>3. Knows(t, job[t])' /\ ~About(t)'
        BY <3>1, <3>2, <4>2 DEF Knows, InviterKnows, CodeKept, About
      <4> QED BY <3>1, <4>2, <4>3, HolderOne
    <3>4. CASE state[Inviter] # "hello_received"
      BY <2>3, <3>1, <3>4, LeaveKnows, HolderOne DEF AcceptIncoming
    <3> QED BY <3>3, <3>4
  <2>4. CASE RedeemInvitation(t)
    <3> DEFINE r == DeviceOf[t]
    <3>1. r \in Redeemer /\ r # Inviter
      BY <2>4, DeviceAssumption DEF RedeemInvitation
    <3>2. /\ state'[Inviter] = state[Inviter]
          /\ \A q \in Redeemer : contact'[q] = "connected" => contact[q] = "connected"
          /\ UNCHANGED <<invitation, peer, inbox>>
      <4>1. /\ state' = state \/ state' = [state EXCEPT ![r] = "dispatching_hello"]
            /\ contact' = contact \/ contact' = [contact EXCEPT ![r] = "stub"]
            /\ UNCHANGED <<invitation, peer, inbox>>
        BY <2>4 DEF RedeemInvitation, relayVars
      <4> QED BY <3>1, <4>1 DEF DeviceOK, Device
    <3>3. CodeKept /\ CodeInv' BY <1>k, <3>2 DEF HolderInv, CodeInv, InboxInv
    <3>4. PICK m : job' = [job EXCEPT ![t].at = "post", ![t].mode = m]
      BY <2>4 DEF RedeemInvitation
    <3>5. job'[t].at = "post" /\ job'[t].envs = job[t].envs /\ Others(t)
      BY <3>4 DEF Others, ThreadsOK, Job
    <3>6. Knows(t, job[t])' /\ ~About(t)'
      BY <3>1, <3>3, <3>5 DEF Knows, InviteeKnows, CodeKept, About
    <3> QED BY <3>3, <3>5, <3>6, HolderOne
  <2>5. ASSUME NEW f \in Fault, RejectIncoming(t, f) PROVE HolderInv'
    <3>1. DeviceOf[t] = Inviter /\ peer # None /\ invitation # "pending"
      BY <2>5 DEF RejectIncoming, Knows, InviterKnows
    <3>2. InboxInv' /\ UNCHANGED deviceVars
      BY <2>5, AckInbox DEF RejectIncoming, deviceVars, HolderInv, CodeInv
    <3>3. CodeKept /\ CodeInv'
      BY <3>1, <3>2 DEF CodeKept, HolderInv, CodeInv, deviceVars
    <3> QED BY <2>5, <3>1, <3>3, GotoKnows, LeaveKnows, HolderOne DEF RejectIncoming
  <2> QED BY <1>1, <2>1, <2>2, <2>3, <2>4, <2>5 DEF User
<1>2. ASSUME NEW d \in Device, Expire(d) PROVE HolderInv'
  BY <1>2, <1>k, <1>c, HolderSame DEF Expire, relayVars
<1>3. ASSUME NEW d \in Device, Stop(d) PROVE HolderInv'
  <2>1. \A u \in Thread : job'[u] = job[u] \/ job'[u] = Idle BY <1>3 DEF Stop
  <2> QED BY <1>3, <2>1, <1>k, <1>c, HolderSame DEF Stop, deviceVars, relayVars
<1>4. CASE Revoke
  <2>1. CodeKept /\ CodeInv'
    BY <1>4 DEF Revoke, CodeKept, HolderInv, CodeInv, InboxInv, relayVars
  <2> QED BY <1>4, <2>1, HolderSame DEF Revoke
<1>5. CASE KeyExpires
  BY <1>5, <1>k, <1>c, HolderSame DEF KeyExpires, deviceVars
<1>6. CASE UNCHANGED vars
  BY <1>6, <1>k, <1>c, HolderSame DEF vars, deviceVars, relayVars
<1> QED BY <1>1, <1>2, <1>3, <1>4, <1>5, <1>6

LEMMA HolderStep == Typed /\ HolderInv /\ [Next]_vars => HolderInv'
BY HolderQuiet, HolderOverRelay, HolderRest DEF Next, Proceed

------------------------------------------------------------------------------
(* The routing *)

\* What a step does to its thread.
LEMMA NextJob ==
  ASSUME Typed, NEW t \in Thread
  PROVE  /\ \A step : Goto(t, step) =>
              /\ Others(t) /\ job'[t].at = step
              /\ job'[t].peer = job[t].peer /\ job'[t].mode = job[t].mode
         /\ NextEnvelope(t) => Others(t) /\ job'[t].at \in {"idle", "envelope"}
         /\ Leave(t) => Others(t) /\ job'[t].at = "idle"
<1> USE DEF Typed, ThreadsOK, Others
<1>1. ASSUME NEW step, Goto(t, step)
      PROVE  /\ Others(t) /\ job'[t].at = step
             /\ job'[t].peer = job[t].peer /\ job'[t].mode = job[t].mode
  BY <1>1 DEF Goto, Job
<1>2. ASSUME NextEnvelope(t)
      PROVE  Others(t) /\ job'[t].at \in {"idle", "envelope"}
  <2>1. \A e : Work(e).at \in {"idle", "envelope"} BY DEF Work, Idle
  <2>2. Idle.at = "idle" BY DEF Idle
  <2> QED BY <1>2, <2>1, <2>2 DEF NextEnvelope
<1>3. ASSUME Leave(t) PROVE Others(t) /\ job'[t].at = "idle"
  BY <1>3 DEF Leave, Idle
<1> QED BY <1>1, <1>2, <1>3

\* Only taking a hello changes the holder, and it does so once.
LEMMA HolderOnce ==
  ASSUME Typed, HolderInv, [Next]_vars
  PROVE  \/ UNCHANGED peer
         \/ peer = None /\ peer' \in Redeemer /\ UNCHANGED <<contact, steady>>
<1>1. ASSUME NEW t \in Thread, StashPeer(t)
      PROVE  \/ UNCHANGED peer
             \/ peer = None /\ peer' \in Redeemer /\ UNCHANGED <<contact, steady>>
  <2>1. /\ WellFormed(t, job[t]) /\ Knows(t, job[t]) /\ DeviceOf[t] = Inviter
        /\ job[t].envs # <<>>
    BY <1>1 DEF Typed, ThreadsOK, WellFormed, HolderInv, StashPeer, At, RedeemerStep,
                HandlingAsInviter
  <2>2. peer' = Head(job[t].envs).peer /\ peer' \in Redeemer
    BY <1>1, <2>1, CurrentOK DEF StashPeer, Current, Envelope, Typed
  <2> QED BY <1>1, <2>1, <2>2 DEF StashPeer, At, Knows, InviterKnows, relayVars
<1>2. ASSUME NEW t \in Thread, Quiet(t), ~StashPeer(t) PROVE UNCHANGED peer
  BY <1>2 DEF Quiet, ExpireRow, HearHello, MarkUsed, AutoAccept, ClaimAsInviter,
     PromoteAsInviter, DropStub, MarkRejected, RetryHello, MarkAwaitingAck, UndoStub,
     ForgetRow, HearAck, ClaimAsInvitee, PromoteAsInvitee, deviceVars
<1>3. ASSUME NEW t \in Thread, NEW f \in Fault, OverRelay(t, f) PROVE UNCHANGED peer
  BY <1>3 DEF OverRelay, FetchInbox, Discard, GiveUp, Decommission, ConfirmHello, SendAck,
     EstablishAsInviter, SendHello, EstablishAsInvitee, ConfirmAck, deviceVars
<1>4. ASSUME NEW t \in Thread, ListRow(t) \/ User(t) PROVE UNCHANGED peer
  BY <1>4 DEF ListRow, User, ShowIncoming, AcceptIncoming, RedeemInvitation,
     RejectIncoming, deviceVars
<1>5. ASSUME NEW d \in Device, Expire(d) \/ Stop(d) PROVE UNCHANGED peer
  BY <1>5 DEF Expire, Stop, deviceVars
<1>6. CASE Revoke \/ KeyExpires \/ UNCHANGED vars
  BY <1>6 DEF Revoke, KeyExpires, deviceVars, vars
<1> QED BY <1>1, <1>2, <1>3, <1>4, <1>5, <1>6 DEF Next, Proceed

\* A step that promotes nobody and brings no thread close to it keeps RoutedInv.
Unrouted(t) == Others(t) /\ job'[t].at \notin {"claim", "promote"}

NoPromotion ==
  contact' = contact \/ \E r \in Redeemer : contact' = [contact EXCEPT ![r] = "stub"]

LEMMA RoutedKept ==
  ASSUME Typed, RoutedInv, steady \subseteq steady', NoPromotion,
         peer' = peer \/ peer = None,
         \A u \in Thread :
           job'[u] = job[u] \/ job'[u].at \notin {"claim", "promote"}
  PROVE  RoutedInv'
<1>1. None \notin steady BY DeviceAssumption DEF Device, Typed, RelayOK
<1>2. \A d \in Device : contact'[d] = "connected" => contact[d] = "connected"
  BY DEF NoPromotion, Typed, DeviceOK
<1>3. ConnectedCanWrite'
  BY <1>1, <1>2 DEF RoutedInv, ConnectedCanWrite, Device
<1> QED BY <1>3 DEF RoutedInv

\* The calls that do not establish, and what no thread does.
LEMMA RoutedElsewhere ==
  ASSUME Typed, NEW t \in Thread,
         \/ ListRow(t) \/ ExpireRow(t) \/ HearHello(t) \/ MarkUsed(t) \/ StashPeer(t)
         \/ AutoAccept(t) \/ DropStub(t) \/ MarkRejected(t)
         \/ RetryHello(t) \/ MarkAwaitingAck(t) \/ UndoStub(t) \/ ForgetRow(t) \/ HearAck(t)
         \/ User(t)
         \/ \E f \in Fault :
              \/ FetchInbox(t, f) \/ Discard(t, f) \/ GiveUp(t, f) \/ Decommission(t, f)
              \/ ConfirmHello(t, f) \/ SendAck(t, f) \/ SendHello(t, f) \/ ConfirmAck(t, f)
  PROVE  Unrouted(t) /\ UNCHANGED steady /\ NoPromotion
<1> USE NextJob DEF Unrouted
<1>c. UNCHANGED contact => NoPromotion BY DEF NoPromotion
<1>1. CASE ListRow(t)
  BY <1>1, <1>c DEF ListRow, Idle, deviceVars, relayVars, Typed, ThreadsOK, Others
<1>2. CASE ExpireRow(t) BY <1>2, <1>c DEF ExpireRow, relayVars
<1>3. CASE HearHello(t) BY <1>3, <1>c DEF HearHello, deviceVars, relayVars
<1>4. CASE MarkUsed(t) BY <1>4, <1>c DEF MarkUsed, relayVars
<1>5. CASE StashPeer(t) BY <1>5, <1>c DEF StashPeer, relayVars
<1>6. CASE AutoAccept(t) BY <1>6, <1>c DEF AutoAccept, deviceVars, relayVars
<1>7. CASE DropStub(t)
  BY <1>7, <1>c DEF DropStub, relayVars
<1>8. CASE MarkRejected(t) BY <1>8, <1>c DEF MarkRejected, relayVars
<1>9. CASE RetryHello(t) BY <1>9, <1>c DEF RetryHello, deviceVars, relayVars
<1>10. CASE MarkAwaitingAck(t) BY <1>10, <1>c DEF MarkAwaitingAck, relayVars
<1>11. CASE UndoStub(t) BY <1>11, <1>c DEF UndoStub, relayVars
<1>12. CASE ForgetRow(t) BY <1>12, <1>c DEF ForgetRow, relayVars
<1>13. CASE HearAck(t) BY <1>13, <1>c DEF HearAck, deviceVars, relayVars
<1>14. CASE User(t)
  <2>1. CASE ShowIncoming(t) BY <2>1, <1>c DEF ShowIncoming, deviceVars, relayVars
  <2>2. CASE AcceptIncoming(t)
    <3>1. Leave(t) \/ job' = [job EXCEPT ![t].at = "accept", ![t].peer = peer]
      BY <2>2 DEF AcceptIncoming
    <3>2. Unrouted(t) BY <3>1 DEF Typed, ThreadsOK, Job, Others
    <3> QED BY <2>2, <3>2, <1>c DEF AcceptIncoming, deviceVars, relayVars
  <2>3. CASE RedeemInvitation(t)
    <3>1. PICK m : job' = [job EXCEPT ![t].at = "post", ![t].mode = m]
      BY <2>3 DEF RedeemInvitation
    <3>2. Unrouted(t) BY <3>1 DEF Typed, ThreadsOK, Job, Others
    <3>3. contact' = contact \/ contact' = [contact EXCEPT ![DeviceOf[t]] = "stub"]
      BY <2>3 DEF RedeemInvitation
    <3>4. NoPromotion BY <2>3, <3>3 DEF NoPromotion, RedeemInvitation
    <3> QED BY <2>3, <3>2, <3>4 DEF RedeemInvitation, relayVars
  <2>4. ASSUME NEW f \in Fault, RejectIncoming(t, f)
        PROVE  Unrouted(t) /\ UNCHANGED steady /\ NoPromotion
    BY <2>4, <1>c DEF RejectIncoming, PostAck, deviceVars
  <2> QED BY <1>14, <2>1, <2>2, <2>3, <2>4 DEF User
<1>15. ASSUME NEW f \in Fault,
              \/ FetchInbox(t, f) \/ Discard(t, f) \/ GiveUp(t, f) \/ Decommission(t, f)
              \/ ConfirmHello(t, f) \/ SendAck(t, f) \/ SendHello(t, f) \/ ConfirmAck(t, f)
       PROVE  Unrouted(t) /\ UNCHANGED steady /\ NoPromotion
  <2>1. CASE FetchInbox(t, f)
    <3>1. \A e : Work(e).at \in {"idle", "envelope"} BY DEF Work, Idle
    <3>2. Idle.at = "idle" BY DEF Idle
    <3> QED BY <2>1, <3>1, <3>2, <1>c
            DEF FetchInbox, deviceVars, relayVars, Others, Typed, ThreadsOK
  <2>2. CASE Discard(t, f) BY <2>2, <1>c DEF Discard, Acknowledge, deviceVars
  <2>3. CASE GiveUp(t, f) BY <2>3, <1>c DEF GiveUp, Acknowledge, deviceVars
  <2>4. CASE Decommission(t, f)
    BY <2>4, <1>c DEF Decommission, DecommissionHandshakeAddresses, deviceVars
  <2>5. CASE ConfirmHello(t, f)
    <3>1. \/ job' = [job EXCEPT ![t].at = "accept", ![t].peer = peer]
          \/ Goto(t, "giveup") \/ NextEnvelope(t)
      BY <2>5 DEF ConfirmHello
    <3>2. Unrouted(t) BY <3>1 DEF Typed, ThreadsOK, Job, Others
    <3> QED BY <2>5, <3>2, <1>c DEF ConfirmHello, Acknowledge, deviceVars
  <2>6. CASE SendAck(t, f) BY <2>6, <1>c DEF SendAck, PostAck, deviceVars
  <2>7. CASE SendHello(t, f)
    <3>1. Leave(t) \/ \E step \in {"mark", "undo"} : Goto(t, step)
      BY <2>7 DEF SendHello
    <3> QED BY <2>7, <3>1, <1>c DEF SendHello, PostHello
  <2>8. CASE ConfirmAck(t, f)
    <3>1. NextEnvelope(t) \/ \E step \in {"decommission", "giveup"} : Goto(t, step)
      BY <2>8 DEF ConfirmAck, Transport, Fault
    <3> QED BY <2>8, <3>1, <1>c DEF ConfirmAck, Acknowledge, deviceVars
  <2> QED BY <1>15, <2>1, <2>2, <2>3, <2>4, <2>5, <2>6, <2>7, <2>8
<1> QED
  BY <1>1, <1>2, <1>3, <1>4, <1>5, <1>6, <1>7, <1>8, <1>9, <1>10, <1>11, <1>12,
     <1>13, <1>14, <1>15

\* Both roles establish the routing before they claim the row, and claim it
\* before they promote the contact.
LEMMA RoutedStep == Typed /\ HolderInv /\ RoutedInv /\ [Next]_vars => RoutedInv'
<1> SUFFICES ASSUME Typed, HolderInv, RoutedInv, [Next]_vars PROVE RoutedInv'
  OBVIOUS
<1> USE DEF At
<1>p. peer' = peer \/ peer = None BY HolderOnce
<1>e. ASSUME NEW t \in Thread, Unrouted(t), UNCHANGED steady, NoPromotion
      PROVE  RoutedInv'
  <2>1. \A u \in Thread : job'[u] = job[u] \/ job'[u].at \notin {"claim", "promote"}
    BY <1>e DEF Unrouted, Others
  <2> QED BY <1>e, <1>p, <2>1, RoutedKept
<1>g. ASSUME NEW t \in Thread, Others(t), steady \subseteq steady', NoPromotion,
             job'[t].at \in {"claim", "promote"} =>
               IF DeviceOf[t] = Inviter THEN job'[t].peer \in steady'
               ELSE DeviceOf[t] \in steady'
      PROVE  RoutedInv'
  <2>1. None \notin steady BY DeviceAssumption DEF Device, Typed, RelayOK
  <2>2. \A d \in Device : contact'[d] = "connected" => contact[d] = "connected"
    BY <1>g DEF NoPromotion, Typed, DeviceOK
  <2>3. ConnectedCanWrite'
    BY <1>g, <1>p, <2>1, <2>2 DEF RoutedInv, ConnectedCanWrite, Device
  <2>4. \A u \in Thread : job'[u].at \in {"claim", "promote"} =>
          IF DeviceOf[u] = Inviter THEN job'[u].peer \in steady' ELSE DeviceOf[u] \in steady'
    BY <1>g DEF Others, RoutedInv
  <2> QED BY <2>3, <2>4 DEF RoutedInv
<1>1. ASSUME NEW t \in Thread, NEW f \in Fault, EstablishAsInviter(t, f) PROVE RoutedInv'
  <2>1. NextEnvelope(t) \/ (Goto(t, "claim") /\ Reaches(f))
    BY <1>1 DEF EstablishAsInviter, Reaches
  <2>2. steady \subseteq steady' /\ (Reaches(f) => job[t].peer \in steady')
        /\ UNCHANGED contact
    BY <1>1 DEF EstablishAsInviter, Establish, deviceVars
  <2> QED BY <1>1, <1>g, <2>1, <2>2, NextJob DEF EstablishAsInviter, NoPromotion
<1>2. ASSUME NEW t \in Thread, ClaimAsInviter(t) PROVE RoutedInv'
  <2>1. NextEnvelope(t) \/ Goto(t, "promote") BY <1>2 DEF ClaimAsInviter
  <2>2. job[t].peer \in steady BY <1>2 DEF ClaimAsInviter, RoutedInv
  <2> QED BY <1>2, <1>g, <2>1, <2>2, NextJob DEF ClaimAsInviter, NoPromotion, relayVars
<1>3. ASSUME NEW t \in Thread, PromoteAsInviter(t) PROVE RoutedInv'
  <2>1. Others(t) /\ job'[t].at = "decommission" /\ UNCHANGED <<steady, peer>>
    BY <1>3, NextJob DEF PromoteAsInviter, relayVars
  <2>2. job[t].peer = peer /\ job[t].peer \in steady
    BY <1>3 DEF PromoteAsInviter, HolderInv, Knows, InviterKnows, RoutedInv
  <2>3. \A r \in Redeemer : contact'[r] = contact[r]
    BY <1>3, DeviceAssumption DEF PromoteAsInviter, Typed, DeviceOK, Device
  <2>4. ConnectedCanWrite' BY <2>1, <2>2, <2>3 DEF RoutedInv, ConnectedCanWrite
  <2> QED BY <2>1, <2>4 DEF RoutedInv, Others
<1>4. ASSUME NEW t \in Thread, NEW f \in Fault, EstablishAsInvitee(t, f) PROVE RoutedInv'
  <2>1. NextEnvelope(t) \/ Goto(t, "giveup") \/ (Goto(t, "claim") /\ Reaches(f))
    BY <1>4 DEF EstablishAsInvitee, Reaches, Transport, Fault
  <2>2. steady \subseteq steady' /\ (Reaches(f) => DeviceOf[t] \in steady')
        /\ UNCHANGED contact
    BY <1>4 DEF EstablishAsInvitee, Establish, deviceVars
  <2> QED BY <1>4, <1>g, <2>1, <2>2, NextJob, DeviceAssumption
          DEF EstablishAsInvitee, NoPromotion
<1>5. ASSUME NEW t \in Thread, ClaimAsInvitee(t) PROVE RoutedInv'
  <2>1. \/ Goto(t, "discard") \/ Goto(t, "drop")
        \/ Goto(t, "promote") /\ job[t].at = "claim"
    BY <1>5 DEF ClaimAsInvitee
  <2>2. job[t].at = "claim" => DeviceOf[t] \in steady
    BY <1>5, DeviceAssumption DEF ClaimAsInvitee, RoutedInv
  <2> QED BY <1>5, <1>g, <2>1, <2>2, NextJob, DeviceAssumption
          DEF ClaimAsInvitee, NoPromotion, relayVars
<1>6. ASSUME NEW t \in Thread, PromoteAsInvitee(t) PROVE RoutedInv'
  <2>1. Others(t) /\ job'[t].at = "confirm" /\ UNCHANGED <<steady, peer>>
    BY <1>6, NextJob DEF PromoteAsInvitee, relayVars
  <2>2. DeviceOf[t] \in steady /\ DeviceOf[t] # Inviter
    BY <1>6, DeviceAssumption DEF PromoteAsInvitee, RoutedInv
  <2>3. \A d \in Device \ {DeviceOf[t]} : contact'[d] = contact[d]
    BY <1>6 DEF PromoteAsInvitee, Typed, DeviceOK, Device
  <2>4. ConnectedCanWrite'
    BY <2>1, <2>2, <2>3 DEF RoutedInv, ConnectedCanWrite, Device
  <2> QED BY <2>1, <2>4 DEF RoutedInv, Others
<1>7. ASSUME NEW d \in Device, Expire(d) \/ Stop(d) PROVE RoutedInv'
  <2>1. \A u \in Thread : job'[u] = job[u] \/ job'[u].at = "idle"
    BY <1>7 DEF Expire, Stop, Idle
  <2>2. UNCHANGED <<contact, steady>> BY <1>7 DEF Expire, Stop, deviceVars, relayVars
  <2> QED BY <1>p, <2>1, <2>2, RoutedKept DEF NoPromotion
<1>8. CASE Revoke \/ KeyExpires \/ UNCHANGED vars
  <2>1. UNCHANGED <<contact, steady, job>>
    BY <1>8 DEF Revoke, KeyExpires, vars, deviceVars, relayVars
  <2> QED BY <1>p, <2>1, RoutedKept DEF NoPromotion
<1> QED
  BY <1>e, <1>1, <1>2, <1>3, <1>4, <1>5, <1>6, <1>7, <1>8, RoutedElsewhere
     DEF Next, Proceed, Quiet, OverRelay

------------------------------------------------------------------------------
(* Theorems *)

LEMMA Invariance == Spec => []IInv
<1>1. Init => IInv
  <2>1. Init => RoutedInv
    BY DeviceAssumption DEF Init, RoutedInv, ConnectedCanWrite, Idle, Device
  <2> QED BY <2>1, TypedInit, HolderInit DEF IInv
<1>2. IInv /\ [Next]_vars => IInv'
  BY TypedStep, HolderStep, RoutedStep DEF IInv
<1> QED BY <1>1, <1>2, PTL DEF Spec

\* Every variable keeps its type, and a step that has to do with an envelope
\* has one in hand.
THEOREM TypeCorrect == Spec => []TypeOK
<1>1. IInv => TypeOK BY TypedImpliesTypeOK DEF IInv
<1> QED BY <1>1, Invariance, PTL

\* Whoever sees the other as connected can write to them: acceptInvitation and
\* the poll promote a contact only after establishRouting was answered, and no
\* later hello changes whose contact it is.
THEOREM PromotedContactsAreRouted == Spec => []ConnectedCanWrite
<1>1. IInv => ConnectedCanWrite BY DEF IInv, RoutedInv
<1> QED BY <1>1, Invariance, PTL

\* A code has one holder, whatever hellos other redeemers, other threads and
\* lapsed keys bring, and only the holder's contact is ever connected.
THEOREM HandshakeImplementsInvitation == Spec => ImplementsInvitation
<1> DEFINE out == {r \in Redeemer : contact[r] = "connected"}
<1>1. Init => ClaimedCode!Init
  BY DeviceAssumption DEF Init, ClaimedCode!Init, Device
<1>2. IInv /\ [Next]_vars => [ClaimedCode!Next]_(ClaimedCode!vars)
  <2> SUFFICES ASSUME IInv, [Next]_vars PROVE [ClaimedCode!Next]_(ClaimedCode!vars)
    OBVIOUS
  <2> USE DEF IInv
  <2>1. CASE ~UNCHANGED peer
    <3>1. peer = None /\ peer' \in Redeemer /\ UNCHANGED contact
      BY <2>1, HolderOnce
    <3>2. ClaimedCode!Take(peer') BY <3>1 DEF ClaimedCode!Take
    <3> QED BY <3>1, <3>2 DEF ClaimedCode!Next
  <2>2. ASSUME UNCHANGED peer, NoPromotion PROVE [ClaimedCode!Next]_(ClaimedCode!vars)
    <3>1. CASE contact' = contact BY <2>2, <3>1 DEF ClaimedCode!vars
    <3>2. ASSUME NEW r \in Redeemer, contact' = [contact EXCEPT ![r] = "stub"]
          PROVE  ClaimedCode!Lose(r)
      <4>1. out' = out \ {r} BY <3>2 DEF Typed, DeviceOK, Device
      <4> QED BY <2>2, <4>1 DEF ClaimedCode!Lose
    <3> QED BY <2>2, <3>1, <3>2 DEF NoPromotion, ClaimedCode!Next
  <2>3. ASSUME NEW t \in Thread, PromoteAsInvitee(t) PROVE ClaimedCode!Connect(DeviceOf[t])
    <3>1. DeviceOf[t] \in Redeemer /\ peer = DeviceOf[t]
      BY <2>3, DeviceAssumption
         DEF PromoteAsInvitee, At, HolderInv, Knows, InviteeKnows
    <3>2. out' = out \cup {DeviceOf[t]} /\ UNCHANGED peer
      BY <2>3, <3>1 DEF PromoteAsInvitee, Typed, DeviceOK, Device
    <3> QED BY <3>1, <3>2 DEF ClaimedCode!Connect
  <2>4. ASSUME NEW t \in Thread, PromoteAsInviter(t) PROVE UNCHANGED ClaimedCode!vars
    <3>1. out' = out
      BY <2>4, DeviceAssumption DEF PromoteAsInviter, Typed, DeviceOK, Device
    <3> QED BY <2>4, <3>1 DEF PromoteAsInviter, ClaimedCode!vars
  <2>5. ASSUME UNCHANGED contact PROVE NoPromotion BY <2>5 DEF NoPromotion
  <2>6. ASSUME NEW t \in Thread, ClaimAsInviter(t) \/ ClaimAsInvitee(t) PROVE NoPromotion
    BY <2>5, <2>6 DEF ClaimAsInviter, ClaimAsInvitee
  <2>7. ASSUME NEW t \in Thread, NEW f \in Fault,
               EstablishAsInviter(t, f) \/ EstablishAsInvitee(t, f)
        PROVE  NoPromotion
    BY <2>5, <2>7 DEF EstablishAsInviter, EstablishAsInvitee, deviceVars
  <2>8. ASSUME NEW d \in Device, Expire(d) \/ Stop(d) PROVE NoPromotion
    BY <2>5, <2>8 DEF Expire, Stop, deviceVars
  <2>9. CASE Revoke \/ KeyExpires \/ UNCHANGED vars
    BY <2>1, <2>2, <2>5, <2>9 DEF Revoke, KeyExpires, vars, deviceVars
  <2>10. (\E t \in Thread : Proceed(t) \/ User(t)) =>
            \/ NoPromotion
            \/ \E t \in Thread : PromoteAsInviter(t) \/ PromoteAsInvitee(t)
    BY <2>6, <2>7, RoutedElsewhere DEF Proceed, Quiet, OverRelay
  <2> QED
    BY <2>1, <2>2, <2>3, <2>4, <2>8, <2>9, <2>10, Roles
       DEF Next, ClaimedCode!Next, PromoteAsInvitee
<1>3. QED
  BY <1>1, <1>2, Invariance, PTL DEF Spec, ImplementsInvitation, ClaimedCode!Spec

------------------------------------------------------------------------------
(* A refused redeemer stays out *)

\* What thread t of redeemer r does next: it promotes what is completed, and
\* forgets what is deleted.
Follows(t, r) ==
  /\ job[t].at = "promote" => r \in reopened \/ deleted[r] \/ state[r] = "completed"
  /\ job[t].at = "forget" => deleted[r]

\* A step of one thread that connects no contact of a row that is not completed
\* and notes the completed rows it writes over.
LEMMA CompletedKept ==
  ASSUME CompletedInv, NEW t \in Thread, Others(t), reopened \subseteq reopened',
         \A d \in Device : deleted[d] => deleted'[d],
         \A r \in Redeemer \ reopened' : deleted'[r] \/
           /\ state[r] = "completed" => state'[r] = "completed"
           /\ contact'[r] = "connected" => contact[r] = "connected" \/ state'[r] = "completed",
         IF DeviceOf[t] \in Redeemer THEN Follows(t, DeviceOf[t])' ELSE job'[t].at # "forget"
  PROVE  CompletedInv'
<1>1. ASSUME NEW r \in Redeemer \ reopened', ~deleted'[r] PROVE Answered(r)'
  <2>1. r \in Redeemer \ reopened /\ ~deleted[r] BY <1>1 DEF Device
  <2>2. Answered(r) BY <2>1 DEF CompletedInv
  <2>3. CASE state[r] = "completed" BY <1>1, <2>3 DEF Answered
  <2>4. CASE state[r] # "completed"
    <3>1. ASSUME NEW u \in Thread, DeviceOf[u] = r, job'[u].at = "promote"
          PROVE  state'[r] = "completed"
      <4>1. u = t BY <2>2, <2>4, <3>1 DEF Answered, Others
      <4> QED BY <1>1, <3>1, <4>1 DEF Follows
    <3>2. contact'[r] = "connected" => state'[r] = "completed"
      BY <1>1, <2>2, <2>4 DEF Answered
    <3> QED BY <3>1, <3>2 DEF Answered
  <2> QED BY <2>3, <2>4
<1>2. ASSUME NEW u \in Thread, job'[u].at = "forget" PROVE deleted'[DeviceOf[u]]
  <2>1. DeviceOf[u] \in Device BY Roles
  <2>2. CASE u = t BY <1>2, <2>2 DEF Follows
  <2>3. CASE u # t BY <1>2, <2>1, <2>3 DEF CompletedInv, Others
  <2> QED BY <2>2, <2>3
<1> QED BY <1>1, <1>2 DEF CompletedInv

LEMMA CompletedStep ==
  ASSUME Typed, CompletedInv, [Next]_vars
  PROVE  CompletedInv'
<1> USE DEF At
<1>o. ASSUME NEW t \in Thread
      PROVE  /\ WellFormed(t, job[t])
             /\ DeviceOf[t] \in Device
             /\ DeviceOf[t] # Inviter <=> DeviceOf[t] \in Redeemer
             /\ DeviceOf[t] \in Redeemer => Follows(t, DeviceOf[t])
  BY Roles DEF Typed, ThreadsOK, CompletedInv, Follows, Answered
<1>d. Redeemer \subseteq Device /\ Inviter \notin Redeemer
  BY DeviceAssumption DEF Device
\* A step that leaves the tables alone.
<1>s. ASSUME NEW t \in Thread, Others(t), UNCHANGED deviceVars,
             job'[t].at \notin {"promote", "forget"}
      PROVE  CompletedInv'
  BY <1>s, CompletedKept DEF deviceVars, Follows
\* A step of the inviter's.
<1>i. ASSUME NEW t \in Thread, Others(t), DeviceOf[t] = Inviter, job'[t].at # "forget",
             \A d \in Device : deleted[d] => deleted'[d], UNCHANGED reopened,
             \A r \in Redeemer : state'[r] = state[r] /\ contact'[r] = contact[r]
      PROVE  CompletedInv'
  BY <1>d, <1>i, CompletedKept
\* A step of a redeemer's on its row.
<1>r. ASSUME NEW t \in Thread, Others(t), DeviceOf[t] \in Redeemer, UNCHANGED contact,
             reopened \subseteq reopened', UNCHANGED deleted,
             \A r \in Redeemer \ {DeviceOf[t]} : state'[r] = state[r],
             state[DeviceOf[t]] = "completed" =>
               \/ DeviceOf[t] \in reopened' \/ deleted[DeviceOf[t]]
               \/ state'[DeviceOf[t]] = "completed",
             Follows(t, DeviceOf[t])'
      PROVE  CompletedInv'
  BY <1>r, CompletedKept
<1> USE NextJob
<1>1. ASSUME NEW t \in Thread, ListRow(t) PROVE CompletedInv'
  <2>1. Others(t) /\ job'[t].at = "row" /\ UNCHANGED deviceVars
    BY <1>1 DEF ListRow, Idle, Typed, ThreadsOK, Others
  <2> QED BY <1>s, <2>1
<1>2. ASSUME NEW t \in Thread, ExpireRow(t) PROVE CompletedInv'
  <2>1. Others(t) /\ job'[t].at = "idle" /\ UNCHANGED <<contact, deleted>>
    BY <1>2 DEF ExpireRow
  <2>2. state' = [state EXCEPT ![DeviceOf[t]] = "expired"] /\ Overwrites(DeviceOf[t])
    BY <1>2 DEF ExpireRow
  <2>3. CASE DeviceOf[t] = Inviter
    <3>1. UNCHANGED reopened BY <1>d, <2>2, <2>3 DEF Overwrites
    <3>2. \A r \in Redeemer : state'[r] = state[r]
      BY <1>d, <2>2, <2>3 DEF Typed, DeviceOK
    <3> QED BY <1>i, <2>1, <2>3, <3>1, <3>2
  <2>4. CASE DeviceOf[t] # Inviter
    <3>1. /\ reopened \subseteq reopened'
          /\ state[DeviceOf[t]] = "completed" => DeviceOf[t] \in reopened'
      BY <1>o, <2>2, <2>4 DEF Overwrites
    <3>2. \A r \in Redeemer \ {DeviceOf[t]} : state'[r] = state[r]
      BY <1>d, <2>2 DEF Typed, DeviceOK
    <3> QED BY <1>r, <1>o, <2>1, <2>4, <3>1, <3>2 DEF Follows
  <2> QED BY <2>3, <2>4
<1>3. ASSUME NEW t \in Thread, HearHello(t) \/ AutoAccept(t) \/ HearAck(t) \/ RetryHello(t)
      PROVE  CompletedInv'
  <2>1. Others(t) /\ UNCHANGED deviceVars /\ job'[t].at \notin {"promote", "forget"}
    BY <1>3 DEF HearHello, AutoAccept, HearAck, RetryHello
  <2> QED BY <1>s, <2>1
<1>4. ASSUME NEW t \in Thread,
             \/ MarkUsed(t) \/ StashPeer(t) \/ ClaimAsInviter(t) \/ PromoteAsInviter(t)
             \/ MarkRejected(t)
      PROVE  CompletedInv'
  <2> USE DEF MarkUsed, StashPeer, ClaimAsInviter, PromoteAsInviter, MarkRejected
  <2>1. DeviceOf[t] = Inviter BY <1>4, <1>o DEF WellFormed, RedeemerStep
  <2>2. Others(t) /\ job'[t].at # "forget" BY <1>4
  <2>3. UNCHANGED <<deleted, reopened>> BY <1>4
  <2>4. \A r \in Redeemer : state'[r] = state[r] /\ contact'[r] = contact[r]
    BY <1>4, <1>d DEF Typed, DeviceOK
  <2> QED BY <1>i, <2>1, <2>2, <2>3, <2>4
<1>5. ASSUME NEW t \in Thread, MarkAwaitingAck(t) PROVE CompletedInv'
  <2>1. DeviceOf[t] \in Redeemer
    BY <1>5, <1>o DEF MarkAwaitingAck, WellFormed, InviterStep
  <2>2. /\ Others(t) /\ job'[t].at \in {"fetch", "idle"}
        /\ UNCHANGED <<contact, deleted>>
    BY <1>5 DEF MarkAwaitingAck
  <2>3. /\ reopened \subseteq reopened'
        /\ state[DeviceOf[t]] = "completed" => DeviceOf[t] \in reopened'
    BY <1>5, <2>1 DEF MarkAwaitingAck, Overwrites
  <2>4. \A r \in Redeemer \ {DeviceOf[t]} : state'[r] = state[r]
    BY <1>5, <1>d DEF MarkAwaitingAck, Typed, DeviceOK
  <2> QED BY <1>r, <2>1, <2>2, <2>3, <2>4 DEF Follows
<1>6. ASSUME NEW t \in Thread, DropStub(t) \/ UndoStub(t) PROVE CompletedInv'
  <2>1. deleted' = [deleted EXCEPT ![DeviceOf[t]] = TRUE]
    BY <1>6 DEF DropStub, UndoStub
  <2>2. /\ deleted'[DeviceOf[t]]
        /\ \A d \in Device : deleted[d] => deleted'[d]
    BY <1>o, <1>d, <2>1 DEF Typed, DeviceOK
  <2>3. UNCHANGED <<state, contact, reopened>> BY <1>6 DEF DropStub, UndoStub
  <2>4. /\ Others(t) /\ job'[t].at # "promote"
        /\ DeviceOf[t] = Inviter => job'[t].at # "forget"
    BY <1>6, <1>o DEF DropStub, UndoStub, WellFormed, InviterStep
  <2> QED BY <1>o, <2>2, <2>3, <2>4, CompletedKept DEF Follows
<1>7. ASSUME NEW t \in Thread, ForgetRow(t) PROVE CompletedInv'
  <2>1. DeviceOf[t] \in Redeemer /\ deleted[DeviceOf[t]]
    BY <1>7, <1>o DEF ForgetRow, WellFormed, InviterStep, CompletedInv
  <2>2. /\ Others(t) /\ job'[t].at = "idle"
        /\ UNCHANGED <<contact, deleted, reopened>>
    BY <1>7 DEF ForgetRow
  <2>3. \A r \in Redeemer \ {DeviceOf[t]} : state'[r] = state[r]
    BY <1>7, <1>d DEF ForgetRow, Typed, DeviceOK
  <2> QED BY <1>r, <2>1, <2>2, <2>3 DEF Follows
<1>8. ASSUME NEW t \in Thread, ClaimAsInvitee(t) PROVE CompletedInv'
  <2>1. DeviceOf[t] \in Redeemer BY <1>8 DEF ClaimAsInvitee
  <2>2. CASE state[DeviceOf[t]] = "awaiting_ack"
    <3>1. \/ /\ state' = [state EXCEPT ![DeviceOf[t]] = "completed"]
             /\ Goto(t, "promote")
          \/ /\ state' = [state EXCEPT ![DeviceOf[t]] = "rejected"]
             /\ Goto(t, "drop")
      BY <1>8, <2>2 DEF ClaimAsInvitee
    <3>2. UNCHANGED <<contact, deleted, reopened>> BY <1>8 DEF ClaimAsInvitee
    <3>3. Follows(t, DeviceOf[t])' /\ Others(t)
      BY <1>o, <3>1 DEF Follows, Typed, DeviceOK
    <3>4. \A r \in Redeemer \ {DeviceOf[t]} : state'[r] = state[r]
      BY <1>d, <3>1 DEF Typed, DeviceOK
    <3> QED BY <1>r, <2>1, <2>2, <3>2, <3>3, <3>4
  <2>3. CASE state[DeviceOf[t]] # "awaiting_ack"
    <3>1. Goto(t, "discard") /\ UNCHANGED deviceVars
      BY <1>8, <2>3 DEF ClaimAsInvitee, deviceVars
    <3> QED BY <1>s, <3>1
  <2> QED BY <2>2, <2>3
<1>9. ASSUME NEW t \in Thread, PromoteAsInvitee(t) PROVE CompletedInv'
  <2>1. DeviceOf[t] \in Redeemer /\ job[t].at = "promote" BY <1>9 DEF PromoteAsInvitee
  <2>2. \/ DeviceOf[t] \in reopened \/ deleted[DeviceOf[t]]
        \/ state[DeviceOf[t]] = "completed"
    BY <1>o, <2>1 DEF Follows
  <2>3. /\ Others(t) /\ job'[t].at = "confirm" /\ UNCHANGED <<state, deleted, reopened>>
        /\ \A r \in Redeemer \ {DeviceOf[t]} : contact'[r] = contact[r]
    BY <1>9, <1>d DEF PromoteAsInvitee, Typed, DeviceOK
  <2> QED BY <2>1, <2>2, <2>3, CompletedKept DEF Follows
<1>10. ASSUME NEW t \in Thread, NEW f \in Fault,
              \/ FetchInbox(t, f) \/ Discard(t, f) \/ GiveUp(t, f) \/ Decommission(t, f)
              \/ ConfirmHello(t, f) \/ SendAck(t, f) \/ ConfirmAck(t, f)
       PROVE  CompletedInv'
  <2>1. UNCHANGED deviceVars
    BY <1>10 DEF FetchInbox, Discard, GiveUp, Decommission, ConfirmHello, SendAck, ConfirmAck
  <2>2. Others(t) /\ job'[t].at # "promote"
    BY <1>10, RoutedElsewhere DEF Unrouted
  <2>3. job'[t].at # "forget"
    <3>1. CASE FetchInbox(t, f)
      <4>1. \A e : Work(e).at \in {"idle", "envelope"} BY DEF Work, Idle
      <4>2. Idle.at = "idle" BY DEF Idle
      <4> QED BY <3>1, <4>1, <4>2 DEF FetchInbox, Typed, ThreadsOK
    <3>2. CASE ConfirmHello(t, f)
      <4>1. \/ NextEnvelope(t) \/ Goto(t, "giveup")
            \/ job' = [job EXCEPT ![t].at = "accept", ![t].peer = peer]
        BY <3>2 DEF ConfirmHello
      <4> QED BY <4>1 DEF Typed, ThreadsOK, Job
    <3>3. CASE SendAck(t, f)
      <4>1. NextEnvelope(t) \/ \E step \in {"drop", "establish"} : Goto(t, step)
        BY <3>3 DEF SendAck
      <4> QED BY <4>1
    <3>4. CASE ConfirmAck(t, f)
      <4>1. NextEnvelope(t) \/ \E step \in {"decommission", "giveup"} : Goto(t, step)
        BY <3>4 DEF ConfirmAck, Transport, Fault
      <4> QED BY <4>1
    <3>5. CASE Discard(t, f) \/ GiveUp(t, f) \/ Decommission(t, f)
      BY <3>5 DEF Discard, GiveUp, Decommission
    <3> QED BY <1>10, <3>1, <3>2, <3>3, <3>4, <3>5
  <2> QED BY <1>s, <2>1, <2>2, <2>3
<1>11. ASSUME NEW t \in Thread, NEW f \in Fault, SendHello(t, f) PROVE CompletedInv'
  <2>1. DeviceOf[t] \in Redeemer
    BY <1>11, <1>o DEF SendHello, WellFormed, InviterStep
  <2>2. UNCHANGED <<contact, deleted>> BY <1>11 DEF SendHello
  <2>3. \/ UNCHANGED <<state, reopened>>
        \/ /\ state' = [state EXCEPT ![DeviceOf[t]] = "unreachable"]
           /\ Overwrites(DeviceOf[t])
    BY <1>11 DEF SendHello
  <2>4. /\ reopened \subseteq reopened'
        /\ \/ state' = state
           \/ state[DeviceOf[t]] = "completed" => DeviceOf[t] \in reopened'
    BY <2>1, <2>3 DEF Overwrites
  <2>5. \A r \in Redeemer \ {DeviceOf[t]} : state'[r] = state[r]
    BY <1>d, <2>3 DEF Typed, DeviceOK
  <2>6. Leave(t) \/ \E step \in {"mark", "undo"} : Goto(t, step)
    BY <1>11 DEF SendHello
  <2>7. Others(t) /\ Follows(t, DeviceOf[t])' BY <2>6 DEF Follows
  <2> QED BY <1>r, <2>1, <2>2, <2>4, <2>5, <2>7
<1>12. ASSUME NEW t \in Thread, NEW f \in Fault,
              EstablishAsInviter(t, f) \/ EstablishAsInvitee(t, f)
       PROVE  CompletedInv'
  <2>1. NextEnvelope(t) \/ \E step \in {"claim", "giveup"} : Goto(t, step)
    BY <1>12 DEF EstablishAsInviter, EstablishAsInvitee, Transport, Fault
  <2>2. UNCHANGED deviceVars BY <1>12 DEF EstablishAsInviter, EstablishAsInvitee
  <2> QED BY <1>s, <2>1, <2>2
<1>13. ASSUME NEW t \in Thread, RedeemInvitation(t) PROVE CompletedInv'
  <2>1. DeviceOf[t] \in Redeemer BY <1>13 DEF RedeemInvitation
  <2>2. PICK m : job' = [job EXCEPT ![t].at = "post", ![t].mode = m]
    BY <1>13 DEF RedeemInvitation
  <2>3. Others(t) /\ job'[t].at = "post" BY <2>2 DEF Typed, ThreadsOK, Job, Others
  <2>4. /\ state[DeviceOf[t]] # "completed"
        /\ \/ /\ contact' = [contact EXCEPT ![DeviceOf[t]] = "stub"]
              /\ state' = [state EXCEPT ![DeviceOf[t]] = "dispatching_hello"]
           \/ UNCHANGED <<contact, state>>
        /\ UNCHANGED <<deleted, reopened>>
    BY <1>13 DEF RedeemInvitation
  <2>5. \A r \in Redeemer :
          /\ state[r] = "completed" => state'[r] = "completed"
          /\ contact'[r] = "connected" => contact[r] = "connected"
    BY <1>d, <2>4 DEF Typed, DeviceOK
  <2> QED BY <2>1, <2>3, <2>4, <2>5, CompletedKept DEF Follows
<1>14. ASSUME NEW t \in Thread,
              \/ ShowIncoming(t) \/ AcceptIncoming(t) \/ \E f \in Fault : RejectIncoming(t, f)
       PROVE  CompletedInv'
  <2>1. UNCHANGED deviceVars BY <1>14 DEF ShowIncoming, AcceptIncoming, RejectIncoming
  <2>2. \/ Leave(t) \/ \E step \in {"shown", "drop"} : Goto(t, step)
        \/ job' = [job EXCEPT ![t].at = "accept", ![t].peer = peer]
    BY <1>14 DEF ShowIncoming, AcceptIncoming, RejectIncoming
  <2>3. Others(t) /\ job'[t].at \notin {"promote", "forget"}
    BY <2>2 DEF Typed, ThreadsOK, Job, Others
  <2> QED BY <1>s, <2>1, <2>3
<1>15. ASSUME NEW d \in Device, Expire(d) \/ Stop(d) PROVE CompletedInv'
  <2>1. \A u \in Thread : job'[u] = job[u] \/ job'[u].at = "idle"
    BY <1>15 DEF Expire, Stop, Idle
  <2>2. UNCHANGED <<state, contact, deleted, reopened>>
    BY <1>15 DEF Expire, Stop, deviceVars
  <2> QED BY <2>1, <2>2 DEF CompletedInv, Answered
<1>16. CASE Revoke \/ KeyExpires \/ UNCHANGED vars
  BY <1>16 DEF Revoke, KeyExpires, vars, deviceVars, CompletedInv, Answered
<1> QED
  BY <1>1, <1>2, <1>3, <1>4, <1>5, <1>6, <1>7, <1>8, <1>9, <1>10, <1>11, <1>12, <1>13,
     <1>14, <1>15, <1>16
     DEF Next, Proceed, User, Quiet, OverRelay

\* A redeemer whose request was refused is left without the contact, however
\* many threads of its device hear answers at once and whatever fails or stops,
\* as long as no write that does not look at the row has taken a completed one
\* back.
THEOREM RefusedRedeemersStayOut == Spec => []RefusedStaysOut
<1>1. Init => CompletedInv
  BY DeviceAssumption DEF Init, CompletedInv, Answered, Idle, Device
<1>2. IInv /\ CompletedInv /\ [Next]_vars => CompletedInv'
  BY CompletedStep DEF IInv
<1>3. CompletedInv => RefusedStaysOut
  BY DEF CompletedInv, Answered, RefusedStaysOut, Connected
<1> QED BY <1>1, <1>2, <1>3, Invariance, PTL DEF Spec
=============================================================================
