------------------------------ MODULE MCHandshake ------------------------------
EXTENDS Handshake, TLC

CONSTANTS
  A, B, C,      \* the inviter's device and two on which the code is entered
  a1, a2, b2    \* threads; a redeemer's name is also that of its first thread

DeviceOfThread ==
  [t \in Thread |-> IF t \in {a1, a2} THEN A ELSE IF t \in {B, b2} THEN B ELSE C]

\* The inviter's threads do the same things.
Symmetry == Permutations({a1, a2})

\* Every fault that makes a difference: a fetch that fails is one not made yet,
\* and the answer to a decommissioning is not looked at.
AnyFault ==
  {"hello", "ack", "acknowledge", "inviter_establish", "invitee_establish"}
     \X (Fault \ {"none"})
  \cup {<<"decommission", "request_lost">>}

\* The faults a later poll makes good.
SurvivableFault ==
  {"fetch", "acknowledge", "decommission"} \X {"request_lost", "reply_lost"}
  \cup {"ack", "invitee_establish"} \X {"request_lost"}
  \cup {<<"fetch", "server_error">>, <<"decommission", "server_error">>,
        <<"ack", "server_error">>, <<"acknowledge", "server_error">>,
        <<"invitee_establish", "reply_lost">>}

\* C enters the code once B's hello is at the relay, with nothing else going
\* wrong: no faults, the inviter leaving the screen and the invitation alone, a
\* code under way not entered again.  Nor does a day go by where something else
\* goes wrong.
OneThingAtATime ==
  /\ state[C] # "none" \/ contact[C] # "none" =>
       /\ posted > 0 /\ troubles = 0
       /\ invitation # "revoked"
       /\ \A t \in Thread : ~At(t, "shown") /\ job[t].mode \in {"poll", "fresh"}
  /\ helloKey \in {"free", "first"} \/ troubles = 0
==============================================================================
