------------------------------- MODULE Invitation ------------------------------
(***************************************************************************)
(* What an invitation code promises: of all the people who enter it one    *)
(* becomes its holder, for good, and only the holder may end up with the   *)
(* inviter as a connected contact.  Contacts may be lost again.            *)
(* Handshake implements this specification.                                *)
(***************************************************************************)
CONSTANTS Redeemer, Nobody

VARIABLES
  holder,    \* whose hello the inviter took
  connected  \* redeemers whose contact for the inviter is connected

vars == <<holder, connected>>

Init ==
  /\ holder = Nobody
  /\ connected = {}

Take(r) ==
  /\ holder = Nobody
  /\ holder' = r
  /\ UNCHANGED connected

Connect(r) ==
  /\ holder = r
  /\ connected' = connected \cup {r}
  /\ UNCHANGED holder

Lose(r) ==
  /\ connected' = connected \ {r}
  /\ UNCHANGED holder

Next == \E r \in Redeemer : Take(r) \/ Connect(r) \/ Lose(r)

Spec == Init /\ [][Next]_vars
==============================================================================
