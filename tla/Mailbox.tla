------------------------------- MODULE Mailbox -------------------------------
(***************************************************************************)
(* What the relay promises its clients about an envelope, with nothing of  *)
(* how it keeps the promise.  An envelope is accepted at most once, stays  *)
(* available until its recipient acknowledges it or its retention instant  *)
(* passes, and is never available again after that.                        *)
(* RelayMailbox implements this specification.                             *)
(***************************************************************************)
EXTENDS Naturals

CONSTANT Envelope   \* records with at least an id and the instant "until"

VARIABLES
  now,        \* the clock
  queued,     \* envelopes their recipient may still receive
  delivered,  \* envelopes acknowledged by their recipient
  dropped     \* envelopes given up after their retention instant

vars == <<now, queued, delivered, dropped>>

Known == queued \cup delivered \cup dropped

Init ==
  /\ now \in Nat
  /\ queued = {}
  /\ delivered = {}
  /\ dropped = {}

\* A new envelope, under an id never used before.
Accept(e) ==
  /\ \A k \in Known : k.id # e.id
  /\ queued' = queued \cup {e}
  /\ UNCHANGED <<now, delivered, dropped>>

Deliver(e) ==
  /\ e \in queued
  /\ queued' = queued \ {e}
  /\ delivered' = delivered \cup {e}
  /\ UNCHANGED <<now, dropped>>

\* Any set of envelopes whose retention instant has passed.
Drop(gone) ==
  /\ \A e \in gone : e.until <= now
  /\ queued' = queued \ gone
  /\ dropped' = dropped \cup gone
  /\ UNCHANGED <<now, delivered>>

Tick ==
  /\ now' = now + 1
  /\ UNCHANGED <<queued, delivered, dropped>>

Next ==
  \/ \E e \in Envelope : Accept(e)
  \/ \E e \in queued : Deliver(e)
  \/ \E gone \in SUBSET queued : Drop(gone)
  \/ Tick

Spec == Init /\ [][Next]_vars
==============================================================================
