---------------------------- MODULE MCRelayReminders ---------------------------
(* A small instance of RelayReminders.  Hours are real ones: the rent is due *)
(* on day 0 at 02:00 UTC, which is still the day before five hours west.     *)
EXTENDS RelayReminders, TLC

CONSTANTS flat, ann, late, invite

MCPlanOf == [t \in HousingTarget |-> flat]
MCKindOf == [t \in HousingTarget |-> "overdue"]
MCRecipientOf == [t \in Target |-> ann]

\* The overdue reminder goes off at 19 in the west and at 29 in the east.
MCZone == {-5, 9}
Overdue == [due |-> 2, days |-> 14, bound |-> 30]
MCTerms == {Overdue}

Update(generation, terms) ==
  [plan |-> flat, generation |-> generation, terms |-> terms]
\* The plan, and later the plan without the line.
MCTwoUpdates == {Update(1, late :> Overdue), Update(2, <<>>)}

MCClientFires == {{19}}
MCClock == {0, 29}
================================================================================
