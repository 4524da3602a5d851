------------------------- MODULE MCEntitlementLifecycle ------------------------
(* Small instances of EntitlementLifecycle.                                  *)
EXTENDS EntitlementLifecycle, TLC

CONSTANTS flat, cottage, ann, bob, phone

MCRoster == {[plan |-> flat, rev |-> "r1", roster |-> {ann, bob}]}
MCTwoPlans == {[plan |-> flat, rev |-> "r1", roster |-> {ann, bob}],
               [plan |-> cottage, rev |-> "r1", roster |-> {phone, bob}]}

Coverage(who, state, revoke) == [plan |-> flat, who |-> who, state |-> state, revoke |-> revoke]
BothPay == {Coverage(ann, "active_paid", FALSE), Coverage(bob, "active_paid", FALSE)}
MCLicense == BothPay \cup {Coverage(bob, "unpaid", TRUE)}

MCAsks == [plan : {flat}, who : {ann}, kind : {"accept"}]

MCSharedMove == {[plan |-> flat, old |-> ann, new |-> phone]}

HandlersAlike == Permutations(Handler)
================================================================================
