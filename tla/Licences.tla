-------------------------------- MODULE Licences --------------------------------
(***************************************************************************)
(* The licence of one installation on the entitlement server: the          *)
(* operator's free licence (a grant), the Google Play purchases its user   *)
(* uploads, and the coverage projected from both onto the plans the        *)
(* installation takes part in (entitlement/internal/api/api.go,            *)
(* store/store.go, domain/housing.go).                                     *)
(*                                                                         *)
(* A step is one statement, one transaction or one call to Google.  Any    *)
(* statement may fail and any request be cut short.  What a projection     *)
(* does to the plans' lifecycles is EntitlementLifecycle's.                *)
(***************************************************************************)
EXTENDS Naturals

CONSTANTS
  Purchase,    \* purchase tokens of the user's Google account
  Plan,        \* the installation's plans, numbered in the order of their ids
  Operator,    \* handlers of operators' requests
  Uploader,    \* handlers of uploads
  MaxRequests, MaxTroubles   \* bounds of the model

ASSUME PlanAssumption == Plan \subseteq Nat /\ Plan # {}
ASSUME HandlerAssumption == Operator \cap Uploader = {}
ASSUME BoundAssumption == MaxRequests \in Nat /\ MaxTroubles \in Nat

VARIABLES
  grant,     \* installations.free_user_name is set
  token,     \* installations.push_token is set
  receipt,   \* license_receipts of the installation, by purchase token
  coverage,  \* license_status.license_state, by plan
  job,       \* what each handler is doing
  play,      \* Google's state of each subscription
  \* counters of the bounds: what operators and users do, and what goes wrong
  requests, troubles

server == <<grant, token, receipt, coverage>>
vars == <<server, job, play, requests, troubles>>

Handler == Operator \cup Uploader
Subscription == {"none", "active", "on_hold", "ended"}

\* known: the push token was there; says: Google's answer on `purchase`;
\* paid: what the projection found; left: the plans it has not reached.
Unoccupied == [at |-> "idle", known |-> FALSE, purchase |-> {}, says |-> "none",
               paid |-> FALSE, left |-> {}]

\* A receipt is "lapsed" when its own expiry has passed, whatever Play says.  A
\* grant is announced only where there is a token to announce it to.
TypeOK ==
  /\ grant \in BOOLEAN /\ token \in BOOLEAN
  /\ receipt \in [Purchase -> Subscription \cup {"lapsed"}]
  /\ coverage \in [Plan -> {"none", "active_paid", "unpaid"}]
  /\ job \in [Handler ->
       [at : {"idle", "grant", "push", "undo", "revoke", "clear", "upsert",
              "receipts", "free", "cover"},
        known : BOOLEAN, purchase : SUBSET Purchase, says : Subscription,
        paid : BOOLEAN, left : SUBSET Plan]]
  /\ \A h \in Handler : job[h].at = "cover" => job[h].left # {}
  /\ \A h \in Handler : job[h].at = "push" => job[h].known
  /\ play \in [Purchase -> Subscription]
  /\ requests \in 0 .. MaxRequests /\ troubles \in 0 .. MaxTroubles

\* A registered installation.
Init ==
  /\ grant = FALSE /\ token = FALSE
  /\ receipt = [q \in Purchase |-> "none"]
  /\ coverage = [p \in Plan |-> "none"]
  /\ job = [h \in Handler |-> Unoccupied]
  /\ play = [q \in Purchase |-> "none"]
  /\ requests = 0 /\ troubles = 0

At(h, step) == job[h].at = step
Goto(h, step) == job' = [job EXCEPT ![h].at = step]
Leave(h) == job' = [job EXCEPT ![h] = Unoccupied]

Request == requests < MaxRequests /\ requests' = requests + 1
Trouble == troubles < MaxTroubles /\ troubles' = troubles + 1

------------------------------------------------------------------------------
(* The operator. *)

\* A transaction that holds the installation's row: others wait to write it.
RowIsFree == \A h \in Operator : ~At(h, "grant")

\* A purchase that is neither cancelled nor expired rules out a grant.
paidReceiptBlocksFreeLicense == \E q \in Purchase : receipt[q] \in {"active", "on_hold"}

\* Mutant: the installation's row is read without being locked.
SetWithoutLock(h) ==
  /\ h \in Operator /\ At(h, "idle")
  /\ ~grant /\ ~paidReceiptBlocksFreeLicense
  /\ Request
  /\ job' = [job EXCEPT ![h].at = "grant", ![h].known = token]
  /\ UNCHANGED <<server, play, troubles>>

\* SET: the receipts are read, the grant is stored, announced and projected.
SetFreeLicense(h) ==
  /\ h \in Operator /\ At(h, "idle") /\ RowIsFree
  /\ ~grant /\ ~paidReceiptBlocksFreeLicense
  /\ Request
  /\ job' = [job EXCEPT ![h].at = "grant", ![h].known = token]
  /\ UNCHANGED <<server, play, troubles>>

\* Mutant: the grant is announced whether or not there is a push token.
CommitAnnouncing(h) ==
  /\ At(h, "grant")
  /\ grant' = TRUE
  /\ Goto(h, "push")
  /\ UNCHANGED <<token, receipt, coverage, play, requests, troubles>>

CommitFreeLicense(h) ==
  /\ At(h, "grant")
  /\ grant' = TRUE
  /\ Goto(h, IF job[h].known THEN "push" ELSE "undo")
  /\ UNCHANGED <<token, receipt, coverage, play, requests, troubles>>

SendGrant(h) ==
  /\ At(h, "push")
  /\ \/ Goto(h, "receipts") /\ UNCHANGED troubles
     \/ Goto(h, "undo") /\ Trouble
  /\ UNCHANGED <<server, play, requests>>

UndoGrant(h) ==
  /\ At(h, "undo") /\ RowIsFree
  /\ grant' = FALSE
  /\ Leave(h)
  /\ UNCHANGED <<token, receipt, coverage, play, requests, troubles>>

\* DELETE: the revocation is announced, stored and projected.
DeleteFreeLicense(h) ==
  /\ h \in Operator /\ At(h, "idle")
  /\ grant /\ token
  /\ Request
  /\ Goto(h, "revoke")
  /\ UNCHANGED <<server, play, troubles>>

SendRevoke(h) ==
  /\ At(h, "revoke")
  /\ \/ Goto(h, "clear") /\ UNCHANGED troubles
     \/ Leave(h) /\ Trouble
  /\ UNCHANGED <<server, play, requests>>

\* A grant that is gone already is an error.
ClearFreeLicense(h) ==
  /\ At(h, "clear") /\ RowIsFree
  /\ grant' = FALSE
  /\ IF grant THEN Goto(h, "receipts") ELSE Leave(h)
  /\ UNCHANGED <<token, receipt, coverage, play, requests, troubles>>

------------------------------------------------------------------------------
(* The app, and Google. *)

RegisterPushToken ==
  /\ ~token /\ RowIsFree
  /\ token' = TRUE
  /\ UNCHANGED <<grant, receipt, coverage, job, play, requests, troubles>>

\* The app uploads the tokens it has at every start and after every query of
\* Play; Google is asked, then its answer is stored.
HandlePlayToken(h, q) ==
  /\ h \in Uploader /\ At(h, "idle")
  /\ play[q] # "none"
  /\ job' = [job EXCEPT ![h].at = "upsert", ![h].purchase = {q}, ![h].says = play[q]]
  /\ UNCHANGED <<server, play, requests, troubles>>

\* Mutant: a receipt that is the same as before is not projected.
UpsertChangedReceipt(h) ==
  /\ At(h, "upsert")
  /\ receipt' = [q \in Purchase |->
                   IF q \in job[h].purchase THEN job[h].says ELSE receipt[q]]
  /\ IF receipt' = receipt THEN Leave(h) ELSE Goto(h, "receipts")
  /\ UNCHANGED <<grant, token, coverage, play, requests, troubles>>

UpsertPlayReceipt(h) ==
  /\ At(h, "upsert")
  /\ receipt' = [q \in Purchase |->
                   IF q \in job[h].purchase THEN job[h].says ELSE receipt[q]]
  /\ Goto(h, "receipts")
  /\ UNCHANGED <<grant, token, coverage, play, requests, troubles>>

\* The user buys, cancels or resumes; Google fails to bill, or manages to.
Subscribe(q) ==
  /\ Request
  /\ \E s \in Subscription \ {"none", play[q]} :
       /\ play[q] = "none" => s = "active"
       /\ play' = [play EXCEPT ![q] = s]
  /\ UNCHANGED <<server, job, troubles>>

\* The same purchase is uploaded from another installation, which has the row
\* from then on.
UploadElsewhere(q) ==
  /\ receipt[q] # "none"
  /\ Trouble
  /\ receipt' = [receipt EXCEPT ![q] = "none"]
  /\ UNCHANGED <<grant, token, coverage, job, play, requests>>

Lapse(q) ==
  /\ receipt[q] = "active"
  /\ Trouble
  /\ receipt' = [receipt EXCEPT ![q] = "lapsed"]
  /\ UNCHANGED <<grant, token, coverage, job, play, requests>>

------------------------------------------------------------------------------
(* The projection: receipts, then grant, then one plan after the other. *)

PlayReceiptsForInstallation(h) ==
  /\ At(h, "receipts")
  /\ job' = [job EXCEPT ![h].at = "free",
                        ![h].paid = \E q \in Purchase : receipt[q] = "active"]
  /\ UNCHANGED <<server, play, requests, troubles>>

FreeLicenseForInstallation(h) ==
  /\ At(h, "free")
  /\ job' = [job EXCEPT ![h].at = "cover", ![h].paid = @ \/ grant, ![h].left = Plan]
  /\ UNCHANGED <<server, play, requests, troubles>>

UpsertLicenseStatus(h) ==
  /\ At(h, "cover")
  /\ \E p \in job[h].left :
       /\ \A o \in job[h].left : p <= o
       /\ coverage' = [coverage EXCEPT ![p] = IF job[h].paid THEN "active_paid" ELSE "unpaid"]
       /\ job' = [job EXCEPT ![h] =
                    IF job[h].left = {p} THEN Unoccupied ELSE [job[h] EXCEPT !.left = @ \ {p}]]
  /\ UNCHANGED <<grant, token, receipt, play, requests, troubles>>

\* A statement fails, or the request is cut short; the grant of a transaction
\* under way is rolled back.
Interrupt(h) ==
  /\ ~At(h, "idle")
  /\ Trouble
  /\ Leave(h)
  /\ UNCHANGED <<server, play, requests>>

Serve(h) ==
  \/ CommitFreeLicense(h) \/ SendGrant(h) \/ UndoGrant(h)
  \/ SendRevoke(h) \/ ClearFreeLicense(h)
  \/ UpsertPlayReceipt(h) \/ PlayReceiptsForInstallation(h)
  \/ FreeLicenseForInstallation(h) \/ UpsertLicenseStatus(h)

Next ==
  \/ \E h \in Operator : SetFreeLicense(h) \/ DeleteFreeLicense(h)
  \/ \E h \in Uploader, q \in Purchase : HandlePlayToken(h, q)
  \/ \E h \in Handler : Serve(h) \/ Interrupt(h)
  \/ \E q \in Purchase : UploadElsewhere(q) \/ Lapse(q) \/ Subscribe(q)
  \/ RegisterPushToken

Spec == Init /\ [][Next]_vars

\* Handlers run to their end.  The app is opened again and again, and uploads
\* every purchase when it is.
FairSpec ==
  /\ Spec
  /\ \A h \in Handler : WF_vars(Serve(h))
  /\ \A q \in Purchase : SF_vars(\E h \in Uploader : HandlePlayToken(h, q))

------------------------------------------------------------------------------
(* Properties. *)

Licensed == grant \/ \E q \in Purchase : receipt[q] = "active"

\* Two grants are never stacked, whose undoing or withdrawal would take both:
\* when a SET stores its grant there is none, and the push token it announces
\* the grant to is the installation's (SetFreeLicense, FOR UPDATE).
GrantsDoNotStack ==
  \A h \in Operator :
    At(h, "grant") =>
      /\ ~grant /\ job[h].known = token
      /\ \A g \in Operator : At(g, "grant") => g = h

\* While the app has a purchase to upload, the coverage of every plan comes to
\* agree with the receipts and the grant, whichever projection read what when,
\* and although projections stop half-way: each upload projects once more.
CoverageConverges ==
  \A paid \in BOOLEAN, q \in Purchase :
    <>[](play[q] # "none" /\ Licensed = paid)
      => <>[](\A p \in Plan : (coverage[p] = "active_paid") = paid)
==============================================================================
