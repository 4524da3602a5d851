----------------------------- MODULE RelayReminders ----------------------------
(***************************************************************************)
(* The relay's scheduled reminders: targets and their fires                *)
(* (relay/internal/store/scheduled_notifications.go), the handlers that    *)
(* change them (relay/internal/api/scheduling.go) and the cron that claims *)
(* what is due (relay/internal/remindercron/remindercron.go).              *)
(*                                                                         *)
(* The transactions run at READ COMMITTED: a statement sees what others    *)
(* have committed when it starts, and nothing they have not.  Those that   *)
(* work through a list of targets, the reconciliation of a plan and the    *)
(* recomputation after a zone registration, are taken statement by         *)
(* statement; their writes are in "gone" and "new" until they commit.      *)
(* The shorter ones, whose statements lock the rows they change before     *)
(* anything else reads them, are one step.                                 *)
(***************************************************************************)
EXTENDS FireTimes, FiniteSets

CONSTANTS
  Plan, Recipient, Handler,
  HousingTarget,   \* targets of domain housing_payment
  ClientTarget,    \* targets whose fire times the client supplies
  PlanOf, KindOf,  \* of a housing target
  RecipientOf,     \* of every target
  Zone,            \* offsets from UTC clients register
  Terms,           \* the due_at, recurrence_period_days, bound_at they send
  PlanUpdate,      \* the reconciliations they send
  ClientFires,     \* the lists of fire times they send
  claimBatchSize,
  None,            \* SQL NULL, or no row
  Clock            \* the instants at which the model looks at the clock

Target == HousingTarget \cup ClientTarget

ASSUME TargetAssumption ==
  /\ HousingTarget \cap ClientTarget = {} /\ None \notin Target
  /\ PlanOf \in [HousingTarget -> Plan]
  /\ KindOf \in [HousingTarget -> {"before_due", "overdue"}]
  /\ RecipientOf \in [Target -> Recipient]
ASSUME InputAssumption ==
  /\ Zone \subseteq Int /\ None \notin Zone
  /\ Terms \subseteq [due : Int, days : Nat, bound : Int \cup {None}]
  /\ \A u \in PlanUpdate :
       /\ u.plan \in Plan
       /\ u.generation \in Nat
       /\ DOMAIN u.terms \subseteq {t \in HousingTarget : PlanOf[t] = u.plan}
       /\ \A t \in DOMAIN u.terms : u.terms[t] \in Terms
  /\ ClientFires \subseteq SUBSET Int
  /\ Clock \subseteq Nat /\ 0 \in Clock
  /\ claimBatchSize \in Nat \ {0}

VARIABLES
  now,
  zone,            \* recipient_notification_timezone
  planGeneration,  \* housing_reminder_plan_generation
  targets,         \* scheduled_notification_targets, by unique key
  \* scheduled_notification_fires, <<target, fire_at>>, by status; delivered
  \* rows are fired rows that carry a delivery_ack_at.
  pending, fired, delivered, cancelled,
  job,             \* the zone registration each handler is in
  ingest,          \* the open reconciliation of each plan
  owed,            \* claimed fires whose wake goroutine has not run yet
  \* History, read by properties only.
  named,           \* generation of the last update that named a target
  silenced,        \* targets the clients want no reminder of
  beside           \* fires armed for targets an open reconciliation had written

rows == <<pending, fired, delivered, cancelled>>
history == <<named, silenced, beside>>
vars == <<now, zone, planGeneration, targets, rows, job, ingest, owed, history>>

Fire == Target \X Int
Row == [terms : Terms \cup {None}, generation : Nat, live : BOOLEAN]
Idle == [step |-> "idle", recipient |-> None, at |-> 0, zone |-> None, seen |-> <<>>,
         left |-> {}, gone |-> {}, new |-> {}]

Live(t) == targets[t] # None /\ targets[t].live

\* The rows of a target, whatever their status.
FireRows == pending \cup fired \cup delivered \cup cancelled

\* Fires whose rows an open transaction has cancelled and holds.
Held == UNION ({job[h].gone : h \in Handler} \cup
               {ingest[p].gone : p \in {q \in Plan : ingest[q] # None}})

\* Targets whose rows an open reconciliation has written and holds.
Upserted(p) == {t \in DOMAIN ingest[p].update.terms :
                  t \notin ingest[p].left \/ t = ingest[p].arming}
Written == UNION {ingest[p].superseded \cup Upserted(p) : p \in {q \in Plan : ingest[q] # None}}

OneStatus ==
  /\ pending \cap (fired \cup delivered \cup cancelled) = {}
  /\ fired \cap (delivered \cup cancelled) = {}
  /\ delivered \cap cancelled = {}

JobOK(j) ==
  /\ DOMAIN j = DOMAIN Idle
  /\ j.step \in {"idle", "registered", "zoned", "read"}
  /\ j.at \in Nat
  /\ j.step # "idle" => j.recipient \in Recipient /\ zone[j.recipient] # None
  /\ j.step \in {"zoned", "read"} => j.zone \in Zone
  /\ j.step = "read" => /\ DOMAIN j.seen \subseteq HousingTarget
                        /\ \A t \in DOMAIN j.seen : j.seen[t] \in Terms
                        /\ j.left \subseteq DOMAIN j.seen
  /\ j.gone \subseteq pending \cup cancelled
  /\ j.new \subseteq Fire

IngestOK(p) ==
  ingest[p] # None =>
    /\ DOMAIN ingest[p] = {"update", "at", "superseded", "left", "arming", "gone", "new"}
    /\ ingest[p].update \in PlanUpdate
    /\ ingest[p].update.plan = p
    /\ ingest[p].at \in Nat
    /\ ingest[p].superseded \subseteq {t \in HousingTarget : PlanOf[t] = p /\ Live(t)}
    /\ ingest[p].left \subseteq DOMAIN ingest[p].update.terms
    /\ ingest[p].arming \in ingest[p].left \cup {None}
    /\ ingest[p].gone \subseteq pending \cup cancelled
    /\ ingest[p].new \subseteq (DOMAIN ingest[p].update.terms) \X Int

TypeOK ==
  /\ now \in Nat
  /\ zone \in [Recipient -> Zone \cup {None}]
  /\ planGeneration \in [Plan -> Nat \cup {None}]
  /\ targets \in [Target -> Row \cup {None}]
  /\ \A t \in HousingTarget : targets[t] # None => targets[t].terms \in Terms
  /\ pending \subseteq Fire /\ fired \subseteq Fire
  /\ delivered \subseteq Fire /\ cancelled \subseteq Fire
  /\ OneStatus
  /\ DOMAIN job = Handler /\ \A h \in Handler : JobOK(job[h])
  /\ DOMAIN ingest = Plan /\ \A p \in Plan : IngestOK(p)
  /\ owed \subseteq Fire
  /\ named \in [Target -> Nat]
  /\ silenced \subseteq Target
  /\ beside \in [Plan -> SUBSET Fire]

Init ==
  /\ now = 0
  /\ zone = [r \in Recipient |-> None]
  /\ planGeneration = [p \in Plan |-> None]
  /\ targets = [t \in Target |-> None]
  /\ pending = {} /\ fired = {} /\ delivered = {} /\ cancelled = {}
  /\ job = [h \in Handler |-> Idle]
  /\ ingest = [p \in Plan |-> None]
  /\ owed = {}
  /\ named = [t \in Target |-> 0]
  /\ silenced = Target
  /\ beside = [p \in Plan |-> {}]

------------------------------------------------------------------------------
(* Statements shared by the transactions *)

FireTimesOf(t, terms, z, after) ==
  CASE KindOf[t] = "before_due" ->
         HousingBeforeDateFires(terms.due, terms.days, z, after)
    [] KindOf[t] = "overdue" ->
         {at \in HousingOverdueFires(terms.due, z, after) :
            terms.bound = None \/ at <= terms.bound}

\* The pending fires of some targets, as a statement sees them.
PendingOf(S) == {f \in pending : f[1] \in S}

\* The fires of a target at a recipient's zone, if there is one.
Fires(t, terms, z, after) ==
  IF z = None THEN {} ELSE {<<t, at>> : at \in FireTimesOf(t, terms, z, after)}

\* Slip: ON CONFLICT DO UPDATE SET status = 'pending'.
CommitReviving(gone, new) ==
  /\ pending' = (pending \ gone) \cup new
  /\ cancelled' = (cancelled \cup gone) \ new
  /\ fired' = fired \ new
  /\ delivered' = delivered \ new

\* Slip: no unique constraint on (target_id, fire_at).
CommitDuplicating(gone, new) ==
  /\ pending' = (pending \ gone) \cup new
  /\ cancelled' = cancelled \cup gone
  /\ UNCHANGED <<fired, delivered>>

\* What a transaction leaves of the fires: the pending rows its statements
\* found are cancelled, the others inserted, ON CONFLICT (target_id, fire_at)
\* DO NOTHING.  An insert waits for an open one of the same key, so what it
\* meets at the commit is what it met when it ran.
CommitFires(gone, new) ==
  /\ pending' = (pending \ gone) \cup (new \ FireRows)
  /\ cancelled' = cancelled \cup gone
  /\ UNCHANGED <<fired, delivered>>

------------------------------------------------------------------------------
(* A recipient's zone is registered: a row, two reads, a transaction *)

RegisterZone(h, r, z) ==
  /\ job[h].step = "idle"
  /\ zone' = [zone EXCEPT ![r] = z]
  /\ job' = [job EXCEPT ![h] =
               [Idle EXCEPT !.step = "registered", !.recipient = r, !.at = now]]
  /\ UNCHANGED <<now, planGeneration, targets, rows, ingest, owed, history>>

ReadZone(h) ==
  /\ job[h].step = "registered"
  /\ job' = [job EXCEPT ![h].step = "zoned", ![h].zone = zone[job[h].recipient]]
  /\ UNCHANGED <<now, zone, planGeneration, targets, rows, ingest, owed, history>>

\* The live targets of the recipient, read before the transaction begins.
ReadTargets(h) ==
  /\ job[h].step = "zoned"
  /\ LET mine == {t \in HousingTarget : Live(t) /\ RecipientOf[t] = job[h].recipient}
     IN  job' = [job EXCEPT ![h].step = "read",
                            ![h].seen = [t \in mine |-> targets[t].terms],
                            ![h].left = mine]
  /\ UNCHANGED <<now, zone, planGeneration, targets, rows, ingest, owed, history>>

\* One target of the list: its pending fires are cancelled, others inserted.
RecomputeTarget(h, t) ==
  /\ job[h].step = "read"
  /\ t \in job[h].left
  /\ LET j == job[h]
     IN  job' = [job EXCEPT ![h].left = j.left \ {t},
                            ![h].gone = j.gone \cup PendingOf({t}),
                            ![h].new = j.new \cup Fires(t, j.seen[t], j.zone, j.at)]
  /\ UNCHANGED <<now, zone, planGeneration, targets, rows, ingest, owed, history>>

RecomputeCommit(h) ==
  /\ job[h].step = "read"
  /\ job[h].left = {}
  /\ CommitFires(job[h].gone, job[h].new)
  /\ beside' = [p \in Plan |-> IF ingest[p] = None THEN {}
                               ELSE beside[p] \cup {f \in pending' \ pending : f[1] \in Upserted(p)}]
  /\ job' = [job EXCEPT ![h] = Idle]
  /\ UNCHANGED <<now, zone, planGeneration, targets, ingest, owed, named, silenced>>

\* The request fails or its client goes away; an open transaction is undone.
GiveUp(h) ==
  /\ job[h].step # "idle"
  /\ job' = [job EXCEPT ![h] = Idle]
  /\ UNCHANGED <<now, zone, planGeneration, targets, rows, ingest, owed, history>>

------------------------------------------------------------------------------
(* Housing targets: reconcile and cancel *)

Dead(t) == targets[t] # None /\ ~targets[t].live

\* The transaction locks the plan's row, cancels the targets of older
\* generations and the pending fires of every cancelled target.
ReconcileBegin(u) ==
  /\ ingest[u.plan] = None
  /\ LET superseded == {t \in HousingTarget : /\ PlanOf[t] = u.plan /\ Live(t)
                                               /\ targets[t].generation < u.generation}
         dead == superseded \cup {t \in Target : Dead(t)}
     IN  ingest' = [ingest EXCEPT ![u.plan] =
           [update |-> u, at |-> now, superseded |-> superseded, left |-> DOMAIN u.terms,
            arming |-> None, gone |-> PendingOf(dead), new |-> {}]]
  /\ beside' = [beside EXCEPT ![u.plan] = {}]
  /\ UNCHANGED <<now, zone, planGeneration, targets, rows, job, owed, named, silenced>>

\* Slip: an upserted target keeps its pending fires.
UpsertKeepingFires(p, t) ==
  /\ ingest[p] # None
  /\ ingest[p].arming = None
  /\ t \in ingest[p].left
  /\ ingest' = [ingest EXCEPT ![p].arming = t]
  /\ UNCHANGED <<now, zone, planGeneration, targets, rows, job, owed, history>>

\* The next target the update names: its row, then its pending fires.
UpsertTarget(p, t) ==
  /\ ingest[p] # None
  /\ ingest[p].arming = None
  /\ t \in ingest[p].left
  /\ ingest' = [ingest EXCEPT ![p].arming = t, ![p].gone = @ \cup PendingOf({t})]
  /\ UNCHANGED <<now, zone, planGeneration, targets, rows, job, owed, history>>

\* ... then the recipient's zone is read and its fires are inserted.
ArmTarget(p) ==
  /\ ingest[p] # None
  /\ ingest[p].arming # None
  /\ LET t == ingest[p].arming
         new == Fires(t, ingest[p].update.terms[t], zone[RecipientOf[t]], ingest[p].at)
     IN  ingest' = [ingest EXCEPT ![p].arming = None,
                                  ![p].left = @ \ {t},
                                  ![p].new = @ \cup new]
  /\ UNCHANGED <<now, zone, planGeneration, targets, rows, job, owed, history>>

\* The generation is compared for the plan's row only.
ReconcileCommit(p) ==
  /\ ingest[p] # None
  /\ ingest[p].left = {}
  /\ LET u == ingest[p].update
         input == DOMAIN u.terms
     IN  /\ planGeneration' =
              IF planGeneration[p] # None /\ planGeneration[p] > u.generation
              THEN planGeneration
              ELSE [planGeneration EXCEPT ![p] = u.generation]
         /\ targets' = [t \in Target |->
              IF t \in input
              THEN [terms |-> u.terms[t], generation |-> u.generation, live |-> TRUE]
              ELSE IF t \in ingest[p].superseded THEN [targets[t] EXCEPT !.live = FALSE]
              ELSE targets[t]]
         /\ CommitFires(ingest[p].gone, ingest[p].new)
         /\ named' = [t \in Target |-> IF t \in input THEN u.generation ELSE named[t]]
         /\ silenced' = (silenced \ input) \cup
              {t \in HousingTarget \ input : PlanOf[t] = p /\ named[t] < u.generation}
  /\ ingest' = [ingest EXCEPT ![p] = None]
  /\ UNCHANGED <<now, zone, job, owed, beside>>

\* A statement fails, or the client goes away: nothing is committed.
ReconcileFails(p) ==
  /\ ingest[p] # None
  /\ ingest' = [ingest EXCEPT ![p] = None]
  /\ UNCHANGED <<now, zone, planGeneration, targets, rows, job, owed, history>>

\* Both cancellations mark the live targets, waiting for rows an open
\* reconciliation has written, then cancel the pending fires of every
\* cancelled target of the domains in scope.
CancelTargets(S, scope) ==
  /\ {t \in S : Live(t)} \cap Written = {}
  /\ targets' = [t \in Target |->
       IF t \in S /\ Live(t) THEN [targets[t] EXCEPT !.live = FALSE] ELSE targets[t]]
  /\ CommitFires(PendingOf({t \in scope : targets'[t] # None /\ ~targets'[t].live}), {})
  /\ silenced' = silenced \cup S
  /\ UNCHANGED <<now, zone, planGeneration, job, ingest, owed, named, beside>>

CancelHousingPaymentTargets(S) == CancelTargets(S, Target)

CancelClientScheduledByScope(S) == CancelTargets(S, ClientTarget)

------------------------------------------------------------------------------
(* Targets whose fire times the client supplies *)

UpsertClientScheduledFires(t, ats) ==
  /\ targets' = [targets EXCEPT ![t] = [terms |-> None, generation |-> 1, live |-> TRUE]]
  /\ CommitFires(PendingOf({t}), {<<t, at>> : at \in {x \in ats : x > now}})
  /\ silenced' = silenced \ {t}
  /\ UNCHANGED <<now, zone, planGeneration, job, ingest, owed, named, beside>>

------------------------------------------------------------------------------
(* Cron, wake pushes, delivery *)

\* Slip: the claim does not join the target.
ClaimAnyTarget ==
  \E f \in pending \ Held :
    /\ f[2] <= now
    /\ pending' = pending \ {f}
    /\ fired' = fired \cup {f}
    /\ owed' = owed \cup {f}
    /\ UNCHANGED <<now, zone, planGeneration, targets, delivered, cancelled,
                   job, ingest, history>>

\* Slip: only fires of the last cron interval are looked at.
ClaimRecent ==
  \E f \in pending \ Held :
    /\ f[2] \in (now - 1)..now /\ Live(f[1])
    /\ pending' = pending \ {f}
    /\ fired' = fired \cup {f}
    /\ owed' = owed \cup {f}
    /\ UNCHANGED <<now, zone, planGeneration, targets, delivered, cancelled,
                   job, ingest, history>>

\* The oldest due fires of live targets, at most a batch of them; rows an open
\* transaction holds are passed over (SKIP LOCKED).
ClaimDueReminderFires ==
  LET due == {f \in pending \ Held : f[2] <= now /\ Live(f[1])}
  IN  /\ due # {}
      /\ \E batch \in SUBSET due :
           /\ Cardinality(batch) = IF Cardinality(due) < claimBatchSize
                                   THEN Cardinality(due) ELSE claimBatchSize
           /\ \A f \in batch, g \in due \ batch : f[2] <= g[2]
           /\ pending' = pending \ batch
           /\ fired' = fired \cup batch
           /\ owed' = owed \cup batch
      /\ UNCHANGED <<now, zone, planGeneration, targets, delivered, cancelled,
                     job, ingest, history>>

\* One goroutine per recipient of a batch.
WakeRecipient(r) ==
  LET his == {f \in owed : RecipientOf[f[1]] = r}
  IN  /\ his # {}
      /\ owed' = owed \ his
      /\ UNCHANGED <<now, zone, planGeneration, targets, rows, job, ingest, history>>

\* The client lists its fired reminders and acknowledges one.
AckReminderFireDelivery(f) ==
  /\ f \in fired
  /\ fired' = fired \ {f}
  /\ delivered' = delivered \cup {f}
  /\ UNCHANGED <<now, zone, planGeneration, targets, pending, cancelled, job, ingest,
                 owed, history>>

\* The relay stops and starts: open transactions and goroutines are gone.
Crash ==
  /\ job' = [h \in Handler |-> Idle]
  /\ ingest' = [p \in Plan |-> None]
  /\ owed' = {}
  /\ UNCHANGED <<now, zone, planGeneration, targets, rows, history>>

Tick ==
  /\ \E t \in Clock : t > now /\ now' = t
  /\ UNCHANGED <<zone, planGeneration, targets, rows, job, ingest, owed, history>>

Register == \E h \in Handler : \/ \E r \in Recipient, z \in Zone : RegisterZone(h, r, z)
                               \/ ReadZone(h)
                               \/ ReadTargets(h)
                               \/ \E t \in HousingTarget : RecomputeTarget(h, t)
                               \/ RecomputeCommit(h)
                               \/ GiveUp(h)

Reconcile(p) == \/ \E t \in HousingTarget : UpsertTarget(p, t)
                \/ ArmTarget(p)
                \/ ReconcileCommit(p)
                \/ ReconcileFails(p)

Ingest == \/ \E u \in PlanUpdate : ReconcileBegin(u)
          \/ \E p \in Plan : Reconcile(p)
          \/ \E S \in SUBSET HousingTarget : CancelHousingPaymentTargets(S)
          \/ \E S \in SUBSET ClientTarget : CancelClientScheduledByScope(S)
          \/ \E t \in ClientTarget, ats \in ClientFires : UpsertClientScheduledFires(t, ats)

Deliver == \/ ClaimDueReminderFires
           \/ \E r \in Recipient : WakeRecipient(r)
           \/ \E f \in fired : AckReminderFireDelivery(f)

Next == Register \/ Ingest \/ Deliver \/ Crash \/ Tick

Spec == Init /\ [][Next]_vars

\* The cron's ticker fires until the process stops, and a stopped process is
\* started again.
FairSpec == Spec /\ WF_vars(ClaimDueReminderFires)

------------------------------------------------------------------------------
(* Properties *)

\* A claimed reminder is neither armed nor cancelled again, and one its
\* recipient acknowledged is not listed again, whatever reconciliations and
\* zone registrations still carry an older "now".
FiredIsFinal ==
  [][/\ fired \cup delivered \subseteq fired' \cup delivered'
     /\ delivered \subseteq delivered'
     /\ pending' \cap (fired \cup delivered) = {}]_vars

\* The cron never claims a reminder of a target whose last word from the
\* clients was to cancel it, or to leave it out of a newer plan; a zone
\* registration that read the target before that word may still arm one.
CancelledStaysSilent ==
  [][\A f \in fired' \ fired : f[1] \notin silenced]_vars

\* When an update brings a cancelled target back, what an earlier life of the
\* target left pending goes, but for the fires that a zone registration
\* committed between the update's statements about the target and its commit:
\* no statement of the update saw those.
RevivalIsClean ==
  [][\A t \in HousingTarget :
       ~Live(t) /\ Live(t)' =>
         \A f \in pending' \cap pending : f[1] = t => f \in beside[PlanOf[t]]]_vars

\* Fires of a target that are due and that a pass may claim: it leaves out what
\* an open transaction is about to replace.
Backlog(t) == {f \in pending \ Held : f[1] = t /\ f[2] <= now /\ Live(t)}

\* The reminders of a target that are due are claimed by later cron passes,
\* however late and however long the backlog of all targets, unless they or
\* their target are cancelled first.
DueIsFired == \A t \in Target : Backlog(t) # {} ~> Backlog(t) = {}
================================================================================
