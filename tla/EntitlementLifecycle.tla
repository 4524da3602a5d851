-------------------------- MODULE EntitlementLifecycle -------------------------
(***************************************************************************)
(* The housing licence of a plan: trial, paid operation, grace, read-only  *)
(* (entitlement/internal/domain/housing.go over internal/store/store.go).  *)
(*                                                                         *)
(* The service runs no transaction across its reads and writes of a plan,  *)
(* so a request is a sequence of statements and requests interleave        *)
(* between them; UpsertPlan writes the whole row a request has in hand.    *)
(* trial_started_at equals active_use_started_at whenever it is set, and   *)
(* the expense decisions are read by nothing: both are left out.           *)
(***************************************************************************)
EXTENDS Naturals, FiniteSets

CONSTANTS
  Plan, Revision, Installation, Handler,
  AtStart,         \* the installations registered before the first request
  RosterRequest,   \* [plan, rev, roster]: POST of a plan's active roster
  LicenseRequest,  \* [plan, who, state, revoke]: a participant's coverage changes
  GateRequest,     \* [plan, who, kind]: the relay asks for a decision
  Migration,       \* [plan, old, new]: an installation moves to a new device
  TrialDuration, GraceDuration, MaxTime,
  None

ASSUME InputAssumption ==
  /\ AtStart \subseteq Installation
  /\ RosterRequest \subseteq [plan : Plan, rev : Revision, roster : SUBSET Installation]
  /\ \A r \in RosterRequest : IsFiniteSet(r.roster) /\ Cardinality(r.roster) >= 2
  /\ LicenseRequest \subseteq [plan : Plan, who : Installation,
                               state : {"active_paid", "unpaid"}, revoke : BOOLEAN]
  /\ GateRequest \subseteq [plan : Plan, who : Installation,
                            kind : {"propose", "accept", "negotiate", "other"}]
  /\ Migration \subseteq [plan : Plan, old : Installation, new : Installation]
ASSUME DurationAssumption ==
  TrialDuration \in Nat /\ GraceDuration \in Nat /\ MaxTime \in Nat

VARIABLES
  now,
  registered,   \* rows of installations
  consumed,     \* ... with trial_housing_consumed
  rosters,      \* rows <<plan, revision, installation>> of housing_plan_rosters
  active,       \* the active revision of each plan
  license,      \* license_state in housing_plan_licenses, by plan and participant
  plans,        \* housing_plans
  job,          \* the request each handler serves
  verdict,      \* the answer a handler gave, until it takes up another request
  \* History, read by properties only.
  overtaken,    \* handlers whose plan another request has changed under them
  person,       \* who an installation belongs to
  departed,     \* the installations their persons have moved away from
  granted,      \* <<plan, person>>: a trial was started with that person
  excused,      \* who may get a second trial, see Excused, UseMark, MigrateCommit
  graced,       \* the earliest clock reading a grace period was counted from
  revoked       \* plans a revocation made read-only

gates == <<rosters, active, license>>
tables == <<registered, consumed, gates, plans>>
trials == <<person, departed, granted, excused>>
history == <<trials, graced, revoked>>
vars == <<now, tables, job, verdict, overtaken, history>>

States == {"linked_not_active", "active_trial", "active_paid",
           "delinquent_grace", "delinquent_readonly"}
Instant == Nat \cup {None}

\* The rows the statements build: what each state says of the dates.
Row ==
  {r \in [state : States, activeUse : Instant, trialEnds : Instant, graceEnds : Instant] :
     /\ r.state = "linked_not_active" => r.activeUse = None
     /\ r.state \in {"active_trial", "delinquent_grace", "delinquent_readonly"} => r.activeUse # None
     /\ r.state = "active_trial" => r.trialEnds # None
     /\ r.state = "delinquent_grace" => r.graceEnds # None
     /\ r.state = "active_paid" => r.graceEnds = None}
ASSUME SentinelAssumption ==
  None \notin Nat /\ None \notin Revision /\ None \notin Row /\ None \notin BOOLEAN

Steps == {"idle", "roster_plan", "roster_write",
          "use_roster", "use_plan", "use_consumed", "use_mark", "use_write",
          "revoke_plan", "revoke_write",
          "refresh_plan", "refresh_roster", "refresh_paid", "refresh_write",
          "decide_plan", "decide_roster", "decide_paid", "migrate"}

\* ... at which a request acts on what it has read of its plan,
InHand == {"roster_write", "use_consumed", "use_mark", "use_write", "revoke_write",
           "refresh_roster", "refresh_paid", "refresh_write", "decide_roster", "decide_paid"}

Idle == [step |-> "idle", plan |-> None, who |-> None, kind |-> None, new |-> None,
         at |-> 0, roster |-> {}, left |-> {}, row |-> None]

TypeOK ==
  /\ now \in Nat
  /\ registered \subseteq Installation
  /\ consumed \subseteq registered
  /\ rosters \subseteq Plan \X Revision \X Installation
  /\ active \in [Plan -> Revision \cup {None}]
  /\ license \in [Plan -> [Installation -> {"active_paid", "unpaid", None}]]
  /\ plans \in [Plan -> Row \cup {None}]
  /\ \A h \in Handler :
       /\ job[h].step \in Steps
       /\ job[h].step # "idle" => job[h].plan \in Plan
       /\ job[h].row \in Row \cup {None}
       /\ job[h].step \in {"use_write", "refresh_write", "revoke_write"} => job[h].row # None
       /\ job[h].step \in {"decide_plan", "decide_roster", "decide_paid"} => job[h].kind # None
  /\ verdict \in [Handler -> BOOLEAN \cup {None}]
  /\ overtaken \subseteq {h \in Handler : job[h].step \in InHand}
  /\ person \in [Installation -> Installation]
  /\ departed \subseteq Installation
  /\ granted \subseteq Plan \X Installation
  /\ excused \subseteq Installation
  /\ graced \in [Plan -> Instant]
  /\ revoked \subseteq Plan

Init ==
  /\ now = 0
  /\ registered = AtStart
  /\ consumed = {}
  /\ rosters = {}
  /\ active = [p \in Plan |-> None]
  /\ license = [p \in Plan |-> [i \in Installation |-> None]]
  /\ plans = [p \in Plan |-> None]
  /\ job = [h \in Handler |-> Idle]
  /\ verdict = [h \in Handler |-> None]
  /\ overtaken = {}
  /\ person = [i \in Installation |-> i]
  /\ departed = {}
  /\ granted = {}
  /\ excused = {}
  /\ graced = [p \in Plan |-> None]
  /\ revoked = {}

------------------------------------------------------------------------------
(* What the statements share *)

At(h, step) == job[h].step = step
Goto(h, step) == job' = [job EXCEPT ![h].step = step]
Done(h) == job' = [job EXCEPT ![h] = Idle]

TakeUp(h, request) ==
  /\ At(h, "idle")
  /\ job' = [job EXCEPT ![h] = request]
  /\ verdict' = [verdict EXCEPT ![h] = None]

ActiveRoster(p) == {i \in Installation : <<p, active[p], i>> \in rosters}

allParticipantsPaid(p, ids) == ids # {} /\ \A i \in ids : license[p][i] = "active_paid"

\* An introspection goes on to refresh the plan; a report of active use ends.
AfterUse(h) == IF job[h].kind = None THEN Done(h) ELSE Goto(h, "refresh_plan")

\* ... and after the refresh it decides; a licence report ends.
AfterRefresh(h) == IF job[h].kind = None THEN Done(h) ELSE Goto(h, "decide_plan")

\* Every request with something of the plan in hand acts on old knowledge from
\* here on, until it reads the plan's row again.
Overtakes(h, p) ==
  overtaken' = (overtaken \ {h})
    \cup {g \in Handler \ {h} : job[g].plan = p /\ job[g].step \in InHand}

Afresh(h) == overtaken' = overtaken \ {h}

\* The whole row is written, whatever was written since it was read.
UpsertPlan(h, row) ==
  LET p == job[h].plan
  IN  /\ plans' = [plans EXCEPT ![p] = row]
      /\ Overtakes(h, p)
      /\ graced' = IF /\ row.state = "delinquent_grace"
                      /\ graced[p] # None => job[h].at < graced[p]
                   THEN [graced EXCEPT ![p] = job[h].at] ELSE graced

isMutatingOperation(kind) == kind # "other"

------------------------------------------------------------------------------
(* RegisterInstallation, SetActiveRoster *)

RegisterInstallation(i) ==
  /\ registered' = registered \cup {i}
  /\ UNCHANGED <<now, consumed, gates, plans, job, verdict, overtaken, history>>

\* Rows are added to the revision, never removed from it.
SetActiveRoster(h, r) ==
  /\ TakeUp(h, [Idle EXCEPT !.step = "roster_plan", !.plan = r.plan])
  /\ rosters' = rosters \cup {<<r.plan, r.rev, i>> : i \in r.roster}
  /\ active' = [active EXCEPT ![r.plan] = r.rev]
  /\ Overtakes(h, r.plan)
  /\ UNCHANGED <<now, registered, consumed, license, plans, history>>

RosterReadPlan(h) ==
  /\ At(h, "roster_plan")
  /\ IF plans[job[h].plan] # None THEN Done(h) ELSE Goto(h, "roster_write")
  /\ Afresh(h)
  /\ UNCHANGED <<now, tables, verdict, history>>

RosterWritePlan(h) ==
  /\ At(h, "roster_write")
  /\ UpsertPlan(h, [state |-> "linked_not_active", activeUse |-> None,
                    trialEnds |-> None, graceEnds |-> None])
  /\ Done(h)
  /\ UNCHANGED <<now, registered, consumed, gates, verdict, trials, revoked>>

------------------------------------------------------------------------------
(* RecordActiveUse *)

ReportActiveUse(h, p) ==
  /\ TakeUp(h, [Idle EXCEPT !.step = "use_roster", !.plan = p])
  /\ UNCHANGED <<now, tables, overtaken, history>>

UseReadRoster(h) ==
  /\ At(h, "use_roster")
  /\ LET ids == ActiveRoster(job[h].plan)
     IN  IF Cardinality(ids) < 2 THEN AfterUse(h)
         ELSE job' = [job EXCEPT ![h].step = "use_plan", ![h].roster = ids, ![h].at = now]
  /\ UNCHANGED <<now, tables, verdict, overtaken, history>>

\* Mutant: an active use already recorded is not looked for.
UseRecordAgain(h) ==
  /\ At(h, "use_plan")
  /\ Goto(h, "use_consumed")
  /\ Afresh(h)
  /\ UNCHANGED <<now, tables, verdict, history>>

UseReadPlan(h) ==
  /\ At(h, "use_plan")
  /\ LET plan == plans[job[h].plan]
     IN  IF plan # None /\ plan.activeUse # None THEN AfterUse(h) ELSE Goto(h, "use_consumed")
  /\ Afresh(h)
  /\ UNCHANGED <<now, tables, verdict, history>>

\* A trial is being recorded: decided on and not written yet.
Granting(g) ==
  job[g].step \in {"use_mark", "use_write"} /\ job[g].row.state = "active_trial"

\* A trial decided on now may be the second one of a participant whom another
\* plan's trial is being recorded with, or whom the roster still names by an
\* installation moved away from.
Excused(h) ==
  LET Elsewhere == {g \in Handler : Granting(g) /\ job[g].plan # job[h].plan}
  IN  {person[i] : i \in job[h].roster \cap (departed \cup UNION {job[g].roster : g \in Elsewhere})}

\* AnyTrialConsumed: grace at once, or a trial once all are marked.
UseReadConsumed(h) ==
  /\ At(h, "use_consumed")
  /\ LET j == job[h]
     IN  IF j.roster \cap consumed # {}
         THEN /\ job' = [job EXCEPT ![h].step = "use_write",
                ![h].row = [state |-> "delinquent_grace", activeUse |-> j.at,
                            trialEnds |-> None, graceEnds |-> j.at + GraceDuration]]
              /\ UNCHANGED excused
         ELSE /\ job' = [job EXCEPT ![h].step = "use_mark", ![h].left = j.roster,
                ![h].row = [state |-> "active_trial", activeUse |-> j.at,
                            trialEnds |-> j.at + TrialDuration, graceEnds |-> None]]
              /\ excused' = excused \cup Excused(h)
  /\ UNCHANGED <<now, tables, verdict, overtaken, person, departed, granted, graced, revoked>>

\* Mutant: only one participant is marked.
UseMarkOne(h) ==
  /\ At(h, "use_mark")
  /\ \E i \in job[h].left : consumed' = consumed \cup ({i} \cap registered)
  /\ job' = [job EXCEPT ![h].left = {}, ![h].step = "use_write"]
  /\ UNCHANGED <<now, registered, gates, plans, verdict, overtaken, history>>

\* MarkTrialConsumed updates one row after the other; an installation that
\* never registered has none, and nothing to remember the trial by.
UseMark(h) ==
  /\ At(h, "use_mark")
  /\ \E i \in job[h].left :
       /\ consumed' = consumed \cup ({i} \cap registered)
       /\ excused' = IF i \in registered THEN excused ELSE excused \cup {person[i]}
       /\ job' = [job EXCEPT ![h].left = @ \ {i},
                             ![h].step = IF job[h].left = {i} THEN "use_write" ELSE "use_mark"]
  /\ UNCHANGED <<now, registered, gates, plans, verdict, overtaken,
                 person, departed, granted, graced, revoked>>

UseWritePlan(h) ==
  /\ At(h, "use_write")
  /\ UpsertPlan(h, job[h].row)
  /\ granted' = IF job[h].row.state = "active_trial"
                THEN granted \cup {<<job[h].plan, person[i]>> : i \in job[h].roster}
                ELSE granted
  /\ AfterUse(h)
  /\ UNCHANGED <<now, registered, consumed, gates, verdict, person, departed, excused, revoked>>

------------------------------------------------------------------------------
(* RefreshPlanLifecycle *)

RefreshReadPlan(h) ==
  /\ At(h, "refresh_plan")
  /\ LET plan == plans[job[h].plan]
     IN  IF plan = None THEN AfterRefresh(h)
         ELSE job' = [job EXCEPT ![h].step = "refresh_roster", ![h].row = plan]
  /\ Afresh(h)
  /\ UNCHANGED <<now, tables, verdict, history>>

RefreshReadRoster(h) ==
  /\ At(h, "refresh_roster")
  /\ LET ids == ActiveRoster(job[h].plan)
     IN  IF ids = {} THEN AfterRefresh(h) /\ Afresh(h)
         ELSE /\ job' = [job EXCEPT ![h].step = "refresh_paid", ![h].roster = ids, ![h].at = now]
              /\ UNCHANGED overtaken
  /\ UNCHANGED <<now, tables, verdict, history>>

\* Mutant: the end of the trial closes the plan at once.
RefreshedWithoutGrace(row, all, t) ==
  IF all THEN [row EXCEPT !.state = "active_paid", !.graceEnds = None]
  ELSE IF row.state = "active_trial" /\ row.trialEnds # None /\ t > row.trialEnds
  THEN [row EXCEPT !.state = "delinquent_readonly"] ELSE None

\* Mutant: payment leaves the end of the grace period in the row.
RefreshedKeepingGrace(row, all, t) ==
  IF all THEN [row EXCEPT !.state = "active_paid"]
  ELSE IF row.state = "active_trial" /\ row.trialEnds # None /\ t > row.trialEnds
  THEN [row EXCEPT !.state = "delinquent_grace", !.graceEnds = t + GraceDuration]
  ELSE IF row.state = "delinquent_grace" /\ row.graceEnds # None /\ t > row.graceEnds
  THEN [row EXCEPT !.state = "delinquent_readonly"]
  ELSE None

\* Mutant: any plan whose trial is over starts a grace period.
RefreshedFromAnyState(row, all, t) ==
  IF all THEN [row EXCEPT !.state = "active_paid", !.graceEnds = None]
  ELSE IF row.trialEnds # None /\ t > row.trialEnds
  THEN [row EXCEPT !.state = "delinquent_grace", !.graceEnds = t + GraceDuration] ELSE None

\* The row a refresh writes, or None when it writes nothing.
Refreshed(row, all, t) ==
  IF all THEN [row EXCEPT !.state = "active_paid", !.graceEnds = None]
  ELSE IF row.state = "active_trial" /\ row.trialEnds # None /\ t > row.trialEnds
  THEN [row EXCEPT !.state = "delinquent_grace", !.graceEnds = t + GraceDuration]
  ELSE IF row.state = "delinquent_grace" /\ row.graceEnds # None /\ t > row.graceEnds
  THEN [row EXCEPT !.state = "delinquent_readonly"]
  ELSE None

RefreshReadPaid(h) ==
  /\ At(h, "refresh_paid")
  /\ LET j == job[h]
         next == Refreshed(j.row, allParticipantsPaid(j.plan, j.roster), j.at)
     IN  IF next = None THEN AfterRefresh(h) /\ Afresh(h)
         ELSE /\ job' = [job EXCEPT ![h].step = "refresh_write", ![h].row = next]
              /\ UNCHANGED overtaken
  /\ UNCHANGED <<now, tables, verdict, history>>

RefreshWritePlan(h) ==
  /\ At(h, "refresh_write")
  /\ UpsertPlan(h, job[h].row)
  /\ AfterRefresh(h)
  /\ UNCHANGED <<now, registered, consumed, gates, verdict, trials, revoked>>

------------------------------------------------------------------------------
(* ReportLicense and the projection of an installation's licences *)

\* Coverage of one participant of one plan: a report, or what a purchase, a
\* free licence or its withdrawal (revoke) amounts to for the plan.
UpsertLicenseStatus(h, r) ==
  /\ TakeUp(h, [Idle EXCEPT !.plan = r.plan,
       !.step = IF r.revoke /\ r.state = "unpaid" THEN "revoke_plan" ELSE "refresh_plan"])
  /\ r.revoke => r.who \in ActiveRoster(r.plan)
  /\ license' = [license EXCEPT ![r.plan][r.who] = r.state]
  /\ Overtakes(h, r.plan)
  /\ UNCHANGED <<now, registered, consumed, rosters, active, plans, history>>

RevokeReadPlan(h) ==
  /\ At(h, "revoke_plan")
  /\ LET plan == plans[job[h].plan]
     IN  IF plan = None \/ plan.activeUse = None THEN Goto(h, "refresh_plan")
         ELSE job' = [job EXCEPT ![h].step = "revoke_write",
                                 ![h].row = [plan EXCEPT !.state = "delinquent_readonly"]]
  /\ Afresh(h)
  /\ UNCHANGED <<now, tables, verdict, history>>

RevokeWritePlan(h) ==
  /\ At(h, "revoke_write")
  /\ UpsertPlan(h, job[h].row)
  /\ revoked' = revoked \cup {job[h].plan}
  /\ Done(h)
  /\ UNCHANGED <<now, registered, consumed, gates, verdict, trials>>

------------------------------------------------------------------------------
(* Introspect *)

Introspect(h, r) ==
  /\ TakeUp(h, [Idle EXCEPT !.plan = r.plan, !.who = r.who, !.kind = r.kind,
                    !.step = IF r.kind = "propose" THEN "use_roster" ELSE "refresh_plan"])
  /\ UNCHANGED <<now, tables, overtaken, history>>

Answer(h, allow) ==
  /\ verdict' = [verdict EXCEPT ![h] = allow]
  /\ Done(h)
  /\ Afresh(h)

DecideReadPlan(h) ==
  /\ At(h, "decide_plan")
  /\ LET plan == plans[job[h].plan]
         kind == job[h].kind
     IN  IF (plan = None \/ plan.activeUse = None) /\ kind = "negotiate" THEN Answer(h, TRUE)
         ELSE IF plan = None THEN Answer(h, ~isMutatingOperation(kind))
         ELSE IF plan.state = "delinquent_readonly" /\ isMutatingOperation(kind)
         THEN Answer(h, FALSE)
         ELSE /\ job' = [job EXCEPT ![h].step = "decide_roster", ![h].row = plan]
              /\ UNCHANGED verdict
              /\ Afresh(h)
  /\ UNCHANGED <<now, tables, history>>

DecideReadRoster(h) ==
  /\ At(h, "decide_roster")
  /\ LET ids == ActiveRoster(job[h].plan)
     IN  IF job[h].who \notin ids /\ isMutatingOperation(job[h].kind) THEN Answer(h, FALSE)
         ELSE /\ job' = [job EXCEPT ![h].step = "decide_paid", ![h].roster = ids]
              /\ UNCHANGED <<verdict, overtaken>>
  /\ UNCHANGED <<now, tables, history>>

DecideReadPaid(h) ==
  /\ At(h, "decide_paid")
  /\ LET j == job[h]
         expired == /\ j.row.state \in {"linked_not_active", "active_trial"}
                    /\ j.row.trialEnds # None
                    /\ now > j.row.trialEnds
         readOnly == j.row.state = "delinquent_readonly" /\ isMutatingOperation(j.kind)
     IN  Answer(h, allParticipantsPaid(j.plan, j.roster) \/ ~(expired \/ readOnly))
  /\ UNCHANGED <<now, tables, history>>

------------------------------------------------------------------------------
(* MigrateInstallation *)

MigrateReadRoster(h, m) ==
  /\ TakeUp(h, [Idle EXCEPT !.step = "migrate", !.plan = m.plan, !.who = m.old, !.new = m.new])
  /\ m.old \in ActiveRoster(m.plan)
  /\ UNCHANGED <<now, tables, overtaken, history>>

\* Nobody answers for the person's one trial while an installation changes
\* hands that a trial being recorded names, or when it is moved away from twice.
MoveExcuses(old, new) ==
  LET named == \E g \in Handler : Granting(g) /\ job[g].roster \cap {old, new} # {}
      again == old \in departed /\ ~(person[new] = person[old] /\ new \notin departed)
  IN  (IF named THEN {person[old], person[new]} ELSE {})
        \cup (IF again THEN {person[old]} ELSE {})

\* One transaction over the plan's rosters, in every revision, and its
\* licences; it fails on their keys when the new installation has rows already.
\* The trial mark goes with the person, and with the row when old is new.
MigrateCommit(h) ==
  /\ At(h, "migrate")
  /\ LET p == job[h].plan
         old == job[h].who
         new == job[h].new
     IN  /\ old # new =>
              /\ \A v \in Revision : <<p, v, old>> \in rosters => <<p, v, new>> \notin rosters
              /\ license[p][old] = None \/ license[p][new] = None
         /\ rosters' = {IF row[1] = p /\ row[3] = old THEN <<p, row[2], new>> ELSE row :
                          row \in rosters}
         /\ license' = IF license[p][old] = None THEN license
                       ELSE [license EXCEPT ![p][old] = None, ![p][new] = license[p][old]]
         /\ registered' = (registered \cup {new}) \ {old}
         /\ consumed' = (IF old \in consumed THEN consumed \cup {new} ELSE consumed) \ {old}
         /\ person' = [person EXCEPT ![new] = person[old]]
         /\ departed' = (departed \ {new}) \cup {old}
         /\ excused' = excused \cup MoveExcuses(old, new)
         /\ Overtakes(h, p)
  /\ Done(h)
  /\ UNCHANGED <<now, active, plans, verdict, granted, graced, revoked>>

------------------------------------------------------------------------------

\* A statement fails, the client goes away, or the service stops: the rest
\* of the request never runs.
GiveUp(h) ==
  /\ ~At(h, "idle")
  /\ Done(h)
  /\ Afresh(h)
  /\ UNCHANGED <<now, tables, verdict, history>>

Tick ==
  /\ now < MaxTime
  /\ now' = now + 1
  /\ UNCHANGED <<tables, job, verdict, overtaken, history>>

Use(h) == UseReadRoster(h) \/ UseReadPlan(h) \/ UseReadConsumed(h) \/ UseMark(h) \/ UseWritePlan(h)

Refresh(h) == \/ RefreshReadPlan(h) \/ RefreshReadRoster(h)
              \/ RefreshReadPaid(h) \/ RefreshWritePlan(h)

Decide(h) == DecideReadPlan(h) \/ DecideReadRoster(h) \/ DecideReadPaid(h)

Next ==
  \/ Tick
  \/ \E i \in Installation : RegisterInstallation(i)
  \/ \E h \in Handler :
       \/ \E r \in RosterRequest : SetActiveRoster(h, r)
       \/ RosterReadPlan(h) \/ RosterWritePlan(h)
       \/ \E p \in Plan : ReportActiveUse(h, p)
       \/ Use(h) \/ Refresh(h) \/ Decide(h)
       \/ \E r \in LicenseRequest : UpsertLicenseStatus(h, r)
       \/ RevokeReadPlan(h) \/ RevokeWritePlan(h)
       \/ \E r \in GateRequest : Introspect(h, r)
       \/ \E m \in Migration : MigrateReadRoster(h, m)
       \/ MigrateCommit(h)
       \/ GiveUp(h)

Spec == Init /\ [][Next]_vars

------------------------------------------------------------------------------
(* Properties *)

\* Nobody is read-only without notice: a plan is read-only only after a
\* whole grace period since the first reading one was counted from, or
\* because a licence was withdrawn.
GraceComesFirst ==
  \A p \in Plan :
    plans[p] # None /\ plans[p].state = "delinquent_readonly" =>
      p \in revoked \/ (graced[p] # None /\ now > graced[p] + GraceDuration)

\* Nobody takes part in the trials of two plans, unless excused: two trials
\* were recorded at once, or one with an installation that has no row or was
\* moved away from, or an installation moved while one was recorded or twice.
TrialOncePerPerson ==
  \A x, y \in granted : x[2] = y[2] => x[1] = y[1] \/ x[2] \in excused

\* The step of a request whose plan another request changed since it read it.
OvertakenStep(p) == \E h \in overtaken : job[h].plan = p /\ job'[h] # job[h]

\* The start of active use and the end of the trial, once recorded, stay,
\* whatever requests run at once: only one that was overtaken can reset them.
TrialStartIsStable ==
  [][\A p \in Plan :
       plans[p] # None /\ plans[p].activeUse # None /\ ~OvertakenStep(p) =>
         /\ plans'[p].activeUse = plans[p].activeUse
         /\ plans'[p].trialEnds = plans[p].trialEnds]_vars

\* A read-only plan takes no change of its ledger while someone is unpaid, and
\* payment by all is the only way out of read-only, whatever requests run at
\* once: only a request that was overtaken can reopen it or let a change in.
ReadOnlyHolds ==
  [][\A p \in Plan :
       plans[p] # None /\ plans[p].state = "delinquent_readonly"
         /\ ~allParticipantsPaid(p, ActiveRoster(p)) /\ ~OvertakenStep(p) =>
           /\ plans'[p].state = "delinquent_readonly"
           /\ \A h \in Handler :
                /\ job[h].step \in {"decide_plan", "decide_roster", "decide_paid"}
                /\ job[h].plan = p /\ isMutatingOperation(job[h].kind)
                => verdict'[h] # TRUE]_vars
================================================================================
