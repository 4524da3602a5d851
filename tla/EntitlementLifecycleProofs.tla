---------------------- MODULE EntitlementLifecycleProofs -----------------------
(***************************************************************************)
(* Proofs about EntitlementLifecycle for any number of plans, revisions,   *)
(* installations and requests, and durations of any length, however        *)
(* requests interleave between their statements.                           *)
(***************************************************************************)
EXTENDS EntitlementLifecycle, TLAPS

Kind == {"propose", "accept", "negotiate", "other"}
Job == [step : Steps, plan : Plan \cup {None}, who : Installation \cup {None},
        kind : Kind \cup {None}, new : Installation \cup {None}, at : Nat,
        roster : SUBSET Installation, left : SUBSET Installation,
        row : Row \cup {None}]

\* Steps at which a request has read a row it may write, or decide by.
HasRow == {"use_mark", "use_write", "refresh_roster", "refresh_paid", "refresh_write",
           "revoke_write", "decide_roster", "decide_paid"}
Deciding == {"decide_plan", "decide_roster", "decide_paid"}

WellFormed(j) ==
  /\ j \in Job
  /\ j.step # "idle" => j.plan \in Plan
  /\ j.step \in HasRow => j.row \in Row
  /\ j.step \in Deciding => j.kind # None
  /\ j.step = "migrate" => j.who \in Installation /\ j.new \in Installation
  /\ j.at <= now

RequestsOK == job \in [Handler -> Job] /\ \A h \in Handler : WellFormed(job[h])

TablesOK ==
  /\ now \in Nat
  /\ registered \subseteq Installation
  /\ consumed \subseteq registered
  /\ rosters \subseteq Plan \X Revision \X Installation
  /\ active \in [Plan -> Revision \cup {None}]
  /\ license \in [Plan -> [Installation -> {"active_paid", "unpaid", None}]]
  /\ plans \in [Plan -> Row \cup {None}]

HistoryOK ==
  /\ person \in [Installation -> Installation]
  /\ departed \subseteq Installation
  /\ granted \subseteq Plan \X Installation
  /\ excused \subseteq Installation
  /\ graced \in [Plan -> Instant]
  /\ revoked \subseteq Plan

VerdictsOK == verdict \in [Handler -> BOOLEAN \cup {None}]

OvertakenOK == overtaken \subseteq {h \in Handler : job[h].step \in InHand}

Typed == TablesOK /\ RequestsOK /\ HistoryOK

\* A grace period that ends at some time began a whole period before, and the
\* history knows of a beginning no later than that one.
Noticed(p, row) ==
  row.state = "delinquent_grace" /\ row.graceEnds # None =>
    graced[p] # None /\ graced[p] + GraceDuration <= row.graceEnds

Served(p) == graced[p] # None /\ now > graced[p] + GraceDuration

\* A row about to be written that opens a grace period counts it from the
\* reading the request took.
Counted(j) == j.row.state = "delinquent_grace" => j.row.graceEnds = j.at + GraceDuration

\* Whatever others have written since it read its row.
GraceInHand(j) ==
  /\ j.step \in {"refresh_roster", "refresh_paid"} => Noticed(j.plan, j.row)
  /\ j.step \in {"use_mark", "use_write"} =>
       j.row.state \in {"active_trial", "delinquent_grace"} /\ Counted(j)
  /\ j.step = "refresh_write" =>
       /\ Counted(j)
       /\ j.row.state = "delinquent_readonly" => Served(j.plan)
  /\ j.step = "revoke_write" => j.row.state = "delinquent_readonly"

GraceInv ==
  /\ \A p \in Plan : plans[p] # None => Noticed(p, plans[p])
  /\ \A h \in Handler : GraceInHand(job[h])
  /\ GraceComesFirst

\* What the handler has in hand is what the tables say.
Current(j) ==
  /\ j.step = "roster_write" => plans[j.plan] = None
  /\ j.step \in {"use_consumed", "use_mark", "use_write"} =>
       plans[j.plan] = None \/ plans[j.plan].activeUse = None
  /\ j.step \in {"refresh_roster", "refresh_paid", "decide_roster", "decide_paid"} =>
       j.row = plans[j.plan]
  /\ j.step = "refresh_paid" => j.roster = ActiveRoster(j.plan)
  /\ j.step \in {"refresh_write", "revoke_write"} =>
       /\ plans[j.plan] # None
       /\ j.row.activeUse = plans[j.plan].activeUse
       /\ j.row.trialEnds = plans[j.plan].trialEnds
  /\ j.step = "refresh_write" =>
       (plans[j.plan].state = "delinquent_readonly" =>
          allParticipantsPaid(j.plan, ActiveRoster(j.plan)))

\* ... and whatever others have changed since: nothing is answered before its
\* time, and no row in hand has a change allowed on a read-only plan.
Sound(j, v) ==
  /\ j.step # "idle" /\ j.kind # None => v = None
  /\ j.step \in {"decide_roster", "decide_paid"} /\ isMutatingOperation(j.kind) =>
       j.row.state # "delinquent_readonly"
  /\ j.step = "revoke_write" => j.row.state = "delinquent_readonly"

\* What h knows, unless it was overtaken.
Own(h) == Sound(job[h], verdict[h]) /\ (h \notin overtaken => Current(job[h]))

CurrentInv == \A h \in Handler : Own(h)

\* A step of h about plan p.
TouchesOnly(h, p) ==
  /\ \A g \in Handler : g # h => job'[g] = job[g] /\ verdict'[g] = verdict[g]
  /\ \A q \in Plan : q # p =>
       /\ plans'[q] = plans[q] /\ active'[q] = active[q] /\ license'[q] = license[q]
       /\ \A v, i : <<q, v, i>> \in rosters' <=> <<q, v, i>> \in rosters

\* Whoever took part in a trial is marked, wherever the person has moved to.
Vouched ==
  \A p \in Plan, i \in Installation :
    <<p, person[i]>> \in granted /\ i \notin departed => i \in consumed \/ person[i] \in excused

\* Nobody has two installations not moved away from.
OneEach ==
  \A i, k \in Installation :
    person[i] = person[k] /\ i \notin departed /\ k \notin departed =>
      i = k \/ person[i] \in excused

\* A trial being recorded marks its participants before it is written, and none
\* of them took part in another plan's.
Recorded(j) ==
  \A i \in j.roster :
    \/ person[i] \in excused
    \/ /\ i \notin departed
       /\ (j.step = "use_mark" /\ i \in j.left) \/ i \in consumed
       /\ \A p \in Plan : <<p, person[i]>> \in granted => p = j.plan

TrialJob(j) == j.step \in {"use_mark", "use_write"} /\ j.row.state = "active_trial"

\* No two plans' trials are being recorded with one installation.
Apart(j, k) ==
  j.plan # k.plan => \A i \in j.roster \cap k.roster : person[i] \in excused

TrialInv ==
  /\ Vouched
  /\ OneEach
  /\ \A h \in Handler : TrialJob(job[h]) => Recorded(job[h])
  /\ \A g, h \in Handler : TrialJob(job[g]) /\ TrialJob(job[h]) => Apart(job[g], job[h])
  /\ TrialOncePerPerson

\* What a handler takes up, and what it does next with it.
Starts(h) ==
  \/ \E r \in RosterRequest : SetActiveRoster(h, r)
  \/ \E p \in Plan : ReportActiveUse(h, p)
  \/ \E r \in LicenseRequest : UpsertLicenseStatus(h, r)
  \/ \E r \in GateRequest : Introspect(h, r)
  \/ \E m \in Migration : MigrateReadRoster(h, m)

Serves(h) ==
  \/ RosterReadPlan(h) \/ RosterWritePlan(h) \/ Use(h) \/ Refresh(h) \/ Decide(h)
  \/ RevokeReadPlan(h) \/ RevokeWritePlan(h) \/ MigrateCommit(h) \/ GiveUp(h)

First == {"roster_plan", "use_roster", "refresh_plan", "revoke_plan", "migrate"}

------------------------------------------------------------------------------
(* Types *)

LEMMA IdleOK == now \in Nat => WellFormed(Idle)
BY DEF WellFormed, Idle, Job, Steps, HasRow, Deciding

\* What the handler takes up is all of the requests that changes.
LEMMA JobOK ==
  ASSUME RequestsOK, NEW h \in Handler, NEW j, WellFormed(j),
         job' = [job EXCEPT ![h] = j], now' = now
  PROVE  RequestsOK'
<1>1. j \in Job BY DEF WellFormed
<1>2. job' \in [Handler -> Job] BY <1>1 DEF RequestsOK
<1>3. \A g \in Handler : WellFormed(job'[g]) BY <1>1 DEF RequestsOK
<1> QED BY <1>2, <1>3 DEF RequestsOK, WellFormed

LEMMA DoneOK ==
  ASSUME RequestsOK, NEW h \in Handler, Done(h), now \in Nat, now' = now
  PROVE  RequestsOK'
BY IdleOK, JobOK DEF Done

\* A request goes on to a step that has what it needs.
LEMMA GotoOK ==
  ASSUME RequestsOK, NEW h \in Handler, NEW step \in Steps, Goto(h, step), now' = now,
         job[h].plan \in Plan,
         step \in HasRow => job[h].row \in Row,
         step \in Deciding => job[h].kind # None,
         step # "migrate"
  PROVE  RequestsOK'
<1> DEFINE j == [job[h] EXCEPT !.step = step]
<1>1. job' = [job EXCEPT ![h] = j] BY DEF Goto
<1>2. job[h] \in Job /\ WellFormed(job[h]) BY DEF RequestsOK
<1>3. WellFormed(j) BY <1>2 DEF WellFormed, Job
<1> QED BY <1>1, <1>3, JobOK

LEMMA AfterUseOK ==
  ASSUME RequestsOK, NEW h \in Handler, AfterUse(h), now \in Nat, now' = now,
         job[h].plan \in Plan
  PROVE  RequestsOK'
BY DoneOK, GotoOK DEF AfterUse, Steps, HasRow, Deciding

LEMMA AfterRefreshOK ==
  ASSUME RequestsOK, NEW h \in Handler, AfterRefresh(h), now \in Nat, now' = now,
         job[h].plan \in Plan
  PROVE  RequestsOK'
BY DoneOK, GotoOK DEF AfterRefresh, Steps, HasRow, Deciding

\* A request as it is taken up.
Begun(step, plan, who, kind, new) ==
  [step |-> step, plan |-> plan, who |-> who, kind |-> kind, new |-> new,
   at |-> 0, roster |-> {}, left |-> {}, row |-> None]

LEMMA BegunOK ==
  ASSUME NEW step \in Steps \ (HasRow \cup Deciding), NEW plan \in Plan,
         NEW who \in Installation \cup {None}, NEW kind \in Kind \cup {None},
         NEW new \in Installation \cup {None}, now \in Nat,
         step = "migrate" => who \in Installation /\ new \in Installation
  PROVE  WellFormed(Begun(step, plan, who, kind, new))
<1> DEFINE j == Begun(step, plan, who, kind, new)
<1>1. /\ j.step = step /\ j.plan = plan /\ j.who = who /\ j.new = new /\ j.at = 0
      /\ j \in Job
  BY DEF Begun, Job
<1> HIDE DEF j
<1>2. WellFormed(j) BY <1>1 DEF WellFormed
<1> QED BY <1>2 DEF j

\* One field of it after the other.
LEMMA BegunFields ==
  /\ Idle = Begun("idle", None, None, None, None)
  /\ \A s, p, w, k, n, x :
       /\ [Begun(s, p, w, k, n) EXCEPT !.step = x] = Begun(x, p, w, k, n)
       /\ [Begun(s, p, w, k, n) EXCEPT !.plan = x] = Begun(s, x, w, k, n)
       /\ [Begun(s, p, w, k, n) EXCEPT !.who = x] = Begun(s, p, x, k, n)
       /\ [Begun(s, p, w, k, n) EXCEPT !.kind = x] = Begun(s, p, w, x, n)
       /\ [Begun(s, p, w, k, n) EXCEPT !.new = x] = Begun(s, p, w, k, x)
<1>1. Idle = Begun("idle", None, None, None, None) BY DEF Idle, Begun
<1>2. ASSUME NEW s, NEW p, NEW w, NEW k, NEW n, NEW x
      PROVE  /\ [Begun(s, p, w, k, n) EXCEPT !.step = x] = Begun(x, p, w, k, n)
             /\ [Begun(s, p, w, k, n) EXCEPT !.plan = x] = Begun(s, x, w, k, n)
             /\ [Begun(s, p, w, k, n) EXCEPT !.who = x] = Begun(s, p, x, k, n)
             /\ [Begun(s, p, w, k, n) EXCEPT !.kind = x] = Begun(s, p, w, x, n)
             /\ [Begun(s, p, w, k, n) EXCEPT !.new = x] = Begun(s, p, w, k, x)
  <2>1. [Begun(s, p, w, k, n) EXCEPT !.step = x] = Begun(x, p, w, k, n) BY DEF Begun
  <2>2. [Begun(s, p, w, k, n) EXCEPT !.plan = x] = Begun(s, x, w, k, n) BY DEF Begun
  <2>3. [Begun(s, p, w, k, n) EXCEPT !.who = x] = Begun(s, p, x, k, n) BY DEF Begun
  <2>4. [Begun(s, p, w, k, n) EXCEPT !.kind = x] = Begun(s, p, w, x, n) BY DEF Begun
  <2>5. [Begun(s, p, w, k, n) EXCEPT !.new = x] = Begun(s, p, w, k, x) BY DEF Begun
  <2> QED BY <2>1, <2>2, <2>3, <2>4, <2>5
<1> QED BY <1>1, <1>2

\* As the code fills them in.
LEMMA BegunWithPlan ==
  ASSUME NEW s, NEW p
  PROVE  /\ [Idle EXCEPT !.step = s, !.plan = p] = Begun(s, p, None, None, None)
         /\ [Idle EXCEPT !.plan = p, !.step = s] = Begun(s, p, None, None, None)
<1>1. [Idle EXCEPT !.step = s] = Begun(s, None, None, None, None) BY BegunFields
<1>2. [Begun(s, None, None, None, None) EXCEPT !.plan = p] = Begun(s, p, None, None, None)
  BY BegunFields
<1>3. [Idle EXCEPT !.plan = p] = Begun("idle", p, None, None, None) BY BegunFields
<1>4. [Begun("idle", p, None, None, None) EXCEPT !.step = s] = Begun(s, p, None, None, None)
  BY BegunFields
<1> QED BY <1>1, <1>2, <1>3, <1>4

LEMMA BegunGate ==
  ASSUME NEW s, NEW p, NEW w, NEW k
  PROVE  [Idle EXCEPT !.plan = p, !.who = w, !.kind = k, !.step = s] = Begun(s, p, w, k, None)
<1>1. [Idle EXCEPT !.plan = p] = Begun("idle", p, None, None, None) BY BegunFields
<1>2. [Begun("idle", p, None, None, None) EXCEPT !.who = w] = Begun("idle", p, w, None, None)
  BY BegunFields
<1>3. [Begun("idle", p, w, None, None) EXCEPT !.kind = k] = Begun("idle", p, w, k, None)
  BY BegunFields
<1>4. [Begun("idle", p, w, k, None) EXCEPT !.step = s] = Begun(s, p, w, k, None)
  BY BegunFields
<1> QED BY <1>1, <1>2, <1>3, <1>4

LEMMA BegunMove ==
  ASSUME NEW m
  PROVE  [Idle EXCEPT !.step = "migrate", !.plan = m.plan, !.who = m.old, !.new = m.new]
           = Begun("migrate", m.plan, m.old, None, m.new)
<1> DEFINE p == m.plan
           w == m.old
           n == m.new
<1> HIDE DEF p, w, n
<1>1. [Idle EXCEPT !.step = "migrate", !.plan = p] = Begun("migrate", p, None, None, None)
  BY BegunWithPlan
<1>2. [Begun("migrate", p, None, None, None) EXCEPT !.who = w] = Begun("migrate", p, w, None, None)
  BY BegunFields
<1>3. [Begun("migrate", p, w, None, None) EXCEPT !.new = n] = Begun("migrate", p, w, None, n)
  BY BegunFields
<1>4. [Idle EXCEPT !.step = "migrate", !.plan = p, !.who = w, !.new = n]
        = Begun("migrate", p, w, None, n)
  BY <1>1, <1>2, <1>3
<1> QED BY <1>4 DEF p, w, n

LEMMA ActiveRosterOK == ASSUME NEW p PROVE ActiveRoster(p) \subseteq Installation
BY DEF ActiveRoster

LEMMA UpsertPlanOK ==
  ASSUME Typed, NEW h \in Handler, NEW row \in Row, job[h].plan \in Plan, UpsertPlan(h, row)
  PROVE  plans' \in [Plan -> Row \cup {None}] /\ graced' \in [Plan -> Instant]
<1>1. job[h].at \in Nat BY DEF Typed, RequestsOK, Job
<1> QED BY <1>1 DEF UpsertPlan, Typed, TablesOK, HistoryOK, Instant

\* The rows a request writes are rows.
LEMMA RefreshedOK ==
  ASSUME NEW row \in Row, NEW all, NEW t \in Nat
  PROVE  Refreshed(row, all, t) \in Row \cup {None}
<1>1. /\ row.state \in States /\ row.activeUse \in Instant
      /\ row.trialEnds \in Instant /\ row.graceEnds \in Instant
  BY DEF Row
<1>2. t + GraceDuration \in Instant /\ t + GraceDuration # None
  BY DurationAssumption, SentinelAssumption DEF Instant
<1>3. [row EXCEPT !.state = "active_paid", !.graceEnds = None] \in Row
  BY <1>1 DEF Row, States, Instant
<1>4. row.state = "active_trial" =>
        [row EXCEPT !.state = "delinquent_grace", !.graceEnds = t + GraceDuration] \in Row
  BY <1>1, <1>2 DEF Row, States
<1>5. row.state = "delinquent_grace" => [row EXCEPT !.state = "delinquent_readonly"] \in Row
  BY <1>1 DEF Row, States
<1> QED BY <1>3, <1>4, <1>5 DEF Refreshed

LEMMA FirstRowOK ==
  [state |-> "linked_not_active", activeUse |-> None, trialEnds |-> None, graceEnds |-> None]
    \in Row
BY DEF Row, States, Instant

LEMMA TypedInit == Init => Typed
<1> SUFFICES ASSUME Init PROVE Typed OBVIOUS
<1>1. TablesOK BY InputAssumption DEF Init, TablesOK
<1>2. RequestsOK BY IdleOK DEF Init, RequestsOK, WellFormed
<1>3. HistoryOK BY DEF Init, HistoryOK, Instant
<1> QED BY <1>1, <1>2, <1>3 DEF Typed

LEMMA TypedImpliesTypeOK == Typed /\ VerdictsOK /\ OvertakenOK => TypeOK
<1> SUFFICES ASSUME Typed, VerdictsOK, OvertakenOK PROVE TypeOK OBVIOUS
<1>1. \A h \in Handler : job[h] \in Job /\ WellFormed(job[h])
  BY DEF Typed, RequestsOK
<1>2. \A h \in Handler :
        job[h].step \in {"use_write", "refresh_write", "revoke_write"} => job[h].row # None
  BY <1>1, SentinelAssumption DEF WellFormed, HasRow
<1> QED BY <1>1, <1>2
  DEF Typed, VerdictsOK, OvertakenOK, TypeOK, TablesOK, HistoryOK, WellFormed, Job, Deciding

\* A request taken up has a plan, and nothing in hand.
LEMMA StartOK ==
  ASSUME Typed, NEW h \in Handler, Starts(h)
  PROVE  \E j : TakeUp(h, j) /\ WellFormed(j) /\ j.plan \in Plan /\ j.step \in First
<1>i. now \in Nat BY DEF Typed, TablesOK
<1>b. ASSUME NEW step \in First, NEW p \in Plan, NEW who \in Installation \cup {None},
             NEW kind \in Kind \cup {None}, NEW new \in Installation \cup {None},
             step = "migrate" => who \in Installation /\ new \in Installation,
             TakeUp(h, Begun(step, p, who, kind, new))
      PROVE  \E j : TakeUp(h, j) /\ WellFormed(j) /\ j.plan \in Plan /\ j.step \in First
  <2> DEFINE j == Begun(step, p, who, kind, new)
  <2>1. step \in Steps \ (HasRow \cup Deciding) BY DEF First, Steps, HasRow, Deciding
  <2>2. WellFormed(j) BY <1>i, <1>b, <2>1, BegunOK
  <2>3. j.plan = p /\ j.step = step BY DEF Begun
  <2>4. TakeUp(h, j) BY <1>b
  <2> HIDE DEF j
  <2> QED BY <2>2, <2>3, <2>4
<1>1. ASSUME NEW r \in RosterRequest, SetActiveRoster(h, r)
      PROVE  TakeUp(h, Begun("roster_plan", r.plan, None, None, None)) /\ r.plan \in Plan
  BY <1>1, InputAssumption, BegunWithPlan DEF SetActiveRoster
<1>2. ASSUME NEW p \in Plan, ReportActiveUse(h, p)
      PROVE  TakeUp(h, Begun("use_roster", p, None, None, None))
  BY <1>2, BegunWithPlan DEF ReportActiveUse
<1>3. ASSUME NEW r \in LicenseRequest, UpsertLicenseStatus(h, r)
      PROVE  /\ r.plan \in Plan
             /\ \/ TakeUp(h, Begun("revoke_plan", r.plan, None, None, None))
                \/ TakeUp(h, Begun("refresh_plan", r.plan, None, None, None))
  BY <1>3, InputAssumption, BegunWithPlan DEF UpsertLicenseStatus
<1>4. ASSUME NEW r \in GateRequest, Introspect(h, r)
      PROVE  /\ r.plan \in Plan /\ r.who \in Installation /\ r.kind \in Kind
             /\ \/ TakeUp(h, Begun("use_roster", r.plan, r.who, r.kind, None))
                \/ TakeUp(h, Begun("refresh_plan", r.plan, r.who, r.kind, None))
  <2> DEFINE step == IF r.kind = "propose" THEN "use_roster" ELSE "refresh_plan"
             j == [Idle EXCEPT !.plan = r.plan, !.who = r.who, !.kind = r.kind, !.step = step]
  <2>1. j = Begun(step, r.plan, r.who, r.kind, None) BY BegunGate
  <2>2. TakeUp(h, j) BY <1>4, Zenon DEF Introspect
  <2> HIDE DEF j
  <2>3. TakeUp(h, Begun(step, r.plan, r.who, r.kind, None)) BY <2>1, <2>2
  <2>4. step = "use_roster" \/ step = "refresh_plan" OBVIOUS
  <2> HIDE DEF step
  <2>5. r.plan \in Plan /\ r.who \in Installation /\ r.kind \in Kind
    BY InputAssumption DEF Kind
  <2> QED BY <2>3, <2>4, <2>5
<1>5. ASSUME NEW m \in Migration, MigrateReadRoster(h, m)
      PROVE  /\ m.plan \in Plan /\ m.old \in Installation /\ m.new \in Installation
             /\ TakeUp(h, Begun("migrate", m.plan, m.old, None, m.new))
  <2> DEFINE j == [Idle EXCEPT !.step = "migrate", !.plan = m.plan, !.who = m.old, !.new = m.new]
  <2>1. j = Begun("migrate", m.plan, m.old, None, m.new) BY BegunMove
  <2>2. TakeUp(h, j) BY <1>5, Zenon DEF MigrateReadRoster
  <2> HIDE DEF j
  <2>3. TakeUp(h, Begun("migrate", m.plan, m.old, None, m.new)) BY <2>1, <2>2
  <2> QED BY <2>3, InputAssumption
<1>6. CASE \E r \in RosterRequest : SetActiveRoster(h, r) BY <1>1, <1>6, <1>b DEF First
<1>7. CASE \E p \in Plan : ReportActiveUse(h, p) BY <1>2, <1>7, <1>b DEF First
<1>8. CASE \E r \in LicenseRequest : UpsertLicenseStatus(h, r) BY <1>3, <1>8, <1>b DEF First
<1>9. CASE \E r \in GateRequest : Introspect(h, r) BY <1>4, <1>9, <1>b DEF First
<1>10. CASE \E m \in Migration : MigrateReadRoster(h, m) BY <1>5, <1>10, <1>b DEF First
<1> QED BY <1>6, <1>7, <1>8, <1>9, <1>10 DEF Starts

\* The start of a request.
LEMMA TypedStart ==
  ASSUME Typed, NEW h \in Handler, Starts(h) PROVE Typed'
<1>1. PICK j : TakeUp(h, j) /\ WellFormed(j) BY StartOK
<1>2. job' = [job EXCEPT ![h] = j] BY <1>1 DEF TakeUp
<1>3. UNCHANGED <<now, registered, consumed, plans, history>>
  BY DEF Starts, SetActiveRoster, ReportActiveUse, UpsertLicenseStatus, Introspect,
         MigrateReadRoster, tables
<1>4. now' = now BY <1>3
<1>5. RequestsOK' BY <1>1, <1>2, <1>4, JobOK DEF Typed
<1>6. /\ rosters' \subseteq Plan \X Revision \X Installation
      /\ active' \in [Plan -> Revision \cup {None}]
      /\ license' \in [Plan -> [Installation -> {"active_paid", "unpaid", None}]]
  <2>1. CASE UNCHANGED gates BY <2>1 DEF Typed, TablesOK, gates
  <2>2. ASSUME NEW r \in RosterRequest, SetActiveRoster(h, r)
        PROVE  /\ rosters' \subseteq Plan \X Revision \X Installation
               /\ active' \in [Plan -> Revision \cup {None}] /\ UNCHANGED license
    <3>1. r.plan \in Plan /\ r.rev \in Revision /\ r.roster \subseteq Installation
      BY InputAssumption
    <3>2. {<<r.plan, r.rev, i>> : i \in r.roster} \subseteq Plan \X Revision \X Installation
      BY <3>1
    <3> QED BY <2>2, <3>1, <3>2 DEF SetActiveRoster, Typed, TablesOK
  <2>3. ASSUME NEW r \in LicenseRequest, UpsertLicenseStatus(h, r)
        PROVE  /\ license' \in [Plan -> [Installation -> {"active_paid", "unpaid", None}]]
               /\ UNCHANGED <<rosters, active>>
    <3>1. r.plan \in Plan /\ r.who \in Installation /\ r.state \in {"active_paid", "unpaid"}
      BY InputAssumption
    <3> QED BY <2>3, <3>1 DEF UpsertLicenseStatus, Typed, TablesOK
  <2> QED
    BY <2>1, <2>2, <2>3
    DEF Starts, ReportActiveUse, Introspect, MigrateReadRoster, tables, Typed, TablesOK
<1> QED BY <1>3, <1>5, <1>6 DEF Typed, TablesOK, HistoryOK, history, trials

\* What the steps of a request have in common.
LEMMA AtStep ==
  ASSUME Typed, NEW h \in Handler, ~At(h, "idle")
  PROVE  /\ job[h] \in Job /\ WellFormed(job[h])
         /\ job[h].plan \in Plan /\ job[h].at \in Nat /\ now \in Nat
BY DEF Typed, RequestsOK, TablesOK, WellFormed, Job, At

\* Steps that read the roster: who is in it, and when it was read.
LEMMA ReadRosterOK ==
  ASSUME Typed, NEW h \in Handler, ~At(h, "idle"), NEW step \in Steps, NEW roster,
         job' = [job EXCEPT ![h].step = step, ![h].roster = roster, ![h].at = now],
         now' = now, roster \subseteq Installation,
         step \in HasRow => job[h].row \in Row, step \notin Deciding, step # "migrate"
  PROVE  RequestsOK'
<1> DEFINE j == [job[h] EXCEPT !.step = step, !.roster = roster, !.at = now]
<1>1. job[h] \in Job /\ WellFormed(job[h]) /\ job[h].plan \in Plan /\ now \in Nat
  BY AtStep
<1>2. job' = [job EXCEPT ![h] = j] BY DEF Typed, RequestsOK
<1>3. /\ j \in Job /\ j.step = step /\ j.plan = job[h].plan /\ j.row = job[h].row
      /\ j.at = now
  BY <1>1 DEF Job
<1> HIDE DEF j
<1>4. WellFormed(j) BY <1>1, <1>3 DEF WellFormed
<1> QED BY <1>2, <1>4, JobOK DEF Typed

\* Steps that take a row in hand, or make one.
LEMMA TakeRowOK ==
  ASSUME Typed, NEW h \in Handler, ~At(h, "idle"), NEW step \in Steps, NEW row \in Row,
         job' = [job EXCEPT ![h].step = step, ![h].row = row],
         now' = now, step \in Deciding => job[h].kind # None, step # "migrate"
  PROVE  RequestsOK'
<1> DEFINE j == [job[h] EXCEPT !.step = step, !.row = row]
<1>1. job[h] \in Job /\ WellFormed(job[h]) /\ job[h].plan \in Plan /\ now \in Nat
  BY AtStep
<1>2. job' = [job EXCEPT ![h] = j] BY DEF Typed, RequestsOK
<1>3. /\ j \in Job /\ j.step = step /\ j.plan = job[h].plan /\ j.row = row
      /\ j.at = job[h].at /\ j.kind = job[h].kind
  BY <1>1 DEF Job
<1> HIDE DEF j
<1>4. WellFormed(j) BY <1>1, <1>3 DEF WellFormed
<1> QED BY <1>2, <1>4, JobOK DEF Typed

\* Reads: the tables and the history stay.
LEMMA Reads ==
  ASSUME Typed, UNCHANGED <<now, tables, history>>, RequestsOK'
  PROVE  Typed'
BY DEF Typed, TablesOK, HistoryOK, tables, gates, history, trials

LEMMA TypedUse ==
  ASSUME Typed, NEW h \in Handler, Use(h) PROVE Typed'
<1>0. ~At(h, "idle")
  BY DEF Use, UseReadRoster, UseReadPlan, UseReadConsumed, UseMark, UseWritePlan, At
<1>a. /\ job[h] \in Job /\ WellFormed(job[h]) /\ RequestsOK
      /\ job[h].plan \in Plan /\ job[h].at \in Nat /\ now \in Nat
  BY <1>0, AtStep DEF Typed
<1>1. CASE UseReadRoster(h)
  <2> DEFINE ids == ActiveRoster(job[h].plan)
  <2>1. ids \subseteq Installation BY ActiveRosterOK
  <2> HIDE DEF ids
  <2>2. \/ AfterUse(h)
        \/ job' = [job EXCEPT ![h].step = "use_plan", ![h].roster = ids, ![h].at = now]
    BY <1>1 DEF UseReadRoster, ids
  <2>3. UNCHANGED <<now, tables, history>> BY <1>1 DEF UseReadRoster
  <2>4. now' = now BY <2>3
  <2>5. RequestsOK'
    BY <1>0, <1>a, <2>1, <2>2, <2>4, AfterUseOK, ReadRosterOK DEF Steps, HasRow, Deciding
  <2> QED BY <2>3, <2>5, Reads
<1>2. CASE UseReadPlan(h)
  <2>1. UNCHANGED <<now, tables, history>> BY <1>2 DEF UseReadPlan
  <2>2. RequestsOK'
    BY <1>2, <1>a, <2>1, AfterUseOK, GotoOK DEF UseReadPlan, Steps, HasRow, Deciding
  <2> QED BY <2>1, <2>2, Reads
<1>3. CASE UseReadConsumed(h)
  <2> DEFINE j == job[h]
             grace == [state |-> "delinquent_grace", activeUse |-> j.at,
                       trialEnds |-> None, graceEnds |-> j.at + GraceDuration]
             trial == [state |-> "active_trial", activeUse |-> j.at,
                       trialEnds |-> j.at + TrialDuration, graceEnds |-> None]
  <2>1. UNCHANGED <<now, tables, person, departed, granted, graced, revoked>>
    BY <1>3 DEF UseReadConsumed
  <2>2. grace \in Row /\ trial \in Row
    BY <1>a, DurationAssumption, SentinelAssumption DEF Row, States, Instant
  <2>3. j.roster \subseteq Installation BY <1>a DEF Job
  <2>4. WellFormed([j EXCEPT !.step = "use_write", !.row = grace])
    BY <1>a, <2>2 DEF WellFormed, Job, Steps, HasRow, Deciding
  <2>5. WellFormed([j EXCEPT !.step = "use_mark", !.left = j.roster, !.row = trial])
    BY <1>a, <2>2, <2>3 DEF WellFormed, Job, Steps, HasRow, Deciding
  <2>6. \/ job' = [job EXCEPT ![h] = [j EXCEPT !.step = "use_write", !.row = grace]]
        \/ job' = [job EXCEPT ![h] = [j EXCEPT !.step = "use_mark", !.left = j.roster, !.row = trial]]
    BY <1>3, <1>a DEF UseReadConsumed, RequestsOK
  <2> DEFINE j1 == [j EXCEPT !.step = "use_write", !.row = grace]
             j2 == [j EXCEPT !.step = "use_mark", !.left = j.roster, !.row = trial]
  <2> HIDE DEF j1, j2
  <2>7. RequestsOK' BY <1>a, <2>1, <2>4, <2>5, <2>6, JobOK DEF j1, j2
  <2>8. Excused(h) \subseteq Installation
    BY <2>3 DEF Excused, Typed, HistoryOK
  <2>9. excused' \subseteq Installation
    BY <1>3, <2>8 DEF UseReadConsumed, Typed, HistoryOK
  <2> QED BY <2>1, <2>7, <2>9 DEF Typed, TablesOK, HistoryOK, tables, gates
<1>4. CASE UseMark(h)
  <2> PICK i \in job[h].left :
        /\ consumed' = consumed \cup ({i} \cap registered)
        /\ job' = [job EXCEPT ![h].left = @ \ {i},
                              ![h].step = IF job[h].left = {i} THEN "use_write" ELSE "use_mark"]
    BY <1>4 DEF UseMark
  <2> DEFINE step == IF job[h].left = {i} THEN "use_write" ELSE "use_mark"
             j == [job[h] EXCEPT !.left = @ \ {i}, !.step = step]
  <2>1. UNCHANGED <<now, registered, gates, plans, person, departed, granted, graced, revoked>>
    BY <1>4 DEF UseMark
  <2>6. excused' \subseteq Installation
    BY <1>4, <1>a DEF UseMark, Job, Typed, HistoryOK
  <2>2. job' = [job EXCEPT ![h] = j] BY <1>a DEF RequestsOK
  <2>3. At(h, "use_mark") BY <1>4 DEF UseMark
  <2>4. WellFormed(j) BY <1>a, <2>3 DEF At, WellFormed, Job, Steps, HasRow, Deciding
  <2> HIDE DEF j
  <2>5. RequestsOK' BY <1>a, <2>1, <2>2, <2>4, JobOK
  <2> QED BY <2>1, <2>5, <2>6 DEF Typed, TablesOK, HistoryOK, gates
<1>5. CASE UseWritePlan(h)
  <2>1. job[h].row \in Row BY <1>5, <1>a DEF UseWritePlan, At, WellFormed, HasRow
  <2>2. /\ plans' \in [Plan -> Row \cup {None}] /\ graced' \in [Plan -> Instant]
    BY <1>5, <1>a, <2>1, UpsertPlanOK DEF UseWritePlan
  <2>3. RequestsOK' BY <1>5, <1>a, AfterUseOK DEF UseWritePlan
  <2>4. job[h].roster \subseteq Installation BY <1>a DEF Job
  <2>5. {<<job[h].plan, person[i]>> : i \in job[h].roster} \subseteq Plan \X Installation
    BY <1>a, <2>4 DEF Typed, HistoryOK
  <2>6. granted' \subseteq Plan \X Installation
    BY <1>5, <2>5 DEF UseWritePlan, Typed, HistoryOK
  <2> QED BY <1>5, <2>2, <2>3, <2>6 DEF UseWritePlan, Typed, TablesOK, HistoryOK, gates
<1> QED BY <1>1, <1>2, <1>3, <1>4, <1>5 DEF Use

\* A step that writes the plan leaves the rest of the tables.
LEMMA WritesPlan ==
  ASSUME Typed, NEW h \in Handler, ~At(h, "idle"), NEW row \in Row, UpsertPlan(h, row),
         RequestsOK', UNCHANGED <<now, registered, consumed, gates, trials>>,
         revoked' \subseteq Plan
  PROVE  Typed'
<1>1. plans' \in [Plan -> Row \cup {None}] /\ graced' \in [Plan -> Instant]
  BY AtStep, UpsertPlanOK
<1> QED BY <1>1 DEF Typed, TablesOK, HistoryOK, gates, trials

LEMMA TypedRefresh ==
  ASSUME Typed, NEW h \in Handler, Refresh(h) PROVE Typed'
<1>0. ~At(h, "idle")
  BY DEF Refresh, RefreshReadPlan, RefreshReadRoster, RefreshReadPaid, RefreshWritePlan, At
<1>a. /\ job[h] \in Job /\ WellFormed(job[h]) /\ RequestsOK
      /\ job[h].plan \in Plan /\ job[h].at \in Nat /\ now \in Nat
  BY <1>0, AtStep DEF Typed
<1>1. CASE RefreshReadPlan(h)
  <2>1. UNCHANGED <<now, tables, history>> BY <1>1 DEF RefreshReadPlan
  <2>2. plans[job[h].plan] \in Row \cup {None} BY <1>a DEF Typed, TablesOK
  <2>3. RequestsOK'
    BY <1>0, <1>1, <1>a, <2>1, <2>2, AfterRefreshOK, TakeRowOK
    DEF RefreshReadPlan, Steps, Deciding
  <2> QED BY <2>1, <2>3, Reads
<1>2. CASE RefreshReadRoster(h)
  <2> DEFINE ids == ActiveRoster(job[h].plan)
  <2>1. ids \subseteq Installation BY ActiveRosterOK
  <2> HIDE DEF ids
  <2>2. \/ AfterRefresh(h)
        \/ job' = [job EXCEPT ![h].step = "refresh_paid", ![h].roster = ids, ![h].at = now]
    BY <1>2 DEF RefreshReadRoster, ids
  <2>3. UNCHANGED <<now, tables, history>> BY <1>2 DEF RefreshReadRoster
  <2>4. now' = now BY <2>3
  <2>5. job[h].row \in Row BY <1>2, <1>a DEF RefreshReadRoster, At, WellFormed, HasRow
  <2>6. RequestsOK'
    BY <1>0, <1>a, <2>1, <2>2, <2>4, <2>5, AfterRefreshOK, ReadRosterOK DEF Steps, Deciding
  <2> QED BY <2>3, <2>6, Reads
<1>3. CASE RefreshReadPaid(h)
  <2> DEFINE next == Refreshed(job[h].row, allParticipantsPaid(job[h].plan, job[h].roster),
                               job[h].at)
  <2>1. UNCHANGED <<now, tables, history>> BY <1>3 DEF RefreshReadPaid
  <2>2. job[h].row \in Row BY <1>3, <1>a DEF RefreshReadPaid, At, WellFormed, HasRow
  <2>3. next \in Row \cup {None} BY <1>a, <2>2, RefreshedOK
  <2>4. \/ next = None /\ AfterRefresh(h)
        \/ /\ next # None
           /\ job' = [job EXCEPT ![h].step = "refresh_write", ![h].row = next]
    BY <1>3 DEF RefreshReadPaid
  <2> HIDE DEF next
  <2>5. now' = now BY <2>1
  <2>6. RequestsOK'
    BY <1>0, <1>a, <2>3, <2>4, <2>5, AfterRefreshOK, TakeRowOK DEF Steps, Deciding
  <2> QED BY <2>1, <2>6, Reads
<1>4. CASE RefreshWritePlan(h)
  <2>1. job[h].row \in Row BY <1>4, <1>a DEF RefreshWritePlan, At, WellFormed, HasRow
  <2>2. RequestsOK' BY <1>4, <1>a, AfterRefreshOK DEF RefreshWritePlan
  <2>3. revoked' \subseteq Plan BY <1>4 DEF RefreshWritePlan, Typed, HistoryOK
  <2> QED BY <1>0, <1>4, <2>1, <2>2, <2>3, WritesPlan DEF RefreshWritePlan
<1> QED BY <1>1, <1>2, <1>3, <1>4 DEF Refresh

LEMMA TypedDecide ==
  ASSUME Typed, NEW h \in Handler, Decide(h) PROVE Typed'
<1>0. ~At(h, "idle") BY DEF Decide, DecideReadPlan, DecideReadRoster, DecideReadPaid, At
<1>a. /\ job[h] \in Job /\ WellFormed(job[h]) /\ RequestsOK
      /\ job[h].plan \in Plan /\ job[h].at \in Nat /\ now \in Nat
  BY <1>0, AtStep DEF Typed
<1>b. job[h].kind # None
  BY <1>a DEF Decide, DecideReadPlan, DecideReadRoster, DecideReadPaid, At, WellFormed, Deciding
<1>c. UNCHANGED <<now, tables, history>>
  BY DEF Decide, DecideReadPlan, DecideReadRoster, DecideReadPaid
<1>1. CASE DecideReadPlan(h)
  <2>1. plans[job[h].plan] \in Row \cup {None} BY <1>a DEF Typed, TablesOK
  <2>2. \/ Done(h)
        \/ /\ plans[job[h].plan] # None
           /\ job' = [job EXCEPT ![h].step = "decide_roster", ![h].row = plans[job[h].plan]]
    BY <1>1 DEF DecideReadPlan, Answer
  <2>3. now' = now BY <1>c
  <2> QED BY <1>0, <1>a, <1>b, <1>c, <2>1, <2>2, <2>3, DoneOK, TakeRowOK, Reads DEF Steps
<1>2. CASE DecideReadRoster(h)
  <2> DEFINE ids == ActiveRoster(job[h].plan)
             j == [job[h] EXCEPT !.step = "decide_paid", !.roster = ids]
  <2>1. ids \subseteq Installation BY ActiveRosterOK
  <2> HIDE DEF ids
  <2>2. Done(h) \/ job' = [job EXCEPT ![h].step = "decide_paid", ![h].roster = ids]
    BY <1>2 DEF DecideReadRoster, Answer, ids
  <2>3. now' = now BY <1>c
  <2>4. job[h].row \in Row BY <1>2, <1>a DEF DecideReadRoster, At, WellFormed, HasRow
  <2>5. WellFormed(j) BY <1>a, <1>b, <2>1, <2>4 DEF WellFormed, Job, Steps
  <2>6. Done(h) \/ job' = [job EXCEPT ![h] = j] BY <1>a, <2>2 DEF RequestsOK
  <2> HIDE DEF j
  <2> QED BY <1>a, <1>c, <2>3, <2>5, <2>6, DoneOK, JobOK, Reads
<1>3. CASE DecideReadPaid(h)
  BY <1>3, <1>a, <1>c, DoneOK, Reads DEF DecideReadPaid, Answer
<1> QED BY <1>1, <1>2, <1>3 DEF Decide

LEMMA TypedRoster ==
  ASSUME Typed, NEW h \in Handler,
         RosterReadPlan(h) \/ RosterWritePlan(h) \/ RevokeReadPlan(h) \/ RevokeWritePlan(h)
  PROVE  Typed'
<1>0. ~At(h, "idle")
  BY DEF RosterReadPlan, RosterWritePlan, RevokeReadPlan, RevokeWritePlan, At
<1>a. /\ job[h] \in Job /\ WellFormed(job[h]) /\ RequestsOK
      /\ job[h].plan \in Plan /\ job[h].at \in Nat /\ now \in Nat
  BY <1>0, AtStep DEF Typed
<1>1. CASE RosterReadPlan(h)
  <2>1. UNCHANGED <<now, tables, history>> BY <1>1 DEF RosterReadPlan
  <2>2. RequestsOK'
    BY <1>1, <1>a, <2>1, DoneOK, GotoOK DEF RosterReadPlan, Steps, HasRow, Deciding
  <2> QED BY <2>1, <2>2, Reads
<1>2. CASE RosterWritePlan(h)
  <2>1. RequestsOK' BY <1>2, <1>a, DoneOK DEF RosterWritePlan
  <2>2. revoked' \subseteq Plan BY <1>2 DEF RosterWritePlan, Typed, HistoryOK
  <2> QED BY <1>0, <1>2, <2>1, <2>2, FirstRowOK, WritesPlan DEF RosterWritePlan
<1>3. CASE RevokeReadPlan(h)
  <2> DEFINE plan == plans[job[h].plan]
             row == [plan EXCEPT !.state = "delinquent_readonly"]
  <2>1. UNCHANGED <<now, tables, history>> BY <1>3 DEF RevokeReadPlan
  <2>2. plan \in Row \cup {None} BY <1>a DEF Typed, TablesOK
  <2>3. plan # None /\ plan.activeUse # None => row \in Row BY <2>2 DEF Row, States
  <2>4. \/ Goto(h, "refresh_plan")
        \/ /\ plan # None /\ plan.activeUse # None
           /\ job' = [job EXCEPT ![h].step = "revoke_write", ![h].row = row]
    BY <1>3 DEF RevokeReadPlan
  <2> HIDE DEF row
  <2>5. now' = now BY <2>1
  <2>6. RequestsOK'
    BY <1>0, <1>a, <2>3, <2>4, <2>5, GotoOK, TakeRowOK DEF Steps, HasRow, Deciding
  <2> QED BY <2>1, <2>6, Reads
<1>4. CASE RevokeWritePlan(h)
  <2>1. job[h].row \in Row BY <1>4, <1>a DEF RevokeWritePlan, At, WellFormed, HasRow
  <2>2. RequestsOK' BY <1>4, <1>a, DoneOK DEF RevokeWritePlan
  <2>3. revoked' \subseteq Plan BY <1>4, <1>a DEF RevokeWritePlan, Typed, HistoryOK
  <2> QED BY <1>0, <1>4, <2>1, <2>2, <2>3, WritesPlan DEF RevokeWritePlan
<1> QED BY <1>1, <1>2, <1>3, <1>4

LEMMA TypedMigrate ==
  ASSUME Typed, NEW h \in Handler, MigrateCommit(h) PROVE Typed'
<1>0. ~At(h, "idle") BY DEF MigrateCommit, At
<1> DEFINE p == job[h].plan
           old == job[h].who
           new == job[h].new
<1>1. /\ p \in Plan /\ old \in Installation /\ new \in Installation /\ now \in Nat
  BY <1>0, AtStep DEF MigrateCommit, At, WellFormed
<1>2. RequestsOK' BY <1>1, DoneOK DEF MigrateCommit, Typed
<1> HIDE DEF p, old, new
<1>3. /\ rosters' = {IF row[1] = p /\ row[3] = old THEN <<p, row[2], new>> ELSE row :
                       row \in rosters}
      /\ license' = IF license[p][old] = None THEN license
                    ELSE [license EXCEPT ![p][old] = None, ![p][new] = license[p][old]]
      /\ registered' = (registered \cup {new}) \ {old}
      /\ consumed' = (IF old \in consumed THEN consumed \cup {new} ELSE consumed) \ {old}
      /\ person' = [person EXCEPT ![new] = person[old]]
      /\ departed' = (departed \ {new}) \cup {old}
      /\ excused' = excused \cup MoveExcuses(old, new)
      /\ UNCHANGED <<now, active, plans, granted, graced, revoked>>
  BY DEF MigrateCommit, p, old, new
<1>4. rosters' \subseteq Plan \X Revision \X Installation
  <2> SUFFICES ASSUME NEW row \in rosters
               PROVE  (IF row[1] = p /\ row[3] = old THEN <<p, row[2], new>> ELSE row)
                        \in Plan \X Revision \X Installation
    BY <1>3
  <2> QED BY <1>1 DEF Typed, TablesOK
<1>5. license' \in [Plan -> [Installation -> {"active_paid", "unpaid", None}]]
  BY <1>1, <1>3 DEF Typed, TablesOK
<1>6. registered' \subseteq Installation /\ consumed' \subseteq registered'
  BY <1>1, <1>3 DEF Typed, TablesOK
<1>7. /\ person' \in [Installation -> Installation]
      /\ departed' \subseteq Installation /\ excused' \subseteq Installation
  BY <1>1, <1>3 DEF Typed, HistoryOK, MoveExcuses
<1> QED BY <1>2, <1>3, <1>4, <1>5, <1>6, <1>7 DEF Typed, TablesOK, HistoryOK

LEMMA TypedStep == Typed /\ [Next]_vars => Typed'
<1> SUFFICES ASSUME Typed, [Next]_vars PROVE Typed' OBVIOUS
<1>a. now \in Nat BY DEF Typed, TablesOK
<1>1. CASE Tick
  <2>1. now' \in Nat /\ now <= now' /\ job' = job BY <1>1, <1>a DEF Tick
  <2>2. \A h \in Handler : WellFormed(job[h]) /\ job[h].at \in Nat
    BY DEF Typed, RequestsOK, Job
  <2>3. ASSUME NEW h \in Handler PROVE WellFormed(job[h])'
    BY <1>a, <2>1, <2>2 DEF WellFormed
  <2>4. RequestsOK' BY <2>1, <2>3 DEF Typed, RequestsOK
  <2> QED BY <1>1, <2>1, <2>4 DEF Tick, Typed, TablesOK, HistoryOK, tables, gates, history, trials
<1>2. ASSUME NEW i \in Installation, RegisterInstallation(i) PROVE Typed'
  <2>1. RequestsOK' BY <1>2 DEF RegisterInstallation, Typed, RequestsOK, WellFormed
  <2> QED BY <1>2, <2>1 DEF RegisterInstallation, Typed, TablesOK, HistoryOK, gates, history, trials
<1>3. ASSUME NEW h \in Handler, GiveUp(h) PROVE Typed'
  <2>1. UNCHANGED <<now, tables, history>> BY <1>3 DEF GiveUp
  <2>2. RequestsOK' BY <1>3, <1>a, DoneOK DEF GiveUp, Typed
  <2> QED BY <2>1, <2>2, Reads
<1>4. CASE UNCHANGED vars
  <2>1. RequestsOK' BY <1>4 DEF vars, Typed, RequestsOK, WellFormed
  <2>2. UNCHANGED <<now, tables, history>> BY <1>4 DEF vars
  <2> QED BY <2>1, <2>2, Reads
<1> QED
  BY <1>1, <1>2, <1>3, <1>4, TypedStart, TypedUse, TypedRefresh, TypedDecide, TypedRoster,
     TypedMigrate
  DEF Next, Starts

\* A question is answered yes or no.
LEMMA VerdictsStep == Typed /\ VerdictsOK /\ [Next]_vars => VerdictsOK'
<1> SUFFICES ASSUME Typed, VerdictsOK, [Next]_vars PROVE VerdictsOK' OBVIOUS
<1>1. CASE verdict' = verdict BY <1>1 DEF VerdictsOK
<1>2. ASSUME NEW h \in Handler, NEW request, TakeUp(h, request) PROVE VerdictsOK'
  BY <1>2 DEF TakeUp, VerdictsOK
<1>3. ASSUME NEW h \in Handler, NEW b \in BOOLEAN, Answer(h, b) PROVE VerdictsOK'
  BY <1>3 DEF Answer, VerdictsOK
<1>4. ASSUME NEW h \in Handler, DecideReadPlan(h) PROVE VerdictsOK'
  BY <1>1, <1>3, <1>4 DEF DecideReadPlan, isMutatingOperation
<1>5. ASSUME NEW h \in Handler, DecideReadRoster(h) PROVE VerdictsOK'
  BY <1>1, <1>3, <1>5 DEF DecideReadRoster
<1>6. ASSUME NEW h \in Handler, DecideReadPaid(h) PROVE VerdictsOK'
  <2>1. PICK b \in BOOLEAN : Answer(h, b) BY <1>6 DEF DecideReadPaid
  <2> QED BY <1>3, <2>1
<1>7. ASSUME NEW h \in Handler,
             \/ Use(h) \/ Refresh(h)
             \/ RosterReadPlan(h) \/ RosterWritePlan(h)
             \/ RevokeReadPlan(h) \/ RevokeWritePlan(h) \/ MigrateCommit(h) \/ GiveUp(h)
      PROVE  verdict' = verdict
  BY <1>7
  DEF Use, UseReadRoster, UseReadPlan, UseReadConsumed, UseMark, UseWritePlan,
      Refresh, RefreshReadPlan, RefreshReadRoster, RefreshReadPaid, RefreshWritePlan,
      RosterReadPlan, RosterWritePlan, RevokeReadPlan, RevokeWritePlan, MigrateCommit, GiveUp
<1>8. ASSUME NEW h \in Handler, Starts(h) PROVE VerdictsOK'
  <2>1. PICK request : TakeUp(h, request) BY <1>8, StartOK
  <2> QED BY <1>2, <2>1
<1>9. CASE Tick \/ (\E i \in Installation : RegisterInstallation(i)) \/ UNCHANGED vars
  BY <1>1, <1>9 DEF Tick, RegisterInstallation, vars
<1> QED BY <1>1, <1>4, <1>5, <1>6, <1>7, <1>8, <1>9 DEF Next, Decide, Starts

\* Only h's request moves.
OnlyMoves(h) == \A g \in Handler : g # h => job'[g] = job[g]

LEMMA Moves ==
  ASSUME Typed, NEW h \in Handler, NEW j, job' = [job EXCEPT ![h] = j]
  PROVE  OnlyMoves(h) /\ job'[h] = j
BY DEF Typed, RequestsOK, OnlyMoves

LEMMA GotoMoves ==
  ASSUME Typed, NEW h \in Handler, NEW step, Goto(h, step)
  PROVE  OnlyMoves(h) /\ job'[h] = [job[h] EXCEPT !.step = step] /\ job'[h].step = step
<1>1. job' = [job EXCEPT ![h] = [job[h] EXCEPT !.step = step]] BY DEF Goto
<1>2. job[h] \in Job BY DEF Typed, RequestsOK
<1>3. [job[h] EXCEPT !.step = step].step = step BY <1>2 DEF Job
<1> QED BY <1>1, <1>3, Moves

LEMMA GotoStep ==
  ASSUME Typed, NEW h \in Handler, NEW step, Goto(h, step)
  PROVE  OnlyMoves(h) /\ job'[h].step = step
BY GotoMoves

LEMMA DoneMoves ==
  ASSUME Typed, NEW h \in Handler, Done(h)
  PROVE  OnlyMoves(h) /\ job'[h] = Idle /\ job'[h].step = "idle"
<1>1. OnlyMoves(h) /\ job'[h] = Idle BY Moves DEF Done
<1> QED BY <1>1 DEF Idle

LEMMA AfterUseMoves ==
  ASSUME Typed, NEW h \in Handler, AfterUse(h)
  PROVE  OnlyMoves(h) /\ job'[h].step \in {"idle", "refresh_plan"}
BY DoneMoves, GotoMoves DEF AfterUse

LEMMA AfterRefreshMoves ==
  ASSUME Typed, NEW h \in Handler, AfterRefresh(h)
  PROVE  OnlyMoves(h) /\ job'[h].step \in {"idle", "decide_plan"}
BY DoneMoves, GotoMoves DEF AfterRefresh

LEMMA StartMoves ==
  ASSUME Typed, NEW h \in Handler, Starts(h)
  PROVE  /\ OnlyMoves(h) /\ At(h, "idle")
         /\ job'[h].plan \in Plan /\ job'[h].step \in First /\ verdict' = [verdict EXCEPT ![h] = None]
<1>1. PICK j : TakeUp(h, j) /\ j.plan \in Plan /\ j.step \in First BY StartOK
<1> QED BY <1>1, Moves DEF TakeUp

LEMMA ServeMoves ==
  ASSUME Typed, NEW h \in Handler, Serves(h) PROVE OnlyMoves(h)
<1>1. (\E step : Goto(h, step)) \/ Done(h) \/ AfterUse(h) \/ AfterRefresh(h) => OnlyMoves(h)
  BY GotoMoves, DoneMoves DEF AfterUse, AfterRefresh
<1>2. CASE Use(h)
  BY <1>1, <1>2
  DEF Use, UseReadRoster, UseReadPlan, UseReadConsumed, UseMark, UseWritePlan, OnlyMoves,
      Typed, RequestsOK
<1>3. CASE Refresh(h)
  BY <1>1, <1>3
  DEF Refresh, RefreshReadPlan, RefreshReadRoster, RefreshReadPaid, RefreshWritePlan, OnlyMoves,
      Typed, RequestsOK
<1>4. CASE Decide(h)
  BY <1>1, <1>4
  DEF Decide, DecideReadPlan, DecideReadRoster, DecideReadPaid, Answer, OnlyMoves,
      Typed, RequestsOK
<1>5. CASE RevokeReadPlan(h)
  BY <1>1, <1>5 DEF RevokeReadPlan, OnlyMoves, Typed, RequestsOK
<1> QED
  BY <1>1, <1>2, <1>3, <1>4, <1>5
  DEF Serves, RosterReadPlan, RosterWritePlan, RevokeWritePlan, MigrateCommit, GiveUp

\* Whoever changes what a plan's requests go by overtakes them.
LEMMA StartOvertakes ==
  ASSUME Typed, NEW h \in Handler, Starts(h)
  PROVE  \/ overtaken' = overtaken /\ UNCHANGED <<gates, plans>>
         \/ Overtakes(h, job'[h].plan)
<1>1. ASSUME NEW r, SetActiveRoster(h, r) PROVE Overtakes(h, job'[h].plan)
  <2>1. job'[h] = [Idle EXCEPT !.step = "roster_plan", !.plan = r.plan]
    BY <1>1, Moves DEF SetActiveRoster, TakeUp
  <2>2. job'[h].plan = r.plan BY <2>1 DEF Idle
  <2> QED BY <1>1, <2>2 DEF SetActiveRoster
<1>2. ASSUME NEW r, UpsertLicenseStatus(h, r) PROVE Overtakes(h, job'[h].plan)
  <2> DEFINE step == IF r.revoke /\ r.state = "unpaid" THEN "revoke_plan" ELSE "refresh_plan"
  <2>1. job'[h] = [Idle EXCEPT !.plan = r.plan, !.step = step]
    BY <1>2, Moves DEF UpsertLicenseStatus, TakeUp
  <2>2. job'[h].plan = r.plan BY <2>1 DEF Idle
  <2> QED BY <1>2, <2>2 DEF UpsertLicenseStatus
<1> QED BY <1>1, <1>2 DEF Starts, ReportActiveUse, Introspect, MigrateReadRoster, tables

LEMMA ServeOvertakes ==
  ASSUME Typed, NEW h \in Handler, Serves(h)
  PROVE  /\ ~At(h, "idle")
         /\ \/ Overtakes(h, job[h].plan) /\ job[h].step # "idle"
            \/ UNCHANGED <<gates, plans>> /\ Afresh(h)
            \/ /\ UNCHANGED <<gates, plans>> /\ overtaken' = overtaken
               /\ job[h].step \notin InHand \/ job'[h].step \in InHand
<1>a. job[h] \in Job BY DEF Typed, RequestsOK
<1>c. ASSUME NEW step, NEW row, job' = [job EXCEPT ![h].step = step, ![h].row = row]
      PROVE  job'[h].step = step
  <2> DEFINE j == [job[h] EXCEPT !.step = step, !.row = row]
  <2>1. job' = [job EXCEPT ![h] = j] BY <1>c DEF Typed, RequestsOK
  <2>2. j.step = step BY <1>a DEF Job
  <2> QED BY <2>1, <2>2, Moves
<1>1. CASE RosterReadPlan(h) BY <1>1 DEF RosterReadPlan, tables, At
<1>2. CASE RosterWritePlan(h) BY <1>2 DEF RosterWritePlan, UpsertPlan, At
<1>3. CASE UseReadRoster(h) BY <1>3 DEF UseReadRoster, tables, At, InHand
<1>4. CASE UseReadPlan(h) BY <1>4 DEF UseReadPlan, tables, At
<1>5. CASE UseReadConsumed(h)
  <2> DEFINE j == job[h]
             grace == [j EXCEPT !.step = "use_write",
                                !.row = [state |-> "delinquent_grace", activeUse |-> j.at,
                                         trialEnds |-> None,
                                         graceEnds |-> j.at + GraceDuration]]
             trial == [j EXCEPT !.step = "use_mark", !.left = j.roster,
                                !.row = [state |-> "active_trial", activeUse |-> j.at,
                                         trialEnds |-> j.at + TrialDuration,
                                         graceEnds |-> None]]
  <2>1. job' = [job EXCEPT ![h] = grace] \/ job' = [job EXCEPT ![h] = trial]
    BY <1>5 DEF UseReadConsumed, Typed, RequestsOK
  <2>2. grace.step \in InHand /\ trial.step \in InHand BY <1>a DEF Job, InHand
  <2> HIDE DEF grace, trial
  <2>3. job'[h] = grace \/ job'[h] = trial
    <3>1. CASE job' = [job EXCEPT ![h] = grace] BY <3>1, Moves
    <3>2. CASE job' = [job EXCEPT ![h] = trial] BY <3>2, Moves
    <3> QED BY <2>1, <3>1, <3>2
  <2> QED BY <1>5, <2>2, <2>3 DEF UseReadConsumed, tables, At
<1>6. CASE UseMark(h)
  <2> PICK i \in job[h].left :
        job' = [job EXCEPT ![h].left = @ \ {i},
                           ![h].step = IF job[h].left = {i} THEN "use_write" ELSE "use_mark"]
    BY <1>6 DEF UseMark
  <2> DEFINE step == IF job[h].left = {i} THEN "use_write" ELSE "use_mark"
             j == [job[h] EXCEPT !.left = @ \ {i}, !.step = step]
  <2>1. job' = [job EXCEPT ![h] = j] BY DEF Typed, RequestsOK
  <2>2. j.step = step BY <1>a DEF Job
  <2>3. step \in InHand BY DEF InHand
  <2> HIDE DEF j, step
  <2>4. job'[h].step \in InHand BY <2>1, <2>2, <2>3, Moves
  <2> QED BY <1>6, <2>4 DEF UseMark, At
<1>7. CASE UseWritePlan(h) BY <1>7 DEF UseWritePlan, UpsertPlan, At
<1>8. CASE RefreshReadPlan(h) BY <1>8 DEF RefreshReadPlan, tables, At
<1>9. CASE RefreshReadRoster(h)
  <2> DEFINE ids == ActiveRoster(job[h].plan)
             j == [job[h] EXCEPT !.step = "refresh_paid", !.roster = ids, !.at = now]
  <2>1. Afresh(h) \/ (overtaken' = overtaken /\ job' = [job EXCEPT ![h] = j])
    BY <1>9 DEF RefreshReadRoster, Typed, RequestsOK
  <2>2. j.step \in InHand BY <1>a DEF Job, InHand
  <2> HIDE DEF j
  <2>3. Afresh(h) \/ (overtaken' = overtaken /\ job'[h].step \in InHand)
    BY <2>1, <2>2, Moves
  <2> QED BY <1>9, <2>3 DEF RefreshReadRoster, tables, At
<1>10. CASE RefreshReadPaid(h)
  BY <1>10, <1>c DEF RefreshReadPaid, tables, At, InHand
<1>11. CASE RefreshWritePlan(h) BY <1>11 DEF RefreshWritePlan, UpsertPlan, At
<1>12. CASE DecideReadPlan(h) BY <1>12 DEF DecideReadPlan, Answer, tables, At
<1>13. CASE DecideReadRoster(h)
  <2> DEFINE ids == ActiveRoster(job[h].plan)
             j == [job[h] EXCEPT !.step = "decide_paid", !.roster = ids]
  <2>1. Afresh(h) \/ (overtaken' = overtaken /\ job' = [job EXCEPT ![h] = j])
    BY <1>13 DEF DecideReadRoster, Answer, Typed, RequestsOK
  <2>2. j.step \in InHand BY <1>a DEF Job, InHand
  <2> HIDE DEF j
  <2>3. Afresh(h) \/ (overtaken' = overtaken /\ job'[h].step \in InHand)
    BY <2>1, <2>2, Moves
  <2> QED BY <1>13, <2>3 DEF DecideReadRoster, tables, At
<1>14. CASE DecideReadPaid(h) BY <1>14 DEF DecideReadPaid, Answer, tables, At
<1>15. CASE RevokeReadPlan(h) BY <1>15 DEF RevokeReadPlan, tables, At
<1>16. CASE RevokeWritePlan(h) BY <1>16 DEF RevokeWritePlan, UpsertPlan, At
<1>17. CASE MigrateCommit(h) BY <1>17 DEF MigrateCommit, At
<1>18. CASE GiveUp(h) BY <1>18 DEF GiveUp, tables, At
<1> QED
  BY <1>1, <1>2, <1>3, <1>4, <1>5, <1>6, <1>7, <1>8, <1>9, <1>10, <1>11, <1>12, <1>13, <1>14,
     <1>15, <1>16, <1>17, <1>18
  DEF Serves, Use, Refresh, Decide

\* Only a request that has something in hand can be overtaken.
LEMMA OvertakenKept == Typed /\ OvertakenOK /\ [Next]_vars => OvertakenOK'
<1> SUFFICES ASSUME Typed, OvertakenOK, [Next]_vars PROVE OvertakenOK' OBVIOUS
<1>1. ASSUME NEW h \in Handler, OnlyMoves(h), NEW p, Overtakes(h, p) PROVE OvertakenOK'
  BY <1>1 DEF OvertakenOK, OnlyMoves, Overtakes
<1>2. ASSUME NEW h \in Handler, OnlyMoves(h), Afresh(h) PROVE OvertakenOK'
  BY <1>2 DEF OvertakenOK, OnlyMoves, Afresh
<1>3. ASSUME NEW h \in Handler, OnlyMoves(h), overtaken' = overtaken,
             job[h].step \notin InHand \/ job'[h].step \in InHand
      PROVE  OvertakenOK'
  BY <1>3 DEF OvertakenOK, OnlyMoves
<1>4. ASSUME NEW h \in Handler, Starts(h) PROVE OvertakenOK'
  <2>1. job[h].step \notin InHand BY <1>4, StartMoves DEF At, InHand
  <2> QED BY <1>1, <1>3, <1>4, <2>1, StartMoves, StartOvertakes
<1>5. ASSUME NEW h \in Handler, Serves(h) PROVE OvertakenOK'
  BY <1>1, <1>2, <1>3, <1>5, ServeMoves, ServeOvertakes
<1>6. CASE UNCHANGED <<job, overtaken>> BY <1>6 DEF OvertakenOK
<1>7. CASE Tick \/ (\E i \in Installation : RegisterInstallation(i)) \/ UNCHANGED vars
  BY <1>6, <1>7 DEF Tick, RegisterInstallation, vars
<1> QED BY <1>4, <1>5, <1>7 DEF Next, Starts, Serves

\* The tables, the requests and the history have their types, a plan's row says
\* of its dates what its state needs, whatever requests interleave between their
\* statements (housing.go over store.go).
THEOREM TypeCorrect == Spec => []TypeOK
<1>1. Init => Typed /\ VerdictsOK /\ OvertakenOK
  BY TypedInit DEF Init, VerdictsOK, OvertakenOK
<1>2. Typed /\ VerdictsOK /\ OvertakenOK /\ [Next]_vars => (Typed /\ VerdictsOK /\ OvertakenOK)'
  BY TypedStep, VerdictsStep, OvertakenKept
<1>3. Spec => [](Typed /\ VerdictsOK /\ OvertakenOK) BY <1>1, <1>2, PTL DEF Spec
<1> QED BY <1>3, TypedImpliesTypeOK, PTL

------------------------------------------------------------------------------
(* Grace before read-only *)

\* Steps GraceInHand says something about.
Guarded == {"refresh_roster", "refresh_paid", "refresh_write", "use_mark", "use_write",
            "revoke_write"}

\* The history's first grace period only moves back.
LEMMA GracedIsEarlier ==
  ASSUME Typed, NEW h \in Handler, ~At(h, "idle"), NEW row, UpsertPlan(h, row), NEW p \in Plan
  PROVE  /\ graced[p] # None => graced'[p] # None /\ graced'[p] <= graced[p]
         /\ p = job[h].plan /\ row.state = "delinquent_grace" =>
              graced'[p] # None /\ graced'[p] <= job[h].at
<1>1. job[h].at \in Nat /\ job[h].plan \in Plan BY AtStep
<1>2. graced \in [Plan -> Nat \cup {None}] BY DEF Typed, HistoryOK, Instant
<1>3. job[h].at # None BY <1>1, SentinelAssumption
<1> QED BY <1>1, <1>2, <1>3 DEF UpsertPlan

LEMMA NoticedStays ==
  ASSUME NEW p, NEW row \in Row, Noticed(p, row),
         graced[p] \in Instant, graced'[p] \in Instant,
         graced[p] # None => graced'[p] # None /\ graced'[p] <= graced[p]
  PROVE  Noticed(p, row)'
<1>1. row.graceEnds # None => row.graceEnds \in Nat BY DEF Row, Instant
<1> QED BY <1>1, DurationAssumption DEF Noticed, Instant

LEMMA ServedStays ==
  ASSUME NEW p, Served(p), now \in Nat, now' \in Nat, now <= now',
         graced[p] \in Instant, graced'[p] \in Instant,
         graced[p] # None => graced'[p] # None /\ graced'[p] <= graced[p]
  PROVE  Served(p)'
BY DurationAssumption DEF Served, Instant

\* A step that writes no plan.
LEMMA GraceStays ==
  ASSUME GraceInv, NEW h \in Handler, OnlyMoves(h),
         UNCHANGED <<now, plans, graced, revoked>>, GraceInHand(job'[h])
  PROVE  GraceInv'
<1>1. ASSUME NEW g \in Handler PROVE GraceInHand(job[g])'
  <2>1. GraceInHand(job'[g]) BY DEF OnlyMoves, GraceInv
  <2> QED BY <2>1 DEF GraceInHand, Noticed, Counted, Served
<1> QED BY <1>1 DEF GraceInv, GraceComesFirst, Noticed

\* ... and goes to a step that has no row to write.
LEMMA GraceUnguarded ==
  ASSUME GraceInv, NEW h \in Handler, OnlyMoves(h),
         UNCHANGED <<now, plans, graced, revoked>>, job'[h].step \notin Guarded
  PROVE  GraceInv'
<1>1. GraceInHand(job'[h]) BY DEF GraceInHand, Guarded
<1> QED BY <1>1, GraceStays

\* A step that writes a plan: what it writes opens a grace period counted from
\* its reading, or is read-only for a reason.
LEMMA GraceWrites ==
  ASSUME Typed, Typed', GraceInv, NEW h \in Handler, ~At(h, "idle"), OnlyMoves(h),
         NEW row \in Row, UpsertPlan(h, row), now' = now, revoked \subseteq revoked',
         row.state = "delinquent_grace" =>
           row.graceEnds = None \/ row.graceEnds = job[h].at + GraceDuration,
         row.state = "delinquent_readonly" => job[h].plan \in revoked' \/ Served(job[h].plan),
         job'[h].step \notin Guarded
  PROVE  GraceInv'
<1> DEFINE q == job[h].plan
<1>1. /\ q \in Plan /\ job[h].at \in Nat /\ now \in Nat /\ now' \in Nat /\ now <= now'
  BY AtStep
<1>2. \A p \in Plan : /\ graced[p] \in Instant /\ graced'[p] \in Instant
                      /\ graced[p] # None => graced'[p] # None /\ graced'[p] <= graced[p]
  BY GracedIsEarlier DEF Typed, HistoryOK
<1>3. row.state = "delinquent_grace" => graced'[q] # None /\ graced'[q] <= job[h].at
  BY <1>1, GracedIsEarlier
<1>4. plans' = [plans EXCEPT ![q] = row] BY DEF UpsertPlan
<1>5. plans \in [Plan -> Row \cup {None}] BY DEF Typed, TablesOK
<1>6. ASSUME NEW p \in Plan, plans'[p] # None PROVE Noticed(p, plans[p])'
  <2>1. CASE p = q
    <3>1. plans'[p] = row BY <1>4, <1>5, <2>1
    <3> HIDE DEF q
    <3> QED BY <1>1, <1>2, <1>3, <2>1, <3>1, DurationAssumption DEF Noticed, Instant, q
  <2>2. CASE p # q
    <3>1. plans'[p] = plans[p] /\ plans[p] \in Row BY <1>4, <1>5, <1>6, <2>2
    <3>2. Noticed(p, plans[p]) BY <1>6, <3>1 DEF GraceInv
    <3> QED BY <1>2, <3>1, <3>2, NoticedStays DEF Noticed
  <2> QED BY <2>1, <2>2
<1>7. ASSUME NEW g \in Handler PROVE GraceInHand(job[g])'
  <2>1. CASE g = h BY <2>1 DEF GraceInHand, Guarded
  <2>2. CASE g # h
    <3>1. job'[g] = job[g] /\ GraceInHand(job[g]) BY <2>2 DEF OnlyMoves, GraceInv
    <3>2. WellFormed(job[g]) BY DEF Typed, RequestsOK
    <3>3. job[g].step \in {"refresh_roster", "refresh_paid"} => Noticed(job[g].plan, job[g].row)'
      <4>1. SUFFICES ASSUME job[g].step \in {"refresh_roster", "refresh_paid"}
                     PROVE  Noticed(job[g].plan, job[g].row)'
        OBVIOUS
      <4>2. job[g].plan \in Plan /\ job[g].row \in Row BY <3>2, <4>1 DEF WellFormed, HasRow
      <4>3. Noticed(job[g].plan, job[g].row) BY <3>1, <4>1 DEF GraceInHand
      <4> QED BY <1>2, <3>1, <4>2, <4>3, NoticedStays DEF Noticed
    <3>4. job[g].step = "refresh_write" /\ job[g].row.state = "delinquent_readonly"
            => Served(job[g].plan)'
      <4>1. SUFFICES ASSUME job[g].step = "refresh_write",
                            job[g].row.state = "delinquent_readonly"
                     PROVE  Served(job[g].plan)'
        OBVIOUS
      <4>2. job[g].plan \in Plan BY <3>2, <4>1 DEF WellFormed
      <4>3. Served(job[g].plan) BY <3>1, <4>1 DEF GraceInHand
      <4> QED BY <1>1, <1>2, <3>1, <4>2, <4>3, ServedStays DEF Served
    <3> QED BY <3>1, <3>3, <3>4 DEF GraceInHand, Counted
  <2> QED BY <2>1, <2>2
<1>8. ASSUME NEW p \in Plan, plans'[p] # None, plans'[p].state = "delinquent_readonly"
      PROVE  p \in revoked' \/ Served(p)'
  <2>1. p \in revoked' \/ Served(p)
    BY <1>4, <1>5, <1>8 DEF GraceInv, GraceComesFirst, Served
  <2> QED BY <1>1, <1>2, <2>1, ServedStays
<1> QED BY <1>6, <1>7, <1>8 DEF GraceInv, GraceComesFirst, Served

LEMMA GraceInit == Init => GraceInv
<1> SUFFICES ASSUME Init PROVE GraceInv OBVIOUS
<1>1. \A h \in Handler : GraceInHand(job[h]) BY DEF Init, Idle, GraceInHand
<1> QED BY <1>1 DEF Init, GraceInv, GraceComesFirst

\* Requests begin without a row in hand.
LEMMA GraceStart ==
  ASSUME Typed, GraceInv, NEW h \in Handler, Starts(h) PROVE GraceInv'
<1>1. UNCHANGED <<now, plans, graced, revoked>>
  BY DEF Starts, SetActiveRoster, ReportActiveUse, UpsertLicenseStatus, Introspect,
         MigrateReadRoster, tables, history, trials
<1>2. PICK j : TakeUp(h, j) /\ j.step \in First BY StartOK
<1>3. OnlyMoves(h) /\ job'[h] = j BY <1>2, Moves DEF TakeUp
<1> QED BY <1>1, <1>2, <1>3, GraceUnguarded DEF First, Guarded

LEMMA GraceUse ==
  ASSUME Typed, Typed', GraceInv, NEW h \in Handler, Use(h) PROVE GraceInv'
<1>0. ~At(h, "idle")
  BY DEF Use, UseReadRoster, UseReadPlan, UseReadConsumed, UseMark, UseWritePlan, At
<1>a. job[h] \in Job /\ job[h].at \in Nat /\ GraceInHand(job[h]) BY <1>0, AtStep DEF GraceInv
<1>1. CASE UseReadRoster(h)
  <2> DEFINE ids == ActiveRoster(job[h].plan)
             j == [job[h] EXCEPT !.step = "use_plan", !.roster = ids, !.at = now]
  <2>1. AfterUse(h) \/ job' = [job EXCEPT ![h] = j]
    BY <1>1, <1>a DEF UseReadRoster, Typed, RequestsOK
  <2>2. j.step = "use_plan" BY <1>a DEF Job
  <2> HIDE DEF j
  <2>3. OnlyMoves(h) /\ job'[h].step \notin Guarded
    BY <2>1, <2>2, Moves, AfterUseMoves DEF Guarded
  <2>4. UNCHANGED <<now, plans, graced, revoked>> BY <1>1 DEF UseReadRoster, tables, history, trials
  <2> QED BY <2>3, <2>4, GraceUnguarded
<1>2. CASE UseReadPlan(h)
  <2>a. AfterUse(h) \/ Goto(h, "use_consumed") BY <1>2 DEF UseReadPlan
  <2>1. OnlyMoves(h) /\ job'[h].step \notin Guarded
    <3>1. CASE Goto(h, "use_consumed") BY <3>1, GotoStep DEF Guarded
    <3>2. CASE AfterUse(h) BY <3>2, AfterUseMoves DEF Guarded
    <3> QED BY <2>a, <3>1, <3>2
  <2>2. UNCHANGED <<now, plans, graced, revoked>> BY <1>2 DEF UseReadPlan, tables, history, trials
  <2> QED BY <2>1, <2>2, GraceUnguarded
<1>3. CASE UseReadConsumed(h)
  <2> DEFINE j == job[h]
             grace == [j EXCEPT !.step = "use_write",
                                !.row = [state |-> "delinquent_grace", activeUse |-> j.at,
                                         trialEnds |-> None,
                                         graceEnds |-> j.at + GraceDuration]]
             trial == [j EXCEPT !.step = "use_mark", !.left = j.roster,
                                !.row = [state |-> "active_trial", activeUse |-> j.at,
                                         trialEnds |-> j.at + TrialDuration,
                                         graceEnds |-> None]]
  <2>1. job' = [job EXCEPT ![h] = grace] \/ job' = [job EXCEPT ![h] = trial]
    BY <1>3 DEF UseReadConsumed
  <2>2. GraceInHand(grace) /\ GraceInHand(trial) BY <1>a DEF Job, GraceInHand, Counted
  <2> HIDE DEF grace, trial
  <2>3. OnlyMoves(h) /\ GraceInHand(job'[h])
    <3>1. CASE job' = [job EXCEPT ![h] = grace]
      BY <2>2, <3>1, Moves
    <3>2. CASE job' = [job EXCEPT ![h] = trial]
      BY <2>2, <3>2, Moves
    <3> QED BY <2>1, <3>1, <3>2
  <2>4. UNCHANGED <<now, plans, graced, revoked>> BY <1>3 DEF UseReadConsumed, tables, history, trials
  <2> QED BY <2>3, <2>4, GraceStays
<1>4. CASE UseMark(h)
  <2> PICK i \in job[h].left :
        job' = [job EXCEPT ![h].left = @ \ {i},
                           ![h].step = IF job[h].left = {i} THEN "use_write" ELSE "use_mark"]
    BY <1>4 DEF UseMark
  <2> DEFINE step == IF job[h].left = {i} THEN "use_write" ELSE "use_mark"
             j == [job[h] EXCEPT !.left = @ \ {i}, !.step = step]
  <2>1. job' = [job EXCEPT ![h] = j] BY DEF Typed, RequestsOK
  <2>2. j.step = step /\ j.row = job[h].row /\ j.at = job[h].at BY <1>a DEF Job
  <2>3. job[h].step = "use_mark" BY <1>4 DEF UseMark, At
  <2> HIDE DEF j
  <2>4. GraceInHand(j) BY <1>a, <2>2, <2>3 DEF GraceInHand, Counted
  <2>5. OnlyMoves(h) /\ GraceInHand(job'[h]) BY <2>1, <2>4, Moves
  <2>6. UNCHANGED <<now, plans, graced, revoked>> BY <1>4 DEF UseMark, history, trials
  <2> QED BY <2>5, <2>6, GraceStays
<1>5. CASE UseWritePlan(h)
  <2>1. job[h].step = "use_write" BY <1>5 DEF UseWritePlan, At
  <2>2. /\ job[h].row.state \in {"active_trial", "delinquent_grace"}
        /\ Counted(job[h])
    BY <1>a, <2>1 DEF GraceInHand
  <2>3. job[h].row \in Row BY <1>0, <2>1, AtStep DEF WellFormed, HasRow
  <2>4. OnlyMoves(h) /\ job'[h].step \notin Guarded
    BY <1>5, AfterUseMoves DEF UseWritePlan, Guarded
  <2>5. UpsertPlan(h, job[h].row) /\ now' = now /\ revoked' = revoked BY <1>5 DEF UseWritePlan
  <2> QED BY <1>0, <2>2, <2>3, <2>4, <2>5, GraceWrites DEF Counted
<1> QED BY <1>1, <1>2, <1>3, <1>4, <1>5 DEF Use

LEMMA GraceRefresh ==
  ASSUME Typed, Typed', GraceInv, NEW h \in Handler, Refresh(h) PROVE GraceInv'
<1>0. ~At(h, "idle")
  BY DEF Refresh, RefreshReadPlan, RefreshReadRoster, RefreshReadPaid, RefreshWritePlan, At
<1>a. /\ job[h] \in Job /\ job[h].at \in Nat /\ job[h].plan \in Plan /\ job[h].at <= now
      /\ now \in Nat /\ WellFormed(job[h]) /\ GraceInHand(job[h])
  BY <1>0, AtStep DEF GraceInv, WellFormed
<1>1. CASE RefreshReadPlan(h)
  <2> DEFINE plan == plans[job[h].plan]
             j == [job[h] EXCEPT !.step = "refresh_roster", !.row = plan]
  <2>1. AfterRefresh(h) \/ (plan # None /\ job' = [job EXCEPT ![h] = j])
    BY <1>1, <1>a DEF RefreshReadPlan, Typed, RequestsOK
  <2>2. plan # None => Noticed(job[h].plan, plan) BY <1>a DEF GraceInv
  <2>3. j.step = "refresh_roster" /\ j.row = plan /\ j.plan = job[h].plan BY <1>a DEF Job
  <2> HIDE DEF j, plan
  <2>4. UNCHANGED <<now, plans, graced, revoked>> BY <1>1 DEF RefreshReadPlan, tables, history, trials
  <2>5. CASE AfterRefresh(h)
    BY <2>4, <2>5, AfterRefreshMoves, GraceUnguarded DEF Guarded
  <2>6. CASE plan # None /\ job' = [job EXCEPT ![h] = j]
    <3>1. GraceInHand(j) BY <2>2, <2>3, <2>6 DEF GraceInHand
    <3>2. OnlyMoves(h) /\ GraceInHand(job'[h]) BY <2>6, <3>1, Moves
    <3> QED BY <2>4, <3>2, GraceStays
  <2> QED BY <2>1, <2>5, <2>6
<1>2. CASE RefreshReadRoster(h)
  <2> DEFINE ids == ActiveRoster(job[h].plan)
             j == [job[h] EXCEPT !.step = "refresh_paid", !.roster = ids, !.at = now]
  <2>1. AfterRefresh(h) \/ job' = [job EXCEPT ![h] = j]
    BY <1>2, <1>a DEF RefreshReadRoster, Typed, RequestsOK
  <2>2. j.step = "refresh_paid" /\ j.row = job[h].row /\ j.plan = job[h].plan BY <1>a DEF Job
  <2>3. job[h].step = "refresh_roster" BY <1>2 DEF RefreshReadRoster, At
  <2> HIDE DEF j
  <2>4. UNCHANGED <<now, plans, graced, revoked>> BY <1>2 DEF RefreshReadRoster, tables, history, trials
  <2>5. CASE AfterRefresh(h)
    BY <2>4, <2>5, AfterRefreshMoves, GraceUnguarded DEF Guarded
  <2>6. CASE job' = [job EXCEPT ![h] = j]
    <3>1. GraceInHand(j) BY <1>a, <2>2, <2>3 DEF GraceInHand
    <3>2. OnlyMoves(h) /\ GraceInHand(job'[h]) BY <2>6, <3>1, Moves
    <3> QED BY <2>4, <3>2, GraceStays
  <2> QED BY <2>1, <2>5, <2>6
<1>3. CASE RefreshReadPaid(h)
  <2> DEFINE row == job[h].row
             all == allParticipantsPaid(job[h].plan, job[h].roster)
             next == Refreshed(row, all, job[h].at)
             j == [job[h] EXCEPT !.step = "refresh_write", !.row = next]
  <2>1. AfterRefresh(h) \/ (next # None /\ job' = [job EXCEPT ![h] = j])
    BY <1>3, <1>a DEF RefreshReadPaid, Typed, RequestsOK
  <2>2. /\ j.step = "refresh_write" /\ j.row = next /\ j.plan = job[h].plan
        /\ j.at = job[h].at
    BY <1>a DEF Job
  <2>3. job[h].step = "refresh_paid" BY <1>3 DEF RefreshReadPaid, At
  <2>4. row \in Row /\ Noticed(job[h].plan, row)
    BY <1>a, <2>3 DEF WellFormed, HasRow, GraceInHand
  <2>5. next # None =>
          /\ next.state = "delinquent_grace" => next.graceEnds = job[h].at + GraceDuration
          /\ next.state = "delinquent_readonly" => Served(job[h].plan)
    <3> HIDE DEF all
    <3>1. /\ row.state \in States /\ row.activeUse \in Instant
          /\ row.trialEnds \in Instant /\ row.graceEnds \in Instant
      BY <2>4 DEF Row
    <3>2. CASE next = [row EXCEPT !.state = "active_paid", !.graceEnds = None]
      BY <2>4, <3>2 DEF Row
    <3>3. CASE next = [row EXCEPT !.state = "delinquent_grace",
                                  !.graceEnds = job[h].at + GraceDuration]
      BY <2>4, <3>3 DEF Row
    <3>4. CASE /\ next = [row EXCEPT !.state = "delinquent_readonly"]
               /\ row.state = "delinquent_grace" /\ row.graceEnds # None
               /\ job[h].at > row.graceEnds
      <4>1. next.state = "delinquent_readonly" BY <2>4, <3>4 DEF Row
      <4>2. graced[job[h].plan] # None /\ graced[job[h].plan] + GraceDuration <= row.graceEnds
        BY <2>4, <3>4 DEF Noticed
      <4>3. graced[job[h].plan] \in Nat /\ row.graceEnds \in Nat
        BY <1>a, <3>1, <3>4, <4>2 DEF Typed, HistoryOK, Instant
      <4>4. Served(job[h].plan)
        BY <1>a, <3>4, <4>2, <4>3, DurationAssumption DEF Served
      <4> QED BY <4>1, <4>4
    <3>5. CASE next = None BY <3>5
    <3> QED BY <3>2, <3>3, <3>4, <3>5 DEF Refreshed
  <2> HIDE DEF j, next, row
  <2>6. UNCHANGED <<now, plans, graced, revoked>> BY <1>3 DEF RefreshReadPaid, tables, history, trials
  <2>7. CASE AfterRefresh(h)
    BY <2>6, <2>7, AfterRefreshMoves, GraceUnguarded DEF Guarded
  <2>8. CASE next # None /\ job' = [job EXCEPT ![h] = j]
    <3>1. GraceInHand(j) BY <2>2, <2>5, <2>8 DEF GraceInHand, Counted
    <3>2. OnlyMoves(h) /\ GraceInHand(job'[h]) BY <2>8, <3>1, Moves
    <3> QED BY <2>6, <3>2, GraceStays
  <2> QED BY <2>1, <2>7, <2>8
<1>4. CASE RefreshWritePlan(h)
  <2>1. job[h].step = "refresh_write" BY <1>4 DEF RefreshWritePlan, At
  <2>2. /\ Counted(job[h])
        /\ job[h].row.state = "delinquent_readonly" => Served(job[h].plan)
    BY <1>a, <2>1 DEF GraceInHand
  <2>3. job[h].row \in Row BY <1>a, <2>1 DEF WellFormed, HasRow
  <2>4. OnlyMoves(h) /\ job'[h].step \notin Guarded
    BY <1>4, AfterRefreshMoves DEF RefreshWritePlan, Guarded
  <2>5. UpsertPlan(h, job[h].row) /\ now' = now /\ revoked' = revoked
    BY <1>4 DEF RefreshWritePlan
  <2> QED BY <1>0, <2>2, <2>3, <2>4, <2>5, GraceWrites DEF Counted
<1> QED BY <1>1, <1>2, <1>3, <1>4 DEF Refresh

LEMMA GraceRoster ==
  ASSUME Typed, Typed', GraceInv, NEW h \in Handler,
         RosterReadPlan(h) \/ RosterWritePlan(h) \/ RevokeReadPlan(h) \/ RevokeWritePlan(h)
  PROVE  GraceInv'
<1>0. ~At(h, "idle")
  BY DEF RosterReadPlan, RosterWritePlan, RevokeReadPlan, RevokeWritePlan, At
<1>a. /\ job[h] \in Job /\ job[h].plan \in Plan /\ WellFormed(job[h]) /\ GraceInHand(job[h])
  BY <1>0, AtStep DEF GraceInv
<1>1. CASE RosterReadPlan(h)
  <2>1. UNCHANGED <<now, plans, graced, revoked>> BY <1>1 DEF RosterReadPlan, tables, history, trials
  <2>2. Done(h) \/ Goto(h, "roster_write") BY <1>1 DEF RosterReadPlan
  <2>3. CASE Done(h) BY <2>1, <2>3, DoneMoves, GraceUnguarded DEF Guarded
  <2>4. CASE Goto(h, "roster_write")
    <3>1. OnlyMoves(h) /\ job'[h].step = "roster_write" BY <2>4, GotoStep
    <3> QED BY <2>1, <3>1, GraceUnguarded DEF Guarded
  <2> QED BY <2>2, <2>3, <2>4
<1>2. CASE RosterWritePlan(h)
  <2> DEFINE row == [state |-> "linked_not_active", activeUse |-> None,
                     trialEnds |-> None, graceEnds |-> None]
  <2>1. /\ UpsertPlan(h, row) /\ Done(h) /\ now' = now /\ revoked' = revoked
    BY <1>2 DEF RosterWritePlan
  <2>2. row \in Row /\ row.state = "linked_not_active" BY FirstRowOK
  <2> HIDE DEF row
  <2>3. OnlyMoves(h) /\ job'[h].step \notin Guarded BY <2>1, DoneMoves DEF Guarded
  <2> QED BY <1>0, <2>1, <2>2, <2>3, GraceWrites
<1>3. CASE RevokeReadPlan(h)
  <2> DEFINE plan == plans[job[h].plan]
             row == [plan EXCEPT !.state = "delinquent_readonly"]
             j == [job[h] EXCEPT !.step = "revoke_write", !.row = row]
  <2>1. Goto(h, "refresh_plan") \/ (plan # None /\ job' = [job EXCEPT ![h] = j])
    BY <1>3, <1>a DEF RevokeReadPlan, Typed, RequestsOK
  <2>2. plan # None => row.state = "delinquent_readonly"
    BY <1>a DEF Typed, TablesOK, Row
  <2>3. j.step = "revoke_write" /\ j.row = row BY <1>a DEF Job
  <2> HIDE DEF j, row, plan
  <2>4. UNCHANGED <<now, plans, graced, revoked>> BY <1>3 DEF RevokeReadPlan, tables, history, trials
  <2>5. CASE Goto(h, "refresh_plan")
    <3>1. OnlyMoves(h) /\ job'[h].step = "refresh_plan" BY <2>5, GotoStep
    <3> QED BY <2>4, <3>1, GraceUnguarded DEF Guarded
  <2>6. CASE plan # None /\ job' = [job EXCEPT ![h] = j]
    <3>1. GraceInHand(j) BY <2>2, <2>3, <2>6 DEF GraceInHand
    <3>2. OnlyMoves(h) /\ GraceInHand(job'[h]) BY <2>6, <3>1, Moves
    <3> QED BY <2>4, <3>2, GraceStays
  <2> QED BY <2>1, <2>5, <2>6
<1>4. CASE RevokeWritePlan(h)
  <2>1. /\ job[h].step = "revoke_write" /\ UpsertPlan(h, job[h].row) /\ Done(h) /\ now' = now
        /\ revoked' = revoked \cup {job[h].plan}
    BY <1>4 DEF RevokeWritePlan, At
  <2>2. job[h].row \in Row /\ job[h].row.state = "delinquent_readonly"
    BY <1>a, <2>1 DEF WellFormed, HasRow, GraceInHand
  <2>3. OnlyMoves(h) /\ job'[h].step \notin Guarded BY <2>1, DoneMoves DEF Guarded
  <2> QED BY <1>0, <2>1, <2>2, <2>3, GraceWrites
<1> QED BY <1>1, <1>2, <1>3, <1>4

\* Deciding, moving and giving up.
LEMMA GraceOther ==
  ASSUME Typed, GraceInv, NEW h \in Handler, Decide(h) \/ MigrateCommit(h) \/ GiveUp(h)
  PROVE  GraceInv'
<1>1. UNCHANGED <<now, plans, graced, revoked>>
  BY DEF Decide, DecideReadPlan, DecideReadRoster, DecideReadPaid, MigrateCommit, GiveUp,
         tables, history, trials
<1>2. CASE Done(h) BY <1>1, <1>2, DoneMoves, GraceUnguarded DEF Guarded
<1>3. CASE DecideReadPlan(h)
  <2> DEFINE j == [job[h] EXCEPT !.step = "decide_roster", !.row = plans[job[h].plan]]
  <2>0. job[h] \in Job BY DEF Typed, RequestsOK
  <2>1. Done(h) \/ job' = [job EXCEPT ![h] = j]
    BY <1>3 DEF DecideReadPlan, Answer, Typed, RequestsOK
  <2>2. j.step = "decide_roster" BY <2>0 DEF Job
  <2> HIDE DEF j
  <2>3. CASE job' = [job EXCEPT ![h] = j]
    <3>1. OnlyMoves(h) /\ job'[h] = j BY <2>3, Moves
    <3> QED BY <1>1, <2>2, <3>1, GraceUnguarded DEF Guarded
  <2> QED BY <1>2, <2>1, <2>3
<1>4. CASE DecideReadRoster(h)
  <2> DEFINE ids == ActiveRoster(job[h].plan)
             j == [job[h] EXCEPT !.step = "decide_paid", !.roster = ids]
  <2>0. job[h] \in Job BY DEF Typed, RequestsOK
  <2>1. Done(h) \/ job' = [job EXCEPT ![h] = j]
    BY <1>4 DEF DecideReadRoster, Answer, Typed, RequestsOK
  <2>2. j.step = "decide_paid" BY <2>0 DEF Job
  <2> HIDE DEF j
  <2>3. CASE job' = [job EXCEPT ![h] = j]
    <3>1. OnlyMoves(h) /\ job'[h] = j BY <2>3, Moves
    <3> QED BY <1>1, <2>2, <3>1, GraceUnguarded DEF Guarded
  <2> QED BY <1>2, <2>1, <2>3
<1> QED BY <1>2, <1>3, <1>4 DEF Decide, DecideReadPaid, Answer, MigrateCommit, GiveUp

LEMMA GraceStep == Typed /\ Typed' /\ GraceInv /\ [Next]_vars => GraceInv'
<1> SUFFICES ASSUME Typed, Typed', GraceInv, [Next]_vars PROVE GraceInv' OBVIOUS
<1>1. ASSUME now \in Nat, now' \in Nat, now <= now', UNCHANGED <<job, plans, graced, revoked>>
      PROVE  GraceInv'
  <2>1. \A p \in Plan : Served(p) => Served(p)'
    <3>1. \A p \in Plan : graced[p] \in Nat \cup {None} BY DEF Typed, HistoryOK, Instant
    <3> QED BY <1>1, <3>1, DurationAssumption DEF Served
  <2>2. ASSUME NEW h \in Handler PROVE GraceInHand(job[h])'
    <3>1. GraceInHand(job[h]) /\ WellFormed(job[h]) BY DEF GraceInv, Typed, RequestsOK
    <3>2. job[h].step = "refresh_write" => job[h].plan \in Plan BY <3>1 DEF WellFormed
    <3> QED BY <1>1, <2>1, <3>1, <3>2 DEF GraceInHand, Noticed, Counted
  <2>3. GraceComesFirst' BY <1>1, <2>1 DEF GraceInv, GraceComesFirst, Served
  <2> QED BY <1>1, <2>2, <2>3 DEF GraceInv, Noticed
<1>2. CASE Tick \/ (\E i \in Installation : RegisterInstallation(i)) \/ UNCHANGED vars
  <2>1. now \in Nat /\ now' \in Nat BY DEF Typed, TablesOK
  <2>2. now <= now' /\ UNCHANGED <<job, plans, graced, revoked>>
    BY <1>2, <2>1 DEF Tick, RegisterInstallation, vars, tables, history, trials
  <2> QED BY <1>1, <2>1, <2>2
<1> QED BY <1>2, GraceStart, GraceUse, GraceRefresh, GraceRoster, GraceOther DEF Next, Starts

\* Nobody is read-only without notice, whichever requests interleave with the
\* refresh that ends a grace period (RefreshPlanLifecycle, housing.go), and
\* whatever row is written over another.
THEOREM ReadOnlyComesAfterGrace == Spec => []GraceComesFirst
<1>1. Spec => [](Typed /\ GraceInv)
  <2>1. Init => Typed /\ GraceInv BY TypedInit, GraceInit
  <2>2. Typed /\ GraceInv /\ [Next]_vars => (Typed /\ GraceInv)' BY TypedStep, GraceStep
  <2> QED BY <2>1, <2>2, PTL DEF Spec
<1>2. GraceInv => GraceComesFirst BY DEF GraceInv
<1> QED BY <1>1, <1>2, PTL

------------------------------------------------------------------------------
(* What is in hand is what is in the tables, until others change them *)

\* Steps at which a request has read nothing it will rely on.
Free == {"idle", "roster_plan", "use_roster", "use_plan", "revoke_plan", "refresh_plan",
         "decide_plan", "migrate"}

\* A question that is not answered has no answer.
Unanswered(h) == job'[h].step # "idle" /\ job'[h].kind # None => verdict'[h] = None

LEMMA CurrentFree ==
  ASSUME NEW h \in Handler, job'[h].step \in Free, Unanswered(h)
  PROVE  Own(h)'
<1>1. Current(job[h])' BY DEF Current, Free
<1>2. Sound(job[h], verdict[h])' BY DEF Sound, Free, Unanswered
<1> QED BY <1>1, <1>2 DEF Own

LEMMA CurrentReads ==
  ASSUME NEW h \in Handler, UNCHANGED <<gates, plans>>,
         Sound(job'[h], verdict'[h]), h \notin overtaken' => Current(job'[h])
  PROVE  Own(h)'
<1>1. Sound(job[h], verdict[h])' BY DEF Sound
<1>2. h \notin overtaken' => Current(job[h])'
  BY DEF Current, gates, ActiveRoster, allParticipantsPaid
<1> QED BY <1>1, <1>2 DEF Own

\* A refresh keeps the start of active use and the end of the trial, and takes
\* no plan out of read-only unless all have paid.
LEMMA RefreshedKeeps ==
  ASSUME NEW row \in Row, NEW all, NEW t \in Nat, Refreshed(row, all, t) # None
  PROVE  LET next == Refreshed(row, all, t) IN
         /\ next.activeUse = row.activeUse /\ next.trialEnds = row.trialEnds
         /\ row.state = "delinquent_readonly" => all
<1> DEFINE next == Refreshed(row, all, t)
<1>1. CASE all
  <2>1. next = [row EXCEPT !.state = "active_paid", !.graceEnds = None]
    BY <1>1 DEF Refreshed
  <2> QED BY <1>1, <2>1 DEF Row
<1>2. CASE ~all
  <2>1. \/ /\ row.state = "active_trial"
           /\ next = [row EXCEPT !.state = "delinquent_grace",
                                 !.graceEnds = t + GraceDuration]
        \/ /\ row.state = "delinquent_grace"
           /\ next = [row EXCEPT !.state = "delinquent_readonly"]
    BY <1>2 DEF Refreshed
  <2> QED BY <2>1 DEF Row
<1> QED BY <1>1, <1>2

\* A request taken up knows nothing yet.
LEMMA CurrentStart ==
  ASSUME Typed, VerdictsOK, NEW h \in Handler, Starts(h)
  PROVE  Own(h)'
<1>1. job'[h].step \in First /\ verdict' = [verdict EXCEPT ![h] = None] BY StartMoves
<1>2. Unanswered(h) BY <1>1 DEF Unanswered, VerdictsOK
<1> QED BY <1>1, <1>2, CurrentFree DEF First, Free

\* Going on to another step changes nothing else of the request.
LEMMA GotoKeeps ==
  ASSUME Typed, NEW h \in Handler, NEW step, Goto(h, step)
  PROVE  /\ job'[h].step = step /\ job'[h].kind = job[h].kind /\ job'[h].plan = job[h].plan
         /\ job'[h].row = job[h].row /\ job'[h].roster = job[h].roster
<1>1. job'[h] = [job[h] EXCEPT !.step = step] BY GotoMoves
<1>2. job[h] \in Job BY DEF Typed, RequestsOK
<1> QED BY <1>1, <1>2 DEF Job

LEMMA AfterKeeps ==
  ASSUME Typed, NEW h \in Handler, AfterUse(h) \/ AfterRefresh(h)
  PROVE  /\ job'[h].step \in Free
         /\ job'[h].step = "idle" \/ job'[h].kind = job[h].kind
<1>1. CASE Done(h) BY <1>1, DoneMoves DEF Free
<1>2. CASE Goto(h, "refresh_plan") BY <1>2, GotoKeeps DEF Free
<1>3. CASE Goto(h, "decide_plan") BY <1>3, GotoKeeps DEF Free
<1> QED BY <1>1, <1>2, <1>3 DEF AfterUse, AfterRefresh

LEMMA UnansweredStays ==
  ASSUME CurrentInv, NEW h \in Handler, ~At(h, "idle"), verdict' = verdict,
         job'[h].step = "idle" \/ job'[h].kind = job[h].kind
  PROVE  Unanswered(h)
BY DEF CurrentInv, Own, Sound, Unanswered, At

LEMMA CurrentUse ==
  ASSUME Typed, CurrentInv, NEW h \in Handler, Use(h) PROVE Own(h)'
<1>0. ~At(h, "idle") /\ verdict' = verdict
  BY DEF Use, UseReadRoster, UseReadPlan, UseReadConsumed, UseMark, UseWritePlan, At
<1>a. /\ job[h] \in Job /\ WellFormed(job[h])
      /\ h \notin overtaken => Current(job[h])
  BY <1>0, AtStep DEF CurrentInv, Own
<1>c. CASE AfterUse(h)
  <2>1. job'[h].step \in Free /\ Unanswered(h) BY <1>0, <1>c, AfterKeeps, UnansweredStays
  <2> QED BY <2>1, CurrentFree
<1>1. CASE UseReadRoster(h)
  <2> DEFINE ids == ActiveRoster(job[h].plan)
             j == [job[h] EXCEPT !.step = "use_plan", !.roster = ids, !.at = now]
  <2>1. AfterUse(h) \/ job' = [job EXCEPT ![h] = j]
    BY <1>1, <1>a DEF UseReadRoster, Typed, RequestsOK
  <2>2. j.step = "use_plan" /\ j.kind = job[h].kind BY <1>a DEF Job
  <2> HIDE DEF j
  <2>3. CASE job' = [job EXCEPT ![h] = j]
    <3>1. job'[h] = j BY <2>3, Moves
    <3>2. Unanswered(h) BY <1>0, <2>2, <3>1, UnansweredStays
    <3> QED BY <2>2, <3>1, <3>2, CurrentFree DEF Free
  <2> QED BY <1>c, <2>1, <2>3
<1>2. CASE UseReadPlan(h)
  <2> DEFINE plan == plans[job[h].plan]
  <2>1. UNCHANGED <<gates, plans>> BY <1>2 DEF UseReadPlan, tables
  <2>2. \/ AfterUse(h)
        \/ (plan = None \/ plan.activeUse = None) /\ Goto(h, "use_consumed")
    BY <1>2 DEF UseReadPlan
  <2>3. CASE (plan = None \/ plan.activeUse = None) /\ Goto(h, "use_consumed")
    <3>1. /\ job'[h].step = "use_consumed" /\ job'[h].kind = job[h].kind
          /\ job'[h].plan = job[h].plan
      BY <2>3, GotoKeeps
    <3>2. Unanswered(h) BY <1>0, <3>1, UnansweredStays
    <3>3. Current(job'[h]) BY <2>3, <3>1 DEF Current
    <3>4. Sound(job'[h], verdict'[h]) BY <3>1, <3>2 DEF Sound, Unanswered
    <3> QED BY <2>1, <3>3, <3>4, CurrentReads
  <2> QED BY <1>c, <2>2, <2>3
<1>3. CASE UseReadConsumed(h)
  <2> DEFINE j == job[h]
             grace == [j EXCEPT !.step = "use_write",
                                !.row = [state |-> "delinquent_grace", activeUse |-> j.at,
                                         trialEnds |-> None,
                                         graceEnds |-> j.at + GraceDuration]]
             trial == [j EXCEPT !.step = "use_mark", !.left = j.roster,
                                !.row = [state |-> "active_trial", activeUse |-> j.at,
                                         trialEnds |-> j.at + TrialDuration,
                                         graceEnds |-> None]]
  <2>1. (job' = [job EXCEPT ![h] = grace] \/ job' = [job EXCEPT ![h] = trial])
        /\ UNCHANGED <<gates, plans>> /\ overtaken' = overtaken
    BY <1>3 DEF UseReadConsumed, tables
  <2>2. /\ grace.step = "use_write" /\ grace.kind = j.kind /\ grace.plan = j.plan
        /\ trial.step = "use_mark" /\ trial.kind = j.kind /\ trial.plan = j.plan
    BY <1>a DEF Job
  <2>3. j.step = "use_consumed" BY <1>3 DEF UseReadConsumed, At
  <2> HIDE DEF grace, trial
  <2>4. job'[h] = grace \/ job'[h] = trial
    <3>1. CASE job' = [job EXCEPT ![h] = grace] BY <3>1, Moves
    <3>2. CASE job' = [job EXCEPT ![h] = trial] BY <3>2, Moves
    <3> QED BY <2>1, <3>1, <3>2
  <2>5. Unanswered(h) BY <1>0, <2>2, <2>4, UnansweredStays
  <2>6. h \notin overtaken' => Current(job'[h]) BY <1>a, <2>1, <2>2, <2>3, <2>4 DEF Current
  <2>7. Sound(job'[h], verdict'[h]) BY <2>2, <2>4, <2>5 DEF Sound, Unanswered
  <2> QED BY <2>1, <2>6, <2>7, CurrentReads
<1>4. CASE UseMark(h)
  <2> PICK i \in job[h].left :
        job' = [job EXCEPT ![h].left = @ \ {i},
                           ![h].step = IF job[h].left = {i} THEN "use_write" ELSE "use_mark"]
    BY <1>4 DEF UseMark
  <2> DEFINE step == IF job[h].left = {i} THEN "use_write" ELSE "use_mark"
             j == [job[h] EXCEPT !.left = @ \ {i}, !.step = step]
  <2>1. job' = [job EXCEPT ![h] = j] BY DEF Typed, RequestsOK
  <2>2. j.step = step /\ j.plan = job[h].plan /\ j.kind = job[h].kind BY <1>a DEF Job
  <2>3. job[h].step = "use_mark" BY <1>4 DEF UseMark, At
  <2> HIDE DEF j
  <2>4. job'[h] = j BY <2>1, Moves
  <2>5. UNCHANGED <<gates, plans>> /\ overtaken' = overtaken BY <1>4 DEF UseMark
  <2>6. Unanswered(h) BY <1>0, <2>2, <2>4, UnansweredStays
  <2>7. h \notin overtaken' => Current(job'[h]) BY <1>a, <2>2, <2>3, <2>4, <2>5 DEF Current
  <2>8. Sound(job'[h], verdict'[h]) BY <2>2, <2>4, <2>6 DEF Sound, Unanswered
  <2> QED BY <2>5, <2>7, <2>8, CurrentReads
<1> QED BY <1>c, <1>1, <1>2, <1>3, <1>4 DEF Use, UseWritePlan

LEMMA CurrentRefresh ==
  ASSUME Typed, CurrentInv, NEW h \in Handler, Refresh(h) PROVE Own(h)'
<1>0. ~At(h, "idle") /\ verdict' = verdict
  BY DEF Refresh, RefreshReadPlan, RefreshReadRoster, RefreshReadPaid, RefreshWritePlan, At
<1>a. /\ job[h] \in Job /\ job[h].at \in Nat /\ job[h].plan \in Plan /\ WellFormed(job[h])
      /\ h \notin overtaken => Current(job[h])
  BY <1>0, AtStep DEF CurrentInv, Own
<1>c. CASE AfterRefresh(h)
  <2>1. job'[h].step \in Free /\ Unanswered(h) BY <1>0, <1>c, AfterKeeps, UnansweredStays
  <2> QED BY <2>1, CurrentFree
<1>1. CASE RefreshReadPlan(h)
  <2> DEFINE plan == plans[job[h].plan]
             j == [job[h] EXCEPT !.step = "refresh_roster", !.row = plan]
  <2>1. /\ AfterRefresh(h) \/ job' = [job EXCEPT ![h] = j]
        /\ UNCHANGED <<gates, plans>>
    BY <1>1, <1>a DEF RefreshReadPlan, Typed, RequestsOK, tables
  <2>2. j.step = "refresh_roster" /\ j.row = plan /\ j.plan = job[h].plan /\ j.kind = job[h].kind
    BY <1>a DEF Job
  <2> HIDE DEF j
  <2>3. CASE job' = [job EXCEPT ![h] = j]
    <3>1. job'[h] = j BY <2>3, Moves
    <3>2. Unanswered(h) BY <1>0, <2>2, <3>1, UnansweredStays
    <3>3. Current(job'[h]) BY <2>2, <3>1 DEF Current
    <3>4. Sound(job'[h], verdict'[h]) BY <2>2, <3>1, <3>2 DEF Sound, Unanswered
    <3> QED BY <2>1, <3>3, <3>4, CurrentReads
  <2> QED BY <1>c, <2>1, <2>3
<1>2. CASE RefreshReadRoster(h)
  <2> DEFINE ids == ActiveRoster(job[h].plan)
             j == [job[h] EXCEPT !.step = "refresh_paid", !.roster = ids, !.at = now]
  <2>1. /\ AfterRefresh(h) \/ (job' = [job EXCEPT ![h] = j] /\ overtaken' = overtaken)
        /\ UNCHANGED <<gates, plans>>
    BY <1>2, <1>a DEF RefreshReadRoster, Typed, RequestsOK, tables
  <2>2. /\ j.step = "refresh_paid" /\ j.row = job[h].row /\ j.plan = job[h].plan
        /\ j.kind = job[h].kind /\ j.roster = ids
    BY <1>a DEF Job
  <2>3. job[h].step = "refresh_roster" BY <1>2 DEF RefreshReadRoster, At
  <2> HIDE DEF j
  <2>4. CASE job' = [job EXCEPT ![h] = j] /\ overtaken' = overtaken
    <3>1. job'[h] = j BY <2>4, Moves
    <3>2. Unanswered(h) BY <1>0, <2>2, <3>1, UnansweredStays
    <3>3. h \notin overtaken' => Current(job'[h])
      BY <1>a, <2>2, <2>3, <2>4, <3>1 DEF Current
    <3>4. Sound(job'[h], verdict'[h]) BY <2>2, <3>1, <3>2 DEF Sound, Unanswered
    <3> QED BY <2>1, <3>3, <3>4, CurrentReads
  <2> QED BY <1>c, <2>1, <2>4
<1>3. CASE RefreshReadPaid(h)
  <2> DEFINE row == job[h].row
             all == allParticipantsPaid(job[h].plan, job[h].roster)
             next == Refreshed(row, all, job[h].at)
             j == [job[h] EXCEPT !.step = "refresh_write", !.row = next]
  <2>1. /\ \/ AfterRefresh(h)
           \/ next # None /\ job' = [job EXCEPT ![h] = j] /\ overtaken' = overtaken
        /\ UNCHANGED <<gates, plans>>
    BY <1>3, <1>a DEF RefreshReadPaid, Typed, RequestsOK, tables
  <2>2. /\ j.step = "refresh_write" /\ j.row = next /\ j.plan = job[h].plan
        /\ j.kind = job[h].kind
    BY <1>a DEF Job
  <2>3. job[h].step = "refresh_paid" BY <1>3 DEF RefreshReadPaid, At
  <2>4. /\ row \in Row /\ row # None
        /\ h \notin overtaken =>
             row = plans[job[h].plan] /\ job[h].roster = ActiveRoster(job[h].plan)
    BY <1>a, <2>3, SentinelAssumption DEF WellFormed, HasRow, Current
  <2>5. next # None =>
          /\ next.activeUse = row.activeUse /\ next.trialEnds = row.trialEnds
          /\ row.state = "delinquent_readonly" => all
    BY <1>a, <2>4, RefreshedKeeps
  <2>6. h \notin overtaken => all = allParticipantsPaid(job[h].plan, ActiveRoster(job[h].plan))
    BY <2>4
  <2> HIDE DEF j, next, all, row
  <2>7. CASE next # None /\ job' = [job EXCEPT ![h] = j] /\ overtaken' = overtaken
    <3>1. job'[h] = j BY <2>7, Moves
    <3>2. Unanswered(h) BY <1>0, <2>2, <3>1, UnansweredStays
    <3>3. h \notin overtaken' => Current(job'[h])
      BY <2>2, <2>4, <2>5, <2>6, <2>7, <3>1 DEF Current
    <3>4. Sound(job'[h], verdict'[h]) BY <2>2, <3>1, <3>2 DEF Sound, Unanswered
    <3> QED BY <2>1, <3>3, <3>4, CurrentReads
  <2> QED BY <1>c, <2>1, <2>7
<1> QED BY <1>c, <1>1, <1>2, <1>3 DEF Refresh, RefreshWritePlan

LEMMA CurrentRoster ==
  ASSUME Typed, CurrentInv, NEW h \in Handler,
         RosterReadPlan(h) \/ RosterWritePlan(h) \/ RevokeReadPlan(h) \/ RevokeWritePlan(h)
  PROVE  Own(h)'
<1>0. ~At(h, "idle") /\ verdict' = verdict
  BY DEF RosterReadPlan, RosterWritePlan, RevokeReadPlan, RevokeWritePlan, At
<1>a. job[h] \in Job /\ job[h].plan \in Plan BY <1>0, AtStep
<1>d. CASE Done(h) BY <1>d, DoneMoves, CurrentFree DEF Free, Unanswered
<1>1. CASE RosterReadPlan(h)
  <2>1. UNCHANGED <<gates, plans>> BY <1>1 DEF RosterReadPlan, tables
  <2>2. Done(h) \/ (plans[job[h].plan] = None /\ Goto(h, "roster_write"))
    BY <1>1 DEF RosterReadPlan
  <2>4. CASE plans[job[h].plan] = None /\ Goto(h, "roster_write")
    <3>1. /\ job'[h].step = "roster_write" /\ job'[h].kind = job[h].kind
          /\ job'[h].plan = job[h].plan
      BY <2>4, GotoKeeps
    <3>2. Unanswered(h) BY <1>0, <3>1, UnansweredStays
    <3>3. Current(job'[h]) BY <2>4, <3>1 DEF Current
    <3>4. Sound(job'[h], verdict'[h]) BY <3>1, <3>2 DEF Sound, Unanswered
    <3> QED BY <2>1, <3>3, <3>4, CurrentReads
  <2> QED BY <1>d, <2>2, <2>4
<1>3. CASE RevokeReadPlan(h)
  <2> DEFINE plan == plans[job[h].plan]
             row == [plan EXCEPT !.state = "delinquent_readonly"]
             j == [job[h] EXCEPT !.step = "revoke_write", !.row = row]
  <2>1. /\ \/ Goto(h, "refresh_plan")
           \/ plan # None /\ plan.activeUse # None /\ job' = [job EXCEPT ![h] = j]
        /\ UNCHANGED <<gates, plans>>
    BY <1>3, <1>a DEF RevokeReadPlan, Typed, RequestsOK, tables
  <2>2. plan # None =>
          /\ row.state = "delinquent_readonly" /\ row.activeUse = plan.activeUse
          /\ row.trialEnds = plan.trialEnds
    BY <1>a DEF Typed, TablesOK, Row
  <2>3. /\ j.step = "revoke_write" /\ j.row = row /\ j.plan = job[h].plan
        /\ j.kind = job[h].kind
    BY <1>a DEF Job
  <2> HIDE DEF j, row
  <2>4. CASE Goto(h, "refresh_plan")
    <3>1. job'[h].step = "refresh_plan" /\ job'[h].kind = job[h].kind BY <2>4, GotoKeeps
    <3>2. Unanswered(h) BY <1>0, <3>1, UnansweredStays
    <3> QED BY <3>1, <3>2, CurrentFree DEF Free
  <2>5. CASE plan # None /\ plan.activeUse # None /\ job' = [job EXCEPT ![h] = j]
    <3>1. job'[h] = j BY <2>5, Moves
    <3>2. Unanswered(h) BY <1>0, <2>3, <3>1, UnansweredStays
    <3>3. Current(job'[h]) BY <2>2, <2>3, <2>5, <3>1 DEF Current
    <3>4. Sound(job'[h], verdict'[h]) BY <2>2, <2>3, <2>5, <3>1, <3>2 DEF Sound, Unanswered
    <3> QED BY <2>1, <3>3, <3>4, CurrentReads
  <2> QED BY <2>1, <2>4, <2>5
<1> QED BY <1>d, <1>1, <1>3 DEF RosterWritePlan, RevokeWritePlan

LEMMA CurrentOther ==
  ASSUME Typed, CurrentInv, NEW h \in Handler,
         Decide(h) \/ MigrateCommit(h) \/ GiveUp(h)
  PROVE  Own(h)'
<1>2. CASE Done(h) BY <1>2, DoneMoves, CurrentFree DEF Free, Unanswered
<1>a. ~At(h, "idle")
  BY DEF Decide, DecideReadPlan, DecideReadRoster, DecideReadPaid, MigrateCommit, GiveUp, At
<1>b. /\ job[h] \in Job /\ job[h].plan \in Plan
      /\ WellFormed(job[h]) /\ Sound(job[h], verdict[h])
      /\ h \notin overtaken => Current(job[h])
  BY <1>a, AtStep DEF CurrentInv, Own
<1>3. CASE DecideReadPlan(h)
  <2> DEFINE plan == plans[job[h].plan]
             j == [job[h] EXCEPT !.step = "decide_roster", !.row = plan]
  <2>1. \/ Done(h)
        \/ /\ ~(plan.state = "delinquent_readonly" /\ isMutatingOperation(job[h].kind))
           /\ job' = [job EXCEPT ![h] = j] /\ verdict' = verdict
    BY <1>3 DEF DecideReadPlan, Answer, Typed, RequestsOK
  <2>2. /\ j.step = "decide_roster" /\ j.row = plan /\ j.plan = job[h].plan
        /\ j.kind = job[h].kind
    BY <1>b DEF Job
  <2>3. UNCHANGED <<gates, plans>> BY <1>3 DEF DecideReadPlan, tables
  <2> HIDE DEF j
  <2>4. CASE /\ ~(plan.state = "delinquent_readonly" /\ isMutatingOperation(job[h].kind))
             /\ job' = [job EXCEPT ![h] = j] /\ verdict' = verdict
    <3>1. job'[h] = j BY <2>4, Moves
    <3>2. Unanswered(h) BY <1>a, <2>2, <2>4, <3>1, UnansweredStays
    <3>3. Current(job'[h]) BY <2>2, <3>1 DEF Current
    <3>4. Sound(job'[h], verdict'[h]) BY <2>2, <2>4, <3>1, <3>2 DEF Sound, Unanswered
    <3> QED BY <2>3, <3>3, <3>4, CurrentReads
  <2> QED BY <1>2, <2>1, <2>4
<1>4. CASE DecideReadRoster(h)
  <2> DEFINE ids == ActiveRoster(job[h].plan)
             j == [job[h] EXCEPT !.step = "decide_paid", !.roster = ids]
  <2>1. \/ Done(h)
        \/ job' = [job EXCEPT ![h] = j] /\ verdict' = verdict /\ overtaken' = overtaken
    BY <1>4 DEF DecideReadRoster, Answer, Typed, RequestsOK
  <2>2. /\ j.step = "decide_paid" /\ j.row = job[h].row /\ j.plan = job[h].plan
        /\ j.kind = job[h].kind
    BY <1>b DEF Job
  <2>3. UNCHANGED <<gates, plans>> /\ job[h].step = "decide_roster"
    BY <1>4 DEF DecideReadRoster, At, tables
  <2> HIDE DEF j
  <2>4. CASE job' = [job EXCEPT ![h] = j] /\ verdict' = verdict /\ overtaken' = overtaken
    <3>1. job'[h] = j BY <2>4, Moves
    <3>2. Unanswered(h) BY <1>a, <2>2, <2>4, <3>1, UnansweredStays
    <3>3. h \notin overtaken' => Current(job'[h])
      BY <1>b, <2>2, <2>3, <2>4, <3>1 DEF Current
    <3>4. Sound(job'[h], verdict'[h]) BY <1>b, <2>2, <2>3, <3>1, <3>2 DEF Sound, Unanswered
    <3> QED BY <2>3, <3>3, <3>4, CurrentReads
  <2> QED BY <1>2, <2>1, <2>4
<1> QED BY <1>2, <1>3, <1>4 DEF Decide, DecideReadPaid, Answer, MigrateCommit, GiveUp

\* The clock, registrations and steps of others leave what is in hand.
LEMMA CurrentKept ==
  ASSUME CurrentInv, NEW g \in Handler, job'[g] = job[g], verdict'[g] = verdict[g],
         g \notin overtaken' => g \notin overtaken, UNCHANGED <<gates, plans>>
  PROVE  Own(g)'
<1>1. Sound(job'[g], verdict'[g]) /\ (g \notin overtaken' => Current(job'[g]))
  BY DEF CurrentInv, Own
<1> QED BY <1>1, CurrentReads

\* A request about another plan keeps what it has in hand.
LEMMA CurrentElsewhere ==
  ASSUME Typed, CurrentInv, NEW h \in Handler, NEW g \in Handler, g # h,
         NEW p \in Plan, TouchesOnly(h, p), Overtakes(h, p)
  PROVE  Own(g)'
<1>1. job'[g] = job[g] /\ verdict'[g] = verdict[g] BY DEF TouchesOnly
<1>2. Sound(job[g], verdict[g])' BY <1>1 DEF CurrentInv, Own, Sound
<1>3. ASSUME g \notin overtaken' PROVE Current(job[g])'
  <2>1. g \notin overtaken /\ (job[g].plan # p \/ job[g].step \notin InHand)
    BY <1>3 DEF Overtakes
  <2>2. CASE job[g].step \notin InHand BY <1>1, <2>2 DEF Current, InHand
  <2>3. CASE job[g].step \in InHand
    <3>1. PICK q \in Plan : q = job[g].plan /\ q # p
      BY <2>1, <2>3 DEF Typed, RequestsOK, WellFormed, InHand
    <3>2. /\ plans'[q] = plans[q] /\ license'[q] = license[q]
          /\ ActiveRoster(q)' = ActiveRoster(q)
      BY <3>1 DEF TouchesOnly, ActiveRoster
    <3>3. allParticipantsPaid(q, ActiveRoster(q))' <=> allParticipantsPaid(q, ActiveRoster(q))
      BY <3>2 DEF allParticipantsPaid
    <3>4. Current(job[g]) BY <2>1 DEF CurrentInv, Own
    <3> QED BY <1>1, <3>1, <3>2, <3>3, <3>4 DEF Current
  <2> QED BY <2>2, <2>3
<1> QED BY <1>2, <1>3 DEF Own

LEMMA TouchesNothing ==
  ASSUME NEW h \in Handler, OnlyMoves(h), UNCHANGED <<gates, plans>>,
         \A g \in Handler : g # h => verdict'[g] = verdict[g], NEW p
  PROVE  TouchesOnly(h, p)
BY DEF TouchesOnly, OnlyMoves, gates

\* A request is about one plan from its first step to its last.
LEMMA StartTouches ==
  ASSUME Typed, VerdictsOK, NEW h \in Handler, Starts(h)
  PROVE  job'[h].plan \in Plan /\ TouchesOnly(h, job'[h].plan)
<1>m. /\ OnlyMoves(h) /\ job'[h].plan \in Plan
      /\ \A g \in Handler : g # h => verdict'[g] = verdict[g]
  BY StartMoves DEF VerdictsOK
<1>1. ASSUME NEW r \in RosterRequest, SetActiveRoster(h, r) PROVE TouchesOnly(h, job'[h].plan)
  <2>1. job'[h] = [Idle EXCEPT !.step = "roster_plan", !.plan = r.plan]
    BY <1>1, Moves DEF SetActiveRoster, TakeUp
  <2>2. job'[h].plan = r.plan BY <2>1 DEF Idle
  <2>3. r.plan \in Plan BY InputAssumption
  <2>4. /\ rosters' = rosters \cup {<<r.plan, r.rev, i>> : i \in r.roster}
        /\ active' = [active EXCEPT ![r.plan] = r.rev]
        /\ UNCHANGED <<license, plans>>
    BY <1>1 DEF SetActiveRoster
  <2>5. TouchesOnly(h, r.plan)
    BY <1>m, <2>3, <2>4 DEF TouchesOnly, OnlyMoves, Typed, TablesOK
  <2> QED BY <2>2, <2>5
<1>2. ASSUME NEW r \in LicenseRequest, UpsertLicenseStatus(h, r)
      PROVE  TouchesOnly(h, job'[h].plan)
  <2> DEFINE step == IF r.revoke /\ r.state = "unpaid" THEN "revoke_plan" ELSE "refresh_plan"
  <2>1. job'[h] = [Idle EXCEPT !.plan = r.plan, !.step = step]
    BY <1>2, Moves DEF UpsertLicenseStatus, TakeUp
  <2>2. job'[h].plan = r.plan BY <2>1 DEF Idle
  <2>3. r.plan \in Plan BY InputAssumption
  <2>4. /\ license' = [license EXCEPT ![r.plan][r.who] = r.state]
        /\ UNCHANGED <<rosters, active, plans>>
    BY <1>2 DEF UpsertLicenseStatus
  <2>5. TouchesOnly(h, r.plan)
    BY <1>m, <2>3, <2>4 DEF TouchesOnly, OnlyMoves, Typed, TablesOK
  <2> QED BY <2>2, <2>5
<1>3. CASE UNCHANGED <<gates, plans>> BY <1>m, <1>3, TouchesNothing
<1> QED BY <1>m, <1>1, <1>2, <1>3 DEF Starts, ReportActiveUse, Introspect, MigrateReadRoster, tables

LEMMA ServeTouches ==
  ASSUME Typed, VerdictsOK, NEW h \in Handler, Serves(h)
  PROVE  job[h].plan \in Plan /\ TouchesOnly(h, job[h].plan)
<1> DEFINE p == job[h].plan
<1>m. OnlyMoves(h) /\ p \in Plan BY ServeMoves, ServeOvertakes, AtStep
<1>v. \A g \in Handler : g # h => verdict'[g] = verdict[g]
  BY DEF Serves, RosterReadPlan, RosterWritePlan, RevokeReadPlan, RevokeWritePlan,
         MigrateCommit, GiveUp, Use, UseReadRoster, UseReadPlan, UseReadConsumed, UseMark,
         UseWritePlan, Refresh, RefreshReadPlan, RefreshReadRoster, RefreshReadPaid,
         RefreshWritePlan, Decide, DecideReadPlan, DecideReadRoster, DecideReadPaid, Answer,
         VerdictsOK
<1>1. CASE UNCHANGED <<gates, plans>> BY <1>m, <1>v, <1>1, TouchesNothing
<1>2. CASE RosterWritePlan(h) \/ UseWritePlan(h) \/ RefreshWritePlan(h) \/ RevokeWritePlan(h)
  <2>1. (\E row : plans' = [plans EXCEPT ![p] = row]) /\ UNCHANGED gates
    BY <1>2
    DEF RosterWritePlan, UseWritePlan, RefreshWritePlan, RevokeWritePlan, UpsertPlan, gates
  <2> HIDE DEF p
  <2>2. \A q \in Plan : q # p => plans'[q] = plans[q] BY <1>m, <2>1 DEF Typed, TablesOK
  <2>3. TouchesOnly(h, p) BY <1>m, <1>v, <2>1, <2>2 DEF TouchesOnly, OnlyMoves, gates
  <2> QED BY <1>m, <2>3 DEF p
<1>3. CASE MigrateCommit(h)
  <2> DEFINE old == job[h].who
             new == job[h].new
  <2>1. /\ rosters' = {IF row[1] = p /\ row[3] = old THEN <<p, row[2], new>> ELSE row :
                         row \in rosters}
        /\ license' = IF license[p][old] = None THEN license
                      ELSE [license EXCEPT ![p][old] = None, ![p][new] = license[p][old]]
        /\ UNCHANGED <<active, plans>>
    BY <1>3 DEF MigrateCommit
  <2> HIDE DEF p, old, new
  <2>2. \A q \in Plan : q # p => license'[q] = license[q]
    BY <1>m, <2>1 DEF Typed, TablesOK
  <2>3. ASSUME NEW q \in Plan, NEW v, NEW i, q # p
        PROVE  <<q, v, i>> \in rosters' <=> <<q, v, i>> \in rosters
    <3>1. ASSUME <<q, v, i>> \in rosters PROVE <<q, v, i>> \in rosters'
      <4> DEFINE row == <<q, v, i>>
      <4>1. row[1] # p BY <2>3
      <4> HIDE DEF row
      <4> QED BY <2>1, <3>1, <4>1 DEF row
    <3>2. ASSUME <<q, v, i>> \in rosters' PROVE <<q, v, i>> \in rosters
      <4>1. PICK row \in rosters :
              <<q, v, i>> = IF row[1] = p /\ row[3] = old THEN <<p, row[2], new>> ELSE row
        BY <2>1, <3>2
      <4> QED BY <2>3, <4>1
    <3> QED BY <3>1, <3>2
  <2>4. TouchesOnly(h, p) BY <1>m, <1>v, <2>1, <2>2, <2>3 DEF TouchesOnly, OnlyMoves
  <2> QED BY <1>m, <2>4 DEF p
<1> QED
  BY <1>m, <1>1, <1>2, <1>3
  DEF Serves, Use, Refresh, Decide, RosterReadPlan, UseReadRoster, UseReadPlan,
      UseReadConsumed, UseMark, RefreshReadPlan, RefreshReadRoster, RefreshReadPaid,
      RevokeReadPlan, DecideReadPlan, DecideReadRoster, DecideReadPaid, GiveUp, tables

LEMMA CurrentStep == Typed /\ VerdictsOK /\ CurrentInv /\ [Next]_vars => CurrentInv'
<1> SUFFICES ASSUME Typed, VerdictsOK, CurrentInv, [Next]_vars PROVE CurrentInv' OBVIOUS
<1>1. CASE Tick \/ (\E i \in Installation : RegisterInstallation(i)) \/ UNCHANGED vars
  BY <1>1, CurrentKept DEF Tick, RegisterInstallation, vars, tables, CurrentInv
<1>2. ASSUME NEW h \in Handler, Starts(h) PROVE CurrentInv'
  <2>1. Own(h)' BY <1>2, CurrentStart
  <2>2. job'[h].plan \in Plan /\ TouchesOnly(h, job'[h].plan) BY <1>2, StartTouches
  <2>3. ASSUME NEW g \in Handler, g # h PROVE Own(g)'
    <3>1. CASE overtaken' = overtaken /\ UNCHANGED <<gates, plans>>
      BY <2>2, <2>3, <3>1, CurrentKept DEF TouchesOnly
    <3>2. CASE Overtakes(h, job'[h].plan) BY <2>2, <2>3, <3>2, CurrentElsewhere
    <3> QED BY <1>2, <3>1, <3>2, StartOvertakes
  <2> QED BY <2>1, <2>3 DEF CurrentInv
<1>3. ASSUME NEW h \in Handler, Serves(h) PROVE CurrentInv'
  <2>1. Own(h)' BY <1>3, CurrentUse, CurrentRefresh, CurrentRoster, CurrentOther DEF Serves
  <2>2. job[h].plan \in Plan /\ TouchesOnly(h, job[h].plan) BY <1>3, ServeTouches
  <2>3. ASSUME NEW g \in Handler, g # h PROVE Own(g)'
    <3>1. CASE (overtaken' = overtaken \/ Afresh(h)) /\ UNCHANGED <<gates, plans>>
      BY <2>2, <2>3, <3>1, CurrentKept DEF TouchesOnly, Afresh
    <3>2. CASE Overtakes(h, job[h].plan) BY <2>2, <2>3, <3>2, CurrentElsewhere
    <3> QED BY <1>3, <3>1, <3>2, ServeOvertakes
  <2> QED BY <2>1, <2>3 DEF CurrentInv
<1> QED BY <1>1, <1>2, <1>3 DEF Next, Starts, Serves

\* What a step writes over a plan in active use, and how it answers.
StartStays ==
  \A p \in Plan :
    plans[p] # None /\ plans[p].activeUse # None /\ ~OvertakenStep(p) =>
      /\ plans'[p].activeUse = plans[p].activeUse
      /\ plans'[p].trialEnds = plans[p].trialEnds

ReadOnlyStays ==
  \A p \in Plan :
    plans[p] # None /\ plans[p].state = "delinquent_readonly"
      /\ ~allParticipantsPaid(p, ActiveRoster(p)) /\ ~OvertakenStep(p) =>
        plans'[p].state = "delinquent_readonly"

NoChangeAllowed ==
  \A p \in Plan :
    plans[p] # None /\ plans[p].state = "delinquent_readonly" /\ ~OvertakenStep(p) =>
      \A h \in Handler :
        /\ job[h].step \in {"decide_plan", "decide_roster", "decide_paid"}
        /\ job[h].plan = p /\ isMutatingOperation(job[h].kind)
        => verdict'[h] # TRUE

LEMMA PlanWritten ==
  ASSUME Typed, CurrentInv, NEW h \in Handler,
         \/ RosterWritePlan(h) \/ UseWritePlan(h)
         \/ RefreshWritePlan(h) \/ RevokeWritePlan(h)
  PROVE  StartStays /\ ReadOnlyStays
<1>0. ~At(h, "idle")
  BY DEF RosterWritePlan, UseWritePlan, RefreshWritePlan, RevokeWritePlan, At
<1> DEFINE q == job[h].plan
<1>1. q \in Plan /\ Sound(job[h], verdict[h]) /\ (h \notin overtaken => Current(job[h]))
  BY <1>0, AtStep DEF CurrentInv, Own
<1>2. PICK row : plans' = [plans EXCEPT ![q] = row]
                 /\ (job[h].step \in {"refresh_write", "revoke_write"} => row = job[h].row)
  BY DEF RosterWritePlan, UseWritePlan, RefreshWritePlan, RevokeWritePlan, UpsertPlan, At
<1>3. job[h].step \in {"roster_write", "use_write", "refresh_write", "revoke_write"}
  BY DEF RosterWritePlan, UseWritePlan, RefreshWritePlan, RevokeWritePlan, At
<1>4. plans'[q] = row /\ \A p \in Plan : p # q => plans'[p] = plans[p]
  BY <1>1, <1>2 DEF Typed, TablesOK
<1>5. plans[q] # None => (plans[q].state = "delinquent_readonly" => plans[q].activeUse # None)
  BY <1>1 DEF Typed, TablesOK, Row
<1>6. ~OvertakenStep(q) => Current(job[h])
  <2>1. job'[h].step \in {"idle", "refresh_plan", "decide_plan"}
    BY DoneMoves, AfterUseMoves, AfterRefreshMoves
    DEF RosterWritePlan, UseWritePlan, RefreshWritePlan, RevokeWritePlan
  <2>2. job'[h] # job[h] BY <1>3, <2>1
  <2> QED BY <1>1, <2>2 DEF OvertakenStep
<1> HIDE DEF q
<1>7. plans[q] # None /\ plans[q].activeUse # None /\ ~OvertakenStep(q) =>
        row.activeUse = plans[q].activeUse /\ row.trialEnds = plans[q].trialEnds
  BY <1>1, <1>2, <1>3, <1>6 DEF Current, q
<1>8. /\ plans[q] # None /\ plans[q].state = "delinquent_readonly"
      /\ ~allParticipantsPaid(q, ActiveRoster(q)) /\ ~OvertakenStep(q)
      => row.state = "delinquent_readonly"
  BY <1>1, <1>2, <1>3, <1>5, <1>6 DEF Current, Sound, q
<1> QED BY <1>4, <1>7, <1>8 DEF StartStays, ReadOnlyStays

LEMMA PlanKept == plans' = plans => StartStays /\ ReadOnlyStays
BY DEF StartStays, ReadOnlyStays

LEMMA PlanStep == Typed /\ CurrentInv /\ [Next]_vars => StartStays /\ ReadOnlyStays
<1> SUFFICES ASSUME Typed, CurrentInv, [Next]_vars PROVE StartStays /\ ReadOnlyStays OBVIOUS
<1>1. ASSUME NEW h \in Handler, Starts(h) PROVE plans' = plans
  BY <1>1 DEF Starts, SetActiveRoster, ReportActiveUse, UpsertLicenseStatus, Introspect,
              MigrateReadRoster, tables
<1>2. ASSUME NEW h \in Handler,
             \/ UseReadRoster(h) \/ UseReadPlan(h) \/ UseReadConsumed(h) \/ UseMark(h)
             \/ RefreshReadPlan(h) \/ RefreshReadRoster(h) \/ RefreshReadPaid(h)
             \/ RosterReadPlan(h) \/ RevokeReadPlan(h)
             \/ Decide(h) \/ MigrateCommit(h) \/ GiveUp(h)
      PROVE  plans' = plans
  BY <1>2
  DEF UseReadRoster, UseReadPlan, UseReadConsumed, UseMark, RefreshReadPlan, RefreshReadRoster,
      RefreshReadPaid, RosterReadPlan, RevokeReadPlan, Decide, DecideReadPlan,
      DecideReadRoster, DecideReadPaid, MigrateCommit, GiveUp, tables
<1>3. CASE Tick \/ (\E i \in Installation : RegisterInstallation(i)) \/ UNCHANGED vars
  BY <1>3, PlanKept DEF Tick, RegisterInstallation, vars, tables
<1> QED BY <1>1, <1>2, <1>3, PlanKept, PlanWritten DEF Next, Starts, Use, Refresh

LEMMA AnswerStep == Typed /\ VerdictsOK /\ CurrentInv /\ [Next]_vars => NoChangeAllowed
<1> SUFFICES ASSUME Typed, VerdictsOK, CurrentInv, [Next]_vars,
                    NEW p \in Plan, plans[p] # None, plans[p].state = "delinquent_readonly",
                    ~OvertakenStep(p),
                    NEW h \in Handler, job[h].step \in Deciding, job[h].plan = p,
                    isMutatingOperation(job[h].kind)
             PROVE  verdict'[h] # TRUE
  BY DEF NoChangeAllowed, Deciding
<1>1. /\ job[h].kind # None /\ Sound(job[h], verdict[h])
      /\ h \notin overtaken => Current(job[h])
      /\ plans[p].activeUse # None
  BY DEF Typed, RequestsOK, WellFormed, CurrentInv, Own, TablesOK, Row
<1>2. verdict[h] = None BY <1>1 DEF Sound, Deciding
<1>3. None # TRUE BY SentinelAssumption
<1>4. CASE verdict'[h] = verdict[h] BY <1>2, <1>3, <1>4
<1>5. CASE DecideReadPlan(h)
  BY <1>1, <1>2, <1>3, <1>5 DEF DecideReadPlan, Answer, VerdictsOK
<1>6. CASE DecideReadRoster(h) \/ DecideReadPaid(h)
  <2>1. CASE verdict' = verdict BY <1>4, <2>1
  <2>2. CASE Done(h)
    <3>1. job'[h] # job[h] BY <2>2, DoneMoves DEF Deciding
    <3>2. Current(job[h]) BY <1>1, <3>1 DEF OvertakenStep
    <3>3. job[h].step \in {"decide_roster", "decide_paid"}
      BY <1>6 DEF DecideReadRoster, DecideReadPaid, At
    <3> QED BY <1>1, <3>2, <3>3 DEF Current, Sound
  <2> QED BY <1>6, <2>1, <2>2 DEF DecideReadRoster, DecideReadPaid, Answer
<1>7. ASSUME NEW g \in Handler, Starts(g) PROVE verdict'[h] = verdict[h]
  <2>1. g # h BY <1>7, StartMoves DEF At, Deciding
  <2> QED BY <1>7, <2>1, StartMoves DEF VerdictsOK
<1>8. ASSUME NEW g \in Handler, Serves(g), g # h PROVE verdict'[h] = verdict[h]
  BY <1>8, ServeTouches DEF TouchesOnly
<1>9. CASE \/ Use(h) \/ Refresh(h)
           \/ RosterReadPlan(h) \/ RosterWritePlan(h)
           \/ RevokeReadPlan(h) \/ RevokeWritePlan(h) \/ MigrateCommit(h) \/ GiveUp(h)
  BY <1>4, <1>9
  DEF Use, UseReadRoster, UseReadPlan, UseReadConsumed, UseMark, UseWritePlan,
      Refresh, RefreshReadPlan, RefreshReadRoster, RefreshReadPaid, RefreshWritePlan,
      RosterReadPlan, RosterWritePlan, RevokeReadPlan, RevokeWritePlan, MigrateCommit, GiveUp
<1>10. CASE Tick \/ (\E i \in Installation : RegisterInstallation(i)) \/ UNCHANGED vars
  BY <1>4, <1>10 DEF Tick, RegisterInstallation, vars
<1>11. ASSUME NEW g \in Handler, Serves(g) PROVE verdict'[h] # TRUE
  BY <1>4, <1>5, <1>6, <1>8, <1>9, <1>11 DEF Serves, Decide
<1> QED BY <1>4, <1>7, <1>10, <1>11 DEF Next, Starts, Serves

LEMMA KnowledgeInv == Spec => [](Typed /\ VerdictsOK /\ CurrentInv)
<1>1. Init => Typed /\ VerdictsOK /\ CurrentInv
  <2>1. Init => CurrentInv BY DEF Init, CurrentInv, Own, Sound, Current, Idle
  <2> QED BY <2>1, TypedInit DEF Init, VerdictsOK
<1>2. Typed /\ VerdictsOK /\ CurrentInv /\ [Next]_vars => (Typed /\ VerdictsOK /\ CurrentInv)'
  BY TypedStep, VerdictsStep, CurrentStep
<1> QED BY <1>1, <1>2, PTL DEF Spec

\* A plan keeps the start of its active use and the end of its trial once it has
\* them (RecordActiveUse, housing.go), however requests interleave, unless a
\* request writes a row it read before another changed the plan.
THEOREM TrialStartStays == Spec => TrialStartIsStable
<1>1. Typed /\ CurrentInv /\ [Next]_vars => StartStays BY PlanStep
<1> QED BY <1>1, KnowledgeInv, PTL DEF Spec, TrialStartIsStable, StartStays

\* A read-only plan allows no change of its ledger while someone is unpaid, and
\* only payment by all takes it out of read-only (RefreshPlanLifecycle and
\* Introspect, housing.go), unless a request acts on what it read before another
\* changed the plan.
THEOREM ReadOnlyIsEnforced == Spec => ReadOnlyHolds
<1> DEFINE A == \A p \in Plan :
                  plans[p] # None /\ plans[p].state = "delinquent_readonly"
                    /\ ~allParticipantsPaid(p, ActiveRoster(p)) /\ ~OvertakenStep(p) =>
                      /\ plans'[p].state = "delinquent_readonly"
                      /\ \A h \in Handler :
                           /\ job[h].step \in {"decide_plan", "decide_roster", "decide_paid"}
                           /\ job[h].plan = p /\ isMutatingOperation(job[h].kind)
                           => verdict'[h] # TRUE
<1>1. Typed /\ VerdictsOK /\ CurrentInv /\ [Next]_vars => A
  BY PlanStep, AnswerStep DEF ReadOnlyStays, NoChangeAllowed
<1> QED BY <1>1, KnowledgeInv, PTL DEF Spec, ReadOnlyHolds

------------------------------------------------------------------------------
(* One trial per person *)

LEMMA GrantingIs == ASSUME NEW h PROVE Granting(h) <=> TrialJob(job[h])
BY DEF Granting, TrialJob

\* A step of h about no trial being recorded.
LEMMA TrialQuiet ==
  ASSUME TrialInv, NEW h \in Handler, OnlyMoves(h), UNCHANGED <<consumed, trials>>,
         ~TrialJob(job'[h])
  PROVE  TrialInv'
<1>1. UNCHANGED <<person, departed, granted, excused>> BY DEF trials
<1>2. \A g \in Handler : TrialJob(job'[g]) => g # h /\ job'[g] = job[g] BY DEF OnlyMoves
<1>3. Vouched' /\ OneEach' /\ TrialOncePerPerson'
  BY <1>1 DEF TrialInv, Vouched, OneEach, TrialOncePerPerson
<1>4. ASSUME NEW g \in Handler, TrialJob(job[g])' PROVE Recorded(job[g])'
  <2>1. TrialJob(job'[g]) BY <1>4 DEF TrialJob
  <2>2. Recorded(job[g]) /\ job'[g] = job[g] BY <1>2, <2>1 DEF TrialInv
  <2> QED BY <1>1, <2>2 DEF Recorded
<1>5. ASSUME NEW f \in Handler, NEW g \in Handler, TrialJob(job[f])', TrialJob(job[g])'
      PROVE  Apart(job[f], job[g])'
  <2>1. TrialJob(job'[f]) /\ TrialJob(job'[g]) BY <1>5 DEF TrialJob
  <2>2. Apart(job[f], job[g]) /\ job'[f] = job[f] /\ job'[g] = job[g]
    BY <1>2, <2>1 DEF TrialInv
  <2> QED BY <1>1, <2>2 DEF Apart
<1> QED BY <1>3, <1>4, <1>5 DEF TrialInv

\* The three reads and writes of a trial.
LEMMA TrialDecided ==
  ASSUME Typed, TrialInv, NEW h \in Handler, UseReadConsumed(h)
  PROVE  TrialInv'
<1> DEFINE j == job[h]
           grace == [j EXCEPT !.step = "use_write",
                              !.row = [state |-> "delinquent_grace", activeUse |-> j.at,
                                       trialEnds |-> None, graceEnds |-> j.at + GraceDuration]]
           trial == [j EXCEPT !.step = "use_mark", !.left = j.roster,
                              !.row = [state |-> "active_trial", activeUse |-> j.at,
                                       trialEnds |-> j.at + TrialDuration, graceEnds |-> None]]
<1>a. j \in Job BY DEF Typed, RequestsOK
<1>1. \/ job' = [job EXCEPT ![h] = grace] /\ excused' = excused
      \/ /\ j.roster \cap consumed = {}
         /\ job' = [job EXCEPT ![h] = trial] /\ excused' = excused \cup Excused(h)
  BY DEF UseReadConsumed
<1>2. UNCHANGED <<consumed, person, departed, granted>> /\ j.step = "use_consumed"
  BY DEF UseReadConsumed, tables, At
<1>3. grace.row.state = "delinquent_grace" BY <1>a DEF Job
<1>4. /\ trial.step = "use_mark" /\ trial.left = j.roster /\ trial.roster = j.roster
      /\ trial.plan = j.plan
  BY <1>a DEF Job
<1> HIDE DEF grace, trial, j
<1>5. CASE job' = [job EXCEPT ![h] = grace] /\ excused' = excused
  <2>1. job'[h] = grace /\ OnlyMoves(h) BY <1>5, Moves
  <2>2. ~TrialJob(job'[h]) BY <1>3, <2>1 DEF TrialJob
  <2> QED BY <1>2, <1>5, <2>1, <2>2, TrialQuiet DEF trials
<1>6. CASE /\ j.roster \cap consumed = {}
           /\ job' = [job EXCEPT ![h] = trial] /\ excused' = excused \cup Excused(h)
  <2>1. job'[h] = trial /\ OnlyMoves(h) BY <1>6, Moves
  <2>2. excused \subseteq excused' BY <1>6
  <2>3. Vouched' /\ OneEach' /\ TrialOncePerPerson'
    BY <1>2, <2>2 DEF TrialInv, Vouched, OneEach, TrialOncePerPerson
  <2>4. ASSUME NEW i \in j.roster, person[i] \notin excused'
        PROVE  /\ i \notin departed
               /\ \A g \in Handler : TrialJob(job[g]) /\ i \in job[g].roster => job[g].plan = j.plan
    <3>1. person[i] \notin Excused(h) BY <1>6, <2>4
    <3> QED BY <2>4, <3>1, GrantingIs DEF Excused, j
  <2>5. ASSUME NEW i \in j.roster, person[i] \notin excused', NEW p \in Plan
        PROVE  <<p, person[i]>> \notin granted
    <3>1. i \in Installation /\ i \notin consumed /\ i \notin departed
      BY <1>a, <1>6, <2>4, <2>5 DEF Job
    <3>2. person[i] \notin excused BY <2>2, <2>5
    <3> QED BY <3>1, <3>2 DEF TrialInv, Vouched
  <2>6. ASSUME NEW g \in Handler, TrialJob(job[g])' PROVE Recorded(job[g])'
    <3>1. CASE g = h BY <1>2, <1>4, <2>1, <2>4, <2>5, <3>1 DEF Recorded
    <3>2. CASE g # h
      <4>1. job'[g] = job[g] BY <2>1, <3>2 DEF OnlyMoves
      <4>2. Recorded(job[g]) BY <2>6, <4>1 DEF TrialInv, TrialJob
      <4> QED BY <1>2, <2>2, <4>1, <4>2 DEF Recorded
    <3> QED BY <3>1, <3>2
  <2>7. ASSUME NEW g \in Handler, g # h, TrialJob(job[g])'
        PROVE  Apart(job[g], job[h])' /\ Apart(job[h], job[g])'
    <3>1. job'[g] = job[g] BY <2>1, <2>7 DEF OnlyMoves
    <3>2. TrialJob(job[g]) BY <2>7, <3>1 DEF TrialJob
    <3> QED BY <1>2, <1>4, <2>1, <2>4, <3>1, <3>2 DEF Apart
  <2>8. ASSUME NEW f \in Handler, NEW g \in Handler, TrialJob(job[f])', TrialJob(job[g])'
        PROVE  Apart(job[f], job[g])'
    <3>1. CASE f = h /\ g = h BY <3>1 DEF Apart
    <3>2. CASE f # h /\ g # h
      <4>1. job'[f] = job[f] /\ job'[g] = job[g] BY <2>1, <3>2 DEF OnlyMoves
      <4>2. Apart(job[f], job[g]) BY <2>8, <4>1 DEF TrialInv, TrialJob
      <4> QED BY <1>2, <2>2, <4>1, <4>2 DEF Apart
    <3> QED BY <2>7, <2>8, <3>1, <3>2
  <2> QED BY <2>3, <2>6, <2>8 DEF TrialInv
<1> QED BY <1>1, <1>5, <1>6

LEMMA TrialMarked ==
  ASSUME Typed, TrialInv, NEW h \in Handler, UseMark(h)
  PROVE  TrialInv'
<1>1. PICK i \in job[h].left :
        /\ consumed' = consumed \cup ({i} \cap registered)
        /\ excused' = IF i \in registered THEN excused ELSE excused \cup {person[i]}
        /\ job' = [job EXCEPT ![h].left = @ \ {i},
                              ![h].step = IF job[h].left = {i} THEN "use_write" ELSE "use_mark"]
  BY DEF UseMark
<1>2. UNCHANGED <<person, departed, granted>> /\ job[h].step = "use_mark" BY DEF UseMark, At
<1> DEFINE step == IF job[h].left = {i} THEN "use_write" ELSE "use_mark"
           j == [job[h] EXCEPT !.left = @ \ {i}, !.step = step]
<1>a. job[h] \in Job BY DEF Typed, RequestsOK
<1>3. job' = [job EXCEPT ![h] = j] BY <1>1 DEF Typed, RequestsOK
<1>4. /\ j.step = step /\ j.left = job[h].left \ {i} /\ j.roster = job[h].roster
      /\ j.plan = job[h].plan /\ j.row = job[h].row
  BY <1>a DEF Job
<1> HIDE DEF j
<1>5. job'[h] = j /\ OnlyMoves(h) BY <1>3, Moves
<1>6. consumed \subseteq consumed' /\ excused \subseteq excused' BY <1>1
<1>7. Vouched' /\ OneEach' /\ TrialOncePerPerson'
  BY <1>2, <1>6 DEF TrialInv, Vouched, OneEach, TrialOncePerPerson
<1>8. i \in consumed' \/ person[i] \in excused' BY <1>1
<1>9. ASSUME NEW g \in Handler, TrialJob(job[g])' PROVE TrialJob(job[g])
  <2>1. CASE g = h BY <1>2, <1>4, <1>5, <1>9, <2>1 DEF TrialJob
  <2>2. CASE g # h BY <1>5, <1>9, <2>2 DEF TrialJob, OnlyMoves
  <2> QED BY <2>1, <2>2
<1>10. ASSUME NEW g \in Handler, TrialJob(job[g])' PROVE Recorded(job[g])'
  <2>1. Recorded(job[g]) BY <1>9, <1>10 DEF TrialInv
  <2>2. CASE g = h
    <3>1. ASSUME NEW k \in job[h].roster, person[k] \notin excused'
          PROVE  /\ k \notin departed
                 /\ (step = "use_mark" /\ k \in j.left) \/ k \in consumed'
                 /\ \A p \in Plan : <<p, person[k]>> \in granted => p = job[h].plan
      <4>1. /\ k \notin departed /\ (k \in job[h].left \/ k \in consumed)
            /\ \A p \in Plan : <<p, person[k]>> \in granted => p = job[h].plan
        BY <1>6, <2>1, <2>2, <3>1 DEF Recorded
      <4>2. CASE k = i BY <1>8, <3>1, <4>1, <4>2
      <4>3. CASE k # i BY <1>4, <1>6, <4>1, <4>3
      <4> QED BY <4>2, <4>3
    <3> HIDE DEF step
    <3> QED BY <1>2, <1>4, <1>5, <2>2, <3>1 DEF Recorded
  <2>3. CASE g # h
    <3>1. job'[g] = job[g] BY <1>5, <2>3 DEF OnlyMoves
    <3> QED BY <1>2, <1>6, <2>1, <3>1 DEF Recorded
  <2> QED BY <2>2, <2>3
<1>11. ASSUME NEW g \in Handler PROVE job'[g].plan = job[g].plan /\ job'[g].roster = job[g].roster
  BY <1>4, <1>5 DEF OnlyMoves
<1>12. ASSUME NEW f \in Handler, NEW g \in Handler, TrialJob(job[f])', TrialJob(job[g])'
       PROVE  Apart(job[f], job[g])'
  <2>1. Apart(job[f], job[g]) BY <1>9, <1>12 DEF TrialInv
  <2> QED BY <1>2, <1>6, <1>11, <2>1 DEF Apart
<1> QED BY <1>7, <1>10, <1>12 DEF TrialInv

LEMMA TrialWritten ==
  ASSUME Typed, TrialInv, NEW h \in Handler, UseWritePlan(h)
  PROVE  TrialInv'
<1> DEFINE q == job[h].plan
           ids == job[h].roster
           given == {<<q, person[i]>> : i \in ids}
<1>1. /\ granted' = IF job[h].row.state = "active_trial" THEN granted \cup given ELSE granted
      /\ UNCHANGED <<consumed, person, departed, excused>> /\ job[h].step = "use_write"
  BY DEF UseWritePlan, At
<1>2. OnlyMoves(h) /\ job'[h].step \in {"idle", "refresh_plan"}
  BY AfterUseMoves DEF UseWritePlan
<1>3. ~TrialJob(job'[h]) BY <1>2 DEF TrialJob
<1>4. CASE granted' = granted BY <1>1, <1>2, <1>3, <1>4, TrialQuiet DEF trials
<1>5. CASE job[h].row.state = "active_trial" /\ granted' = granted \cup given
  <2>1. TrialJob(job[h]) /\ Recorded(job[h]) BY <1>1, <1>5 DEF TrialJob, TrialInv
  <2>2. q \in Plan /\ ids \subseteq Installation
    BY <1>1 DEF Typed, RequestsOK, WellFormed, Job
  <2>3. ASSUME NEW i \in ids, person[i] \notin excused
        PROVE  /\ i \in Installation /\ i \notin departed /\ i \in consumed
               /\ \A p \in Plan : <<p, person[i]>> \in granted => p = q
    BY <1>1, <2>1, <2>2, <2>3 DEF Recorded
  <2>4. \A x : x \in given <=> \E i \in ids : x = <<q, person[i]>> OBVIOUS
  <2> HIDE DEF q, ids, given
  <2>5. Vouched'
    <3>1. SUFFICES ASSUME NEW p \in Plan, NEW k \in Installation, <<p, person[k]>> \in granted',
                          k \notin departed, person[k] \notin excused
                   PROVE  k \in consumed
      BY <1>1 DEF Vouched
    <3>2. CASE <<p, person[k]>> \in granted BY <3>1, <3>2 DEF TrialInv, Vouched
    <3>3. CASE <<p, person[k]>> \in given
      <4>1. PICK i \in ids : person[i] = person[k] BY <2>4, <3>3
      <4>2. i \in Installation /\ i \notin departed /\ i \in consumed BY <2>3, <3>1, <4>1
      <4>3. i = k BY <3>1, <4>1, <4>2 DEF TrialInv, OneEach
      <4> QED BY <4>2, <4>3
    <3> QED BY <1>5, <3>1, <3>2, <3>3
  <2>6. OneEach' BY <1>1 DEF TrialInv, OneEach
  <2>7. ASSUME NEW g \in Handler, TrialJob(job[g])'
        PROVE  g # h /\ job'[g] = job[g] /\ TrialJob(job[g]) /\ Recorded(job[g])
    <3>1. g # h BY <1>2, <2>7 DEF TrialJob
    <3>2. job'[g] = job[g] BY <1>2, <3>1 DEF OnlyMoves
    <3> QED BY <2>7, <3>1, <3>2 DEF TrialJob, TrialInv
  <2>8. ASSUME NEW g \in Handler, TrialJob(job[g])' PROVE Recorded(job[g])'
    <3>1. job'[g] = job[g] /\ TrialJob(job[g]) /\ Recorded(job[g]) BY <2>7, <2>8
    <3>2. job[g].roster \subseteq Installation BY DEF Typed, RequestsOK, Job
    <3>3. ASSUME NEW k \in job[g].roster, person[k] \notin excused, NEW p \in Plan,
                 <<p, person[k]>> \in given
          PROVE  p = job[g].plan
      <4>1. PICK i \in ids : person[i] = person[k] /\ p = q BY <2>4, <3>3
      <4>2. i \in Installation /\ i \notin departed BY <2>3, <3>3, <4>1
      <4>3. k \notin departed /\ k \in Installation BY <3>1, <3>2, <3>3 DEF Recorded
      <4>4. i = k BY <3>3, <4>1, <4>2, <4>3 DEF TrialInv, OneEach
      <4>5. Apart(job[h], job[g]) BY <2>1, <3>1 DEF TrialInv
      <4> QED BY <3>3, <4>1, <4>4, <4>5 DEF Apart, q, ids
    <3> QED BY <1>1, <1>5, <3>1, <3>3 DEF Recorded
  <2>9. ASSUME NEW f \in Handler, NEW g \in Handler, TrialJob(job[f])', TrialJob(job[g])'
        PROVE  Apart(job[f], job[g])'
    <3>1. Apart(job[f], job[g]) /\ job'[f] = job[f] /\ job'[g] = job[g]
      BY <2>7, <2>9 DEF TrialInv
    <3> QED BY <1>1, <3>1 DEF Apart
  <2>10. TrialOncePerPerson'
    <3>1. SUFFICES ASSUME NEW x \in granted', NEW y \in granted', x[2] = y[2],
                          x[2] \notin excused
                   PROVE  x[1] = y[1]
      BY <1>1 DEF TrialOncePerPerson
    <3>2. CASE x \in granted /\ y \in granted BY <3>1, <3>2 DEF TrialInv, TrialOncePerPerson
    <3>3. ASSUME NEW a \in given, NEW b \in granted, a[2] = b[2], b[2] \notin excused
          PROVE  a[1] = b[1]
      <4>1. PICK i \in ids : a = <<q, person[i]>> BY <2>4
      <4>2. b \in Plan \X Installation BY DEF Typed, HistoryOK
      <4>3. b[1] \in Plan /\ b = <<b[1], person[i]>> BY <3>3, <4>1, <4>2
      <4>4. person[i] \notin excused BY <3>3, <4>1
      <4>5. b[1] = q BY <2>3, <4>3, <4>4
      <4> QED BY <4>1, <4>5
    <3>4. CASE x \in given /\ y \in given BY <2>4, <3>4
    <3> QED BY <1>5, <3>1, <3>2, <3>3, <3>4
  <2> QED BY <2>5, <2>6, <2>8, <2>9, <2>10 DEF TrialInv
<1> QED BY <1>1, <1>4, <1>5

\* An installation changes hands.
LEMMA TrialMoved ==
  ASSUME Typed, TrialInv, NEW h \in Handler, MigrateCommit(h)
  PROVE  TrialInv'
<1> DEFINE old == job[h].who
           new == job[h].new
           named == \E g \in Handler : Granting(g) /\ job[g].roster \cap {old, new} # {}
           again == old \in departed /\ ~(person[new] = person[old] /\ new \notin departed)
<1>1. /\ consumed' = (IF old \in consumed THEN consumed \cup {new} ELSE consumed) \ {old}
      /\ person' = [person EXCEPT ![new] = person[old]]
      /\ departed' = (departed \ {new}) \cup {old}
      /\ excused' = excused \cup MoveExcuses(old, new)
      /\ granted' = granted /\ Done(h) /\ job[h].step = "migrate"
  BY DEF MigrateCommit, At
<1>2. old \in Installation /\ new \in Installation
  BY <1>1 DEF Typed, RequestsOK, WellFormed
<1>3. /\ excused \subseteq excused'
      /\ named => person[old] \in excused' /\ person[new] \in excused'
      /\ again => person[old] \in excused'
  BY <1>1 DEF MoveExcuses
<1>4. OnlyMoves(h) /\ job'[h].step = "idle" BY <1>1, DoneMoves
<1> HIDE DEF old, new, named, again
<1>5. /\ person'[new] = person[old]
      /\ \A i \in Installation : i # new => person'[i] = person[i]
  BY <1>1, <1>2 DEF Typed, HistoryOK
<1>6. Vouched'
  <2>1. SUFFICES ASSUME NEW p \in Plan, NEW i \in Installation, <<p, person'[i]>> \in granted,
                        i \notin departed', person'[i] \notin excused'
                 PROVE  i \in consumed'
    BY <1>1 DEF Vouched
  <2>2. i # old BY <1>1, <2>1
  <2>3. CASE i = new
    <3>1. <<p, person[old]>> \in granted /\ person[old] \notin excused' /\ person[old] \notin excused
      BY <1>3, <1>5, <2>1, <2>3
    <3>2. CASE old \notin departed
      <4>1. old \in consumed BY <1>2, <3>1, <3>2 DEF TrialInv, Vouched
      <4> QED BY <1>1, <2>2, <2>3, <4>1
    <3>3. CASE old \in departed
      <4>1. person[new] = person[old] /\ new \notin departed BY <1>3, <3>1, <3>3 DEF again
      <4>2. new \in consumed BY <1>2, <3>1, <4>1 DEF TrialInv, Vouched
      <4> QED BY <1>1, <2>2, <2>3, <4>2
    <3> QED BY <3>2, <3>3
  <2>4. CASE i # new
    <3>1. person'[i] = person[i] /\ i \notin departed BY <1>1, <1>5, <2>1, <2>4
    <3>2. i \in consumed BY <1>3, <2>1, <3>1 DEF TrialInv, Vouched
    <3> QED BY <1>1, <2>2, <3>2
  <2> QED BY <2>3, <2>4
<1>7. OneEach'
  <2>1. SUFFICES ASSUME NEW i \in Installation, NEW k \in Installation, person'[i] = person'[k],
                        i \notin departed', k \notin departed', i # k
                 PROVE  person'[i] \in excused'
    BY DEF OneEach
  <2>2. i # old /\ k # old BY <1>1, <2>1
  <2>3. ASSUME NEW m \in Installation, m # new, m # old, m \notin departed',
               person[m] = person[old]
        PROVE  person[old] \in excused'
    <3>1. m \notin departed BY <1>1, <2>3
    <3>2. CASE old \notin departed BY <1>2, <1>3, <2>3, <3>1, <3>2 DEF TrialInv, OneEach
    <3>3. CASE old \in departed
      <4>1. CASE again BY <1>3, <4>1
      <4>2. CASE ~again
        <5>1. person[new] = person[old] /\ new \notin departed BY <3>3, <4>2 DEF again
        <5> QED BY <1>2, <1>3, <2>3, <3>1, <5>1 DEF TrialInv, OneEach
      <4> QED BY <4>1, <4>2
    <3> QED BY <3>2, <3>3
  <2>4. CASE i # new /\ k # new
    <3>1. person[i] = person[k] /\ i \notin departed /\ k \notin departed /\ person'[i] = person[i]
      BY <1>1, <1>5, <2>1, <2>4
    <3> QED BY <1>3, <2>1, <3>1 DEF TrialInv, OneEach
  <2>5. CASE i = new BY <1>5, <2>1, <2>2, <2>3, <2>5
  <2>6. CASE k = new BY <1>5, <2>1, <2>2, <2>3, <2>6
  <2> QED BY <2>4, <2>5, <2>6
<1>8. ASSUME NEW g \in Handler, TrialJob(job[g])'
      PROVE  job'[g] = job[g] /\ TrialJob(job[g]) /\ job[g].roster \subseteq Installation
  <2>1. g # h BY <1>4, <1>8 DEF TrialJob
  <2>2. job'[g] = job[g] BY <1>4, <2>1 DEF OnlyMoves
  <2> QED BY <1>8, <2>2 DEF TrialJob, Typed, RequestsOK, Job
<1>9. ASSUME NEW g \in Handler, TrialJob(job[g]), NEW i \in job[g].roster, i \in {old, new},
             i \in Installation
      PROVE  person'[i] \in excused'
  <2>1. named BY <1>9, GrantingIs DEF named
  <2> QED BY <1>3, <1>5, <1>9, <2>1
<1>10. ASSUME NEW g \in Handler, TrialJob(job[g])' PROVE Recorded(job[g])'
  <2>1. job'[g] = job[g] /\ TrialJob(job[g]) /\ Recorded(job[g])
        /\ job[g].roster \subseteq Installation
    BY <1>8, <1>10 DEF TrialInv
  <2>2. ASSUME NEW i \in job[g].roster, person'[i] \notin excused'
        PROVE  /\ i \notin departed'
               /\ (job[g].step = "use_mark" /\ i \in job[g].left) \/ i \in consumed'
               /\ \A p \in Plan : <<p, person'[i]>> \in granted' => p = job[g].plan
    <3>1. i \in Installation /\ i # old /\ i # new BY <1>9, <2>1, <2>2
    <3>2. person'[i] = person[i] /\ person[i] \notin excused BY <1>3, <1>5, <2>2, <3>1
    <3>3. /\ i \notin departed
          /\ (job[g].step = "use_mark" /\ i \in job[g].left) \/ i \in consumed
          /\ \A p \in Plan : <<p, person[i]>> \in granted => p = job[g].plan
      BY <2>1, <3>2 DEF Recorded
    <3> QED BY <1>1, <3>1, <3>2, <3>3
  <2> QED BY <2>1, <2>2 DEF Recorded
<1>11. ASSUME NEW f \in Handler, NEW g \in Handler, TrialJob(job[f])', TrialJob(job[g])'
       PROVE  Apart(job[f], job[g])'
  <2>1. /\ Apart(job[f], job[g]) /\ job'[f] = job[f] /\ job'[g] = job[g] /\ TrialJob(job[f])
        /\ job[f].roster \subseteq Installation
    BY <1>8, <1>11 DEF TrialInv
  <2>2. ASSUME NEW i \in job[f].roster \cap job[g].roster, job[f].plan # job[g].plan
        PROVE  person'[i] \in excused'
    <3>1. i \in Installation /\ person[i] \in excused BY <2>1, <2>2 DEF Apart
    <3>2. CASE i \in {old, new} BY <1>9, <2>1, <3>1, <3>2
    <3>3. CASE i \notin {old, new} BY <1>3, <1>5, <3>1, <3>3
    <3> QED BY <3>2, <3>3
  <2> QED BY <2>1, <2>2 DEF Apart
<1>12. TrialOncePerPerson' BY <1>1, <1>3 DEF TrialInv, TrialOncePerPerson
<1> QED BY <1>6, <1>7, <1>10, <1>11, <1>12 DEF TrialInv

\* Whatever else a request does, no trial is being recorded after it.
LEMMA TrialElsewhere ==
  ASSUME Typed, NEW h \in Handler,
         \/ RosterReadPlan(h) \/ RosterWritePlan(h) \/ RevokeReadPlan(h) \/ RevokeWritePlan(h)
         \/ UseReadRoster(h) \/ UseReadPlan(h) \/ Refresh(h) \/ Decide(h) \/ GiveUp(h)
  PROVE  ~TrialJob(job'[h])
<1>0. ~At(h, "idle")
  BY ServeOvertakes DEF Serves, Use
<1>a. job[h] \in Job BY <1>0, AtStep
<1>c. ASSUME NEW step, NEW row, step \notin {"use_mark", "use_write"},
             job' = [job EXCEPT ![h].step = step, ![h].row = row]
      PROVE  ~TrialJob(job'[h])
  <2> DEFINE j == [job[h] EXCEPT !.step = step, !.row = row]
  <2>1. job' = [job EXCEPT ![h] = j] BY <1>c DEF Typed, RequestsOK
  <2>2. j.step = step BY <1>a DEF Job
  <2> HIDE DEF j
  <2>3. job'[h].step = step BY <2>1, <2>2, Moves
  <2> QED BY <1>c, <2>3 DEF TrialJob
<1>d. CASE Done(h) BY <1>d, DoneMoves DEF TrialJob
<1>e. CASE AfterUse(h) BY <1>e, AfterUseMoves DEF TrialJob
<1>f. CASE AfterRefresh(h) BY <1>f, AfterRefreshMoves DEF TrialJob
<1>g. ASSUME NEW step, step \notin {"use_mark", "use_write"}, Goto(h, step) PROVE ~TrialJob(job'[h])
  BY <1>g, GotoStep DEF TrialJob
<1>1. CASE UseReadRoster(h)
  <2> DEFINE ids == ActiveRoster(job[h].plan)
             j == [job[h] EXCEPT !.step = "use_plan", !.roster = ids, !.at = now]
  <2>1. AfterUse(h) \/ job' = [job EXCEPT ![h] = j]
    BY <1>1 DEF UseReadRoster, Typed, RequestsOK
  <2>2. j.step = "use_plan" BY <1>a DEF Job
  <2> HIDE DEF j
  <2>3. CASE job' = [job EXCEPT ![h] = j] BY <2>2, <2>3, Moves DEF TrialJob
  <2> QED BY <1>e, <2>1, <2>3
<1>2. CASE UseReadPlan(h) BY <1>2, <1>e, <1>g DEF UseReadPlan
<1>3. CASE RefreshReadRoster(h)
  <2> DEFINE ids == ActiveRoster(job[h].plan)
             j == [job[h] EXCEPT !.step = "refresh_paid", !.roster = ids, !.at = now]
  <2>1. AfterRefresh(h) \/ job' = [job EXCEPT ![h] = j]
    BY <1>3 DEF RefreshReadRoster, Typed, RequestsOK
  <2>2. j.step = "refresh_paid" BY <1>a DEF Job
  <2> HIDE DEF j
  <2>3. CASE job' = [job EXCEPT ![h] = j] BY <2>2, <2>3, Moves DEF TrialJob
  <2> QED BY <1>f, <2>1, <2>3
<1>4. CASE RefreshReadPlan(h) BY <1>4, <1>c, <1>f DEF RefreshReadPlan
<1>5. CASE RefreshReadPaid(h) BY <1>5, <1>c, <1>f DEF RefreshReadPaid
<1>6. CASE RevokeReadPlan(h) BY <1>6, <1>c, <1>g DEF RevokeReadPlan
<1>7. CASE DecideReadPlan(h) BY <1>7, <1>c, <1>d DEF DecideReadPlan, Answer
<1>8. CASE DecideReadRoster(h)
  <2> DEFINE ids == ActiveRoster(job[h].plan)
             j == [job[h] EXCEPT !.step = "decide_paid", !.roster = ids]
  <2>1. Done(h) \/ job' = [job EXCEPT ![h] = j]
    BY <1>8 DEF DecideReadRoster, Answer, Typed, RequestsOK
  <2>2. j.step = "decide_paid" BY <1>a DEF Job
  <2> HIDE DEF j
  <2>3. CASE job' = [job EXCEPT ![h] = j] BY <2>2, <2>3, Moves DEF TrialJob
  <2> QED BY <1>d, <2>1, <2>3
<1>9. CASE RosterReadPlan(h) BY <1>9, <1>d, <1>g DEF RosterReadPlan
<1> QED
  BY <1>1, <1>2, <1>3, <1>4, <1>5, <1>6, <1>7, <1>8, <1>9, <1>d, <1>f
  DEF RosterWritePlan, RevokeWritePlan, Refresh, RefreshWritePlan, Decide, DecideReadPaid,
      Answer, GiveUp

LEMMA TrialStep == Typed /\ TrialInv /\ [Next]_vars => TrialInv'
<1> SUFFICES ASSUME Typed, TrialInv, [Next]_vars PROVE TrialInv' OBVIOUS
<1>1. ASSUME NEW h \in Handler, Starts(h) PROVE TrialInv'
  <2>1. UNCHANGED <<consumed, trials>>
    BY <1>1 DEF Starts, SetActiveRoster, ReportActiveUse, UpsertLicenseStatus, Introspect,
                MigrateReadRoster, tables, history
  <2>2. OnlyMoves(h) /\ ~TrialJob(job'[h]) BY <1>1, StartMoves DEF First, TrialJob
  <2> QED BY <2>1, <2>2, TrialQuiet
<1>2. ASSUME NEW h \in Handler,
             \/ RosterReadPlan(h) \/ RosterWritePlan(h) \/ RevokeReadPlan(h) \/ RevokeWritePlan(h)
             \/ UseReadRoster(h) \/ UseReadPlan(h) \/ Refresh(h) \/ Decide(h) \/ GiveUp(h)
      PROVE  TrialInv'
  <2>1. UNCHANGED <<consumed, trials>>
    BY <1>2
    DEF RosterReadPlan, RosterWritePlan, RevokeReadPlan, RevokeWritePlan, UseReadRoster,
        UseReadPlan, Refresh, RefreshReadPlan, RefreshReadRoster, RefreshReadPaid,
        RefreshWritePlan, Decide, DecideReadPlan, DecideReadRoster, DecideReadPaid, GiveUp,
        tables, history
  <2>2. OnlyMoves(h) BY <1>2, ServeMoves DEF Serves, Use
  <2>3. ~TrialJob(job'[h]) BY <1>2, TrialElsewhere
  <2> QED BY <2>1, <2>2, <2>3, TrialQuiet
<1>3. CASE Tick \/ (\E i \in Installation : RegisterInstallation(i)) \/ UNCHANGED vars
  <2>1. UNCHANGED <<job, consumed, person, departed, granted, excused>>
    BY <1>3 DEF Tick, RegisterInstallation, vars, tables, history, trials
  <2> QED
    BY <2>1
    DEF TrialInv, Vouched, OneEach, Recorded, Apart, TrialJob, TrialOncePerPerson
<1> QED
  BY <1>1, <1>2, <1>3, TrialDecided, TrialMarked, TrialWritten, TrialMoved
  DEF Next, Starts, Use

\* Nobody takes part in the trials of two plans (RecordActiveUse over
\* AnyTrialConsumed and MarkTrialConsumed, and MigrateInstallation, housing.go),
\* however requests interleave and wherever installations move, but for the
\* persons the code itself leaves unprotected (Excused, UseMark, MoveExcuses).
THEOREM OneTrialPerPerson == Spec => []TrialOncePerPerson
<1>1. Init => Typed /\ TrialInv
  <2>1. Init => TrialInv
    BY DEF Init, TrialInv, Vouched, OneEach, TrialJob, Idle, TrialOncePerPerson
  <2> QED BY <2>1, TypedInit
<1>2. Typed /\ TrialInv /\ [Next]_vars => (Typed /\ TrialInv)' BY TypedStep, TrialStep
<1>3. TrialInv => TrialOncePerPerson BY DEF TrialInv
<1> QED BY <1>1, <1>2, <1>3, PTL DEF Spec
================================================================================
