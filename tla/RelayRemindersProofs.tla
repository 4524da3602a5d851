-------------------------- MODULE RelayRemindersProofs -------------------------
(***************************************************************************)
(* Proofs about RelayReminders, for any targets, zones, terms, updates and *)
(* clock readings.                                                         *)
(***************************************************************************)
EXTENDS RelayReminders, TLAPS

\* A target some request wants and none has silenced since is the only kind
\* that is live; its row carries the generation that named it last.
Wanted ==
  \A t \in Target : Live(t) =>
    /\ t \notin silenced
    /\ t \in HousingTarget => targets[t].generation = named[t]

\* Its lock on the plan's row lets nobody put back a target of an older
\* generation while a reconciliation is open.
Superseding ==
  \A p \in Plan : ingest[p] # None =>
    \A t \in HousingTarget : PlanOf[t] = p /\ Live(t) =>
      t \in ingest[p].superseded \/ targets[t].generation >= ingest[p].update.generation

\* The pending fires of a target an open reconciliation has written are those
\* it has cancelled, and those a zone registration has committed since.
Accounted ==
  \A p \in Plan : ingest[p] # None =>
    PendingOf(Upserted(p)) \subseteq ingest[p].gone \cup beside[p]

\* 14:00 on whole calendar days is a whole number of hours.
LEMMA FireTimesAreInstants ==
  ASSUME NEW t \in HousingTarget, NEW terms \in Terms, NEW z \in Zone, NEW after \in Nat
  PROVE  FireTimesOf(t, terms, z, after) \subseteq Int
<1>1. terms.due \in Int /\ terms.days \in Nat /\ z \in Int
  BY InputAssumption
<1>2. \A k \in Int : LocalFireAt(DueCalendarDate(terms.due, z) + k, z) \in Int
  BY <1>1 DEF LocalFireAt, DueCalendarDate, Day, localFireHour
<1>3. \A k \in Nat : LocalFireAt(DueCalendarDate(terms.due, z) - k, z) \in Int
  BY <1>1 DEF LocalFireAt, DueCalendarDate, Day, localFireHour
<1>4. BeforeDateDayOffsets(terms.days) \subseteq Nat
  BY DEF BeforeDateDayOffsets
<1>5. HousingBeforeDateFires(terms.due, terms.days, z, after) \subseteq Int
  BY <1>3, <1>4 DEF HousingBeforeDateFires
<1>6. HousingOverdueFires(terms.due, z, after) \subseteq Int
  BY <1>2 DEF HousingOverdueFires
<1>7. KindOf[t] \in {"before_due", "overdue"}
  BY TargetAssumption
<1>. QED
  BY <1>5, <1>6, <1>7 DEF FireTimesOf

\* The fires of a target are rows it may have.
LEMMA FiresAreInstants ==
  ASSUME NEW t \in HousingTarget, NEW terms \in Terms, NEW z \in Zone \cup {None}, NEW after \in Nat
  PROVE  Fires(t, terms, z, after) \subseteq {t} \X Int
<1>1. CASE z = None
  BY <1>1 DEF Fires
<1>2. CASE z # None
  BY <1>2, FireTimesAreInstants DEF Fires
<1>. QED
  BY <1>1, <1>2

\* A commit of well-typed fires keeps every row under one status, and what
\* others hold is still a pending or a cancelled row.
LEMMA CommitTypes ==
  ASSUME TypeOK, NEW gone \in SUBSET (pending \cup cancelled), NEW new \in SUBSET Fire,
         CommitFires(gone, new)
  PROVE  /\ pending' \subseteq Fire /\ fired' \subseteq Fire
         /\ delivered' \subseteq Fire /\ cancelled' \subseteq Fire
         /\ OneStatus'
         /\ pending \cup cancelled \subseteq pending' \cup cancelled'
<1>1. /\ pending' = (pending \ gone) \cup (new \ FireRows)
      /\ cancelled' = cancelled \cup gone
      /\ fired' = fired /\ delivered' = delivered
  BY DEF CommitFires
<1>2. pending \subseteq Fire /\ fired \subseteq Fire /\ delivered \subseteq Fire /\ cancelled \subseteq Fire
  BY DEF TypeOK
<1>3. OneStatus
  BY DEF TypeOK
<1>4. OneStatus'
  BY <1>1, <1>3 DEF OneStatus, FireRows
<1>. QED
  BY <1>1, <1>2, <1>4

\* The open zone registrations stay well-typed when one of them moves and
\* what they hold is still pending or cancelled.
LEMMA JobsKept ==
  ASSUME TypeOK, pending \cup cancelled \subseteq pending' \cup cancelled',
         NEW h \in Handler, JobOK(job[h])', \A i \in Handler \ {h} : job'[i] = job[i],
         \A r \in Recipient : zone[r] # None => zone'[r] # None
  PROVE  \A i \in Handler : JobOK(job[i])'
<1>. SUFFICES ASSUME NEW i \in Handler
              PROVE  JobOK(job[i])'
  BY DEF JobOK
<1>1. CASE i = h
  BY <1>1
<1>2. CASE i # h
  <2>1. JobOK(job[i])
    BY DEF TypeOK
  <2>. QED
    BY <1>2, <2>1 DEF JobOK
<1>. QED
  BY <1>1, <1>2

\* An open reconciliation does, when the targets it supersedes stay live.
LEMMA IngestKept ==
  ASSUME TypeOK, pending \cup cancelled \subseteq pending' \cup cancelled',
         NEW p \in Plan, ingest'[p] = ingest[p],
         ingest[p] # None =>
           \A t \in ingest[p].superseded : targets'[t] # None /\ targets'[t].live
  PROVE  IngestOK(p)'
<1>. SUFFICES ASSUME ingest'[p] # None
              PROVE  IngestOK(p)'
  BY DEF IngestOK
<1>1. IngestOK(p)
  BY DEF TypeOK
<1>2. ingest'[p].superseded \subseteq
        {t \in HousingTarget : PlanOf[t] = p /\ targets'[t] # None /\ targets'[t].live}
  BY <1>1 DEF IngestOK
<1>. QED
  BY <1>1, <1>2 DEF IngestOK, Live

\* All of them do, when no target is touched.
LEMMA IngestsKept ==
  ASSUME TypeOK, pending \cup cancelled \subseteq pending' \cup cancelled',
         ingest' = ingest, targets' = targets
  PROVE  \A p \in Plan : IngestOK(p)'
<1>. SUFFICES ASSUME NEW p \in Plan
              PROVE  IngestOK(p)'
  BY DEF IngestOK
<1>1. IngestOK(p)
  BY DEF TypeOK
<1>2. ingest[p] # None => \A t \in ingest[p].superseded : targets'[t] # None /\ targets'[t].live
  BY <1>1 DEF IngestOK, Live
<1>. QED
  BY <1>2, IngestKept

\* Cancelling a row keeps all of it but its liveness.
LEMMA CancelledRow ==
  ASSUME NEW r \in Row
  PROVE  LET c == [r EXCEPT !.live = FALSE]
         IN  /\ c \in Row /\ c.terms = r.terms /\ c.generation = r.generation
             /\ c.live = FALSE
  BY DEF Row

\* The steps of a zone registration keep the types.
LEMMA RegisterTypes == TypeOK /\ Register => TypeOK'
<1>. SUFFICES ASSUME TypeOK, NEW h \in Handler,
                     \/ \E r \in Recipient, z \in Zone : RegisterZone(h, r, z)
                     \/ ReadZone(h)
                     \/ ReadTargets(h)
                     \/ \E t \in HousingTarget : RecomputeTarget(h, t)
                     \/ RecomputeCommit(h)
                     \/ GiveUp(h)
              PROVE  TypeOK'
  BY DEF Register
<1>0. JobOK(job[h]) /\ DOMAIN job = Handler /\ DOMAIN ingest = Plan
  BY DEF TypeOK
<1>1. ASSUME NEW r \in Recipient, NEW z \in Zone, RegisterZone(h, r, z)
      PROVE  TypeOK'
  <2>1. zone' \in [Recipient -> Zone \cup {None}] /\ zone'[r] # None
    BY <1>1, InputAssumption DEF RegisterZone, TypeOK
  <2>2. \A i \in Recipient : zone[i] # None => zone'[i] # None
    BY <1>1, <2>1 DEF RegisterZone, TypeOK
  <2>3. JobOK(job[h])'
    <3>1. /\ DOMAIN job' = Handler
          /\ job'[h] = [Idle EXCEPT !.step = "registered", !.recipient = r, !.at = now]
          /\ now \in Nat
      BY <1>0, <1>1 DEF RegisterZone, TypeOK
    <3>. QED
      BY <2>1, <3>1 DEF JobOK, Idle
  <2>4. \A i \in Handler : JobOK(job[i])'
    <3>1. \A i \in Handler \ {h} : job'[i] = job[i]
      BY <1>0, <1>1 DEF RegisterZone
    <3>2. pending \cup cancelled \subseteq pending' \cup cancelled'
      BY <1>1 DEF RegisterZone, rows
    <3>. QED
      BY <2>2, <2>3, <3>1, <3>2, JobsKept DEF JobOK
  <2>5. \A p \in Plan : IngestOK(p)'
    <3>1. /\ pending \cup cancelled \subseteq pending' \cup cancelled'
          /\ ingest' = ingest /\ targets' = targets
      BY <1>1 DEF RegisterZone, rows
    <3>. QED
      BY <3>1, IngestsKept DEF IngestOK
  <2>. QED
    BY <1>0, <1>1, <2>1, <2>4, <2>5 DEF RegisterZone, TypeOK, rows, history, OneStatus
<1>2. ASSUME UNCHANGED <<now, zone, planGeneration, targets, rows, ingest, owed, history>>,
             JobOK(job[h])', DOMAIN job' = Handler, \A i \in Handler \ {h} : job'[i] = job[i]
      PROVE  TypeOK'
  <2>1. \A i \in Handler : JobOK(job[i])'
    BY <1>2, JobsKept DEF rows, JobOK
  <2>2. \A p \in Plan : IngestOK(p)'
    BY <1>2, IngestsKept DEF rows, IngestOK
  <2>. QED
    BY <1>2, <2>1, <2>2 DEF TypeOK, rows, history, OneStatus
<1>3. CASE ReadZone(h)
  <2>1. zone[job[h].recipient] \in Zone
    BY <1>0, <1>3 DEF ReadZone, TypeOK, JobOK
  <2>. QED
    BY <1>0, <1>2, <1>3, <2>1 DEF ReadZone, JobOK, rows
<1>4. CASE ReadTargets(h)
  <2>1. \A t \in HousingTarget : Live(t) => targets[t].terms \in Terms
    BY DEF TypeOK, Live
  <2>2. JobOK(job[h])'
    BY <1>0, <1>4, <2>1 DEF ReadTargets, JobOK, Idle, Live, rows
  <2>. QED
    BY <1>0, <1>2, <1>4, <2>2 DEF ReadTargets
<1>5. ASSUME NEW t \in HousingTarget, RecomputeTarget(h, t)
      PROVE  TypeOK'
  <2>1. job[h].seen[t] \in Terms /\ job[h].zone \in Zone /\ job[h].at \in Nat
    BY <1>0, <1>5 DEF RecomputeTarget, JobOK
  <2>2. Fires(t, job[h].seen[t], job[h].zone, job[h].at) \subseteq {t} \X Int
    BY <2>1, FiresAreInstants
  <2>3. Fires(t, job[h].seen[t], job[h].zone, job[h].at) \subseteq Fire
    BY <2>2 DEF Fire, Target
  <2>. DEFINE left == job[h].left \ {t}
              gone == job[h].gone \cup PendingOf({t})
              new == job[h].new \cup Fires(t, job[h].seen[t], job[h].zone, job[h].at)
  <2>4. job' = [job EXCEPT ![h].left = left, ![h].gone = gone, ![h].new = new]
    BY <1>5 DEF RecomputeTarget
  <2>5. /\ left \subseteq job[h].left
        /\ gone \subseteq job[h].gone \cup pending
        /\ new \subseteq job[h].new \cup Fire
    BY <2>3 DEF PendingOf
  <2>. HIDE DEF left, gone, new
  <2>6. /\ DOMAIN job'[h] = DOMAIN Idle
        /\ job'[h].step = job[h].step /\ job'[h].recipient = job[h].recipient
        /\ job'[h].at = job[h].at /\ job'[h].zone = job[h].zone
        /\ job'[h].seen = job[h].seen /\ job'[h].left = left
        /\ job'[h].gone = gone /\ job'[h].new = new
    BY <1>0, <2>4 DEF JobOK, Idle
  <2>7. UNCHANGED <<now, zone, planGeneration, targets, rows, ingest, owed, history>>
    BY <1>5 DEF RecomputeTarget
  <2>8. JobOK(job[h])'
    BY <1>0, <1>5, <2>5, <2>6, <2>7 DEF JobOK, RecomputeTarget, rows
  <2>. QED
    BY <1>0, <1>2, <2>4, <2>7, <2>8
<1>6. CASE RecomputeCommit(h)
  <2>1. job[h].gone \in SUBSET (pending \cup cancelled) /\ job[h].new \in SUBSET Fire
    BY <1>0 DEF JobOK
  <2>2. CommitFires(job[h].gone, job[h].new)
    BY <1>6 DEF RecomputeCommit
  <2>3. /\ pending' \subseteq Fire /\ fired' \subseteq Fire
        /\ delivered' \subseteq Fire /\ cancelled' \subseteq Fire
        /\ OneStatus'
        /\ pending \cup cancelled \subseteq pending' \cup cancelled'
    BY <2>1, <2>2, CommitTypes
  <2>4. JobOK(job[h])'
    BY <1>0, <1>6 DEF RecomputeCommit, JobOK, Idle
  <2>5. DOMAIN job' = Handler /\ \A i \in Handler : JobOK(job[i])'
    <3>1. DOMAIN job' = Handler /\ zone' = zone /\ \A i \in Handler \ {h} : job'[i] = job[i]
      BY <1>0, <1>6 DEF RecomputeCommit
    <3>. QED
      BY <2>3, <2>4, <3>1, JobsKept DEF JobOK
  <2>6. \A p \in Plan : IngestOK(p)'
    <3>1. ingest' = ingest /\ targets' = targets
      BY <1>6 DEF RecomputeCommit
    <3>. QED
      BY <2>3, <3>1, IngestsKept DEF IngestOK
  <2>7. beside' \in [Plan -> SUBSET Fire]
    <3>1. beside' = [p \in Plan |-> IF ingest[p] = None THEN {}
                        ELSE beside[p] \cup {f \in pending' \ pending : f[1] \in Upserted(p)}]
      BY <1>6 DEF RecomputeCommit
    <3>2. beside \in [Plan -> SUBSET Fire]
      BY DEF TypeOK
    <3>3. \A p \in Plan : beside[p] \cup {f \in pending' \ pending : f[1] \in Upserted(p)}
                           \in SUBSET Fire
      BY <2>3, <3>2
    <3>. QED
      BY <3>1, <3>3
  <2>. QED
    BY <1>0, <1>6, <2>3, <2>5, <2>6, <2>7 DEF RecomputeCommit, TypeOK
<1>7. CASE GiveUp(h)
  <2>1. JobOK(job[h])'
    BY <1>0, <1>7 DEF GiveUp, JobOK, Idle
  <2>. QED
    BY <1>0, <1>2, <1>7, <2>1 DEF GiveUp
<1>. QED
  BY <1>1, <1>3, <1>4, <1>5, <1>6, <1>7

\* A row is live and well-typed, or it is a row cancelled.
LEMMA RowTypes ==
  ASSUME TypeOK, NEW S,
         targets' = [t \in Target |->
           IF t \in S /\ Live(t) THEN [targets[t] EXCEPT !.live = FALSE] ELSE targets[t]]
  PROVE  /\ targets' \in [Target -> Row \cup {None}]
         /\ \A t \in HousingTarget : targets'[t] # None => targets'[t].terms \in Terms
<1>1. \A t \in Target : Live(t) => targets[t] \in Row
  BY DEF TypeOK, Live
<1>2. \A t \in Target : targets'[t] \in Row \cup {None}
  BY <1>1, CancelledRow DEF TypeOK
<1>3. \A t \in HousingTarget : targets'[t] # None => targets'[t].terms \in Terms
  <2>. SUFFICES ASSUME NEW t \in HousingTarget, targets'[t] # None
                PROVE  targets'[t].terms \in Terms
    OBVIOUS
  <2>1. CASE t \in S /\ Live(t)
    BY <1>1, <2>1, CancelledRow DEF TypeOK, Target, Live
  <2>2. CASE ~(t \in S /\ Live(t))
    BY <2>2 DEF TypeOK, Target
  <2>. QED
    BY <2>1, <2>2
<1>. QED
  BY <1>2, <1>3

\* The statements of an open reconciliation keep the types.
LEMMA StatementTypes ==
  ASSUME TypeOK, NEW p \in Plan, IngestOK(p)', DOMAIN ingest' = Plan,
         \A q \in Plan \ {p} : ingest'[q] = ingest[q],
         UNCHANGED <<now, zone, planGeneration, targets, rows, job, owed, named, silenced>>,
         beside' \in [Plan -> SUBSET Fire]
  PROVE  TypeOK'
<1>1. \A q \in Plan : IngestOK(q)'
  <2>. SUFFICES ASSUME NEW q \in Plan
                PROVE  IngestOK(q)'
    BY DEF IngestOK
  <2>1. CASE q = p
    BY <2>1
  <2>2. CASE q # p
    <3>1. IngestOK(q)
      BY DEF TypeOK
    <3>2. ingest[q] # None => \A t \in ingest[q].superseded : targets'[t] # None /\ targets'[t].live
      BY <3>1 DEF IngestOK, Live
    <3>. QED
      BY <2>2, <3>2, IngestKept DEF rows
  <2>. QED
    BY <2>1, <2>2
<1>. QED
  BY <1>1 DEF TypeOK, rows, OneStatus, JobOK

LEMMA ReconcileTypes ==
  ASSUME TypeOK, NEW p \in Plan
  PROVE  /\ \A u \in PlanUpdate : u.plan = p /\ ReconcileBegin(u) => TypeOK'
         /\ \A t \in HousingTarget : UpsertTarget(p, t) => TypeOK'
         /\ ArmTarget(p) => TypeOK'
         /\ ReconcileFails(p) => TypeOK'
<1>0. IngestOK(p) /\ DOMAIN ingest = Plan /\ beside \in [Plan -> SUBSET Fire] /\ now \in Nat
  BY DEF TypeOK
<1>1. ASSUME NEW u \in PlanUpdate, u.plan = p, ReconcileBegin(u)
      PROVE  TypeOK'
  <2>. DEFINE superseded == {t \in HousingTarget : /\ PlanOf[t] = u.plan /\ Live(t)
                                                   /\ targets[t].generation < u.generation}
              gone == PendingOf(superseded \cup {t \in Target : Dead(t)})
              opened == [update |-> u, at |-> now, superseded |-> superseded,
                         left |-> DOMAIN u.terms, arming |-> None, gone |-> gone, new |-> {}]
  <2>1. ingest' = [ingest EXCEPT ![p] = opened]
    BY <1>1 DEF ReconcileBegin
  <2>2. gone \subseteq pending
    BY DEF PendingOf
  <2>3. superseded \subseteq {t \in HousingTarget : PlanOf[t] = p /\ targets[t] # None /\ targets[t].live}
    BY <1>1 DEF Live
  <2>4. UNCHANGED <<now, zone, planGeneration, targets, rows, job, owed, named, silenced>>
    BY <1>1 DEF ReconcileBegin
  <2>5. beside' \in [Plan -> SUBSET Fire]
    BY <1>0, <1>1 DEF ReconcileBegin
  <2>. HIDE DEF superseded, gone
  <2>6. ingest'[p] = opened
    BY <1>0, <2>1
  <2>7. IngestOK(p)'
    BY <1>0, <1>1, <2>2, <2>3, <2>4, <2>6 DEF IngestOK, Live, rows
  <2>. QED
    BY <1>0, <2>1, <2>4, <2>5, <2>7, StatementTypes
<1>2. ASSUME NEW t \in HousingTarget, UpsertTarget(p, t)
      PROVE  TypeOK'
  <2>. DEFINE gone == ingest[p].gone \cup PendingOf({t})
  <2>1. ingest' = [ingest EXCEPT ![p].arming = t, ![p].gone = gone]
    BY <1>2 DEF UpsertTarget
  <2>2. gone \subseteq ingest[p].gone \cup pending
    BY DEF PendingOf
  <2>3. /\ UNCHANGED <<now, zone, planGeneration, targets, rows, job, owed, named, silenced>>
        /\ beside' = beside
        /\ ingest[p] # None
        /\ t \in ingest[p].left
    BY <1>2 DEF UpsertTarget, history
  <2>. HIDE DEF gone
  <2>4. /\ DOMAIN ingest'[p] = DOMAIN ingest[p]
        /\ ingest'[p].update = ingest[p].update /\ ingest'[p].at = ingest[p].at
        /\ ingest'[p].superseded = ingest[p].superseded /\ ingest'[p].left = ingest[p].left
        /\ ingest'[p].arming = t
        /\ ingest'[p].gone = gone /\ ingest'[p].new = ingest[p].new
    BY <1>0, <2>1, <2>3 DEF IngestOK
  <2>5. IngestOK(p)'
    BY <1>0, <2>2, <2>3, <2>4 DEF IngestOK, Live, rows
  <2>. QED
    BY <1>0, <2>1, <2>3, <2>5, StatementTypes
<1>3. CASE ArmTarget(p)
  <2>. DEFINE t == ingest[p].arming
              armed == Fires(t, ingest[p].update.terms[t], zone[RecipientOf[t]], ingest[p].at)
              left == ingest[p].left \ {t}
              new == ingest[p].new \cup armed
  <2>1. ingest' = [ingest EXCEPT ![p].arming = None, ![p].left = left, ![p].new = new]
    BY <1>3 DEF ArmTarget
  <2>2. /\ UNCHANGED <<now, zone, planGeneration, targets, rows, job, owed, named, silenced>>
        /\ beside' = beside
        /\ ingest[p] # None /\ t # None
    BY <1>3 DEF ArmTarget, history
  <2>3. /\ t \in DOMAIN ingest[p].update.terms
        /\ t \in HousingTarget
        /\ ingest[p].update.terms[t] \in Terms
        /\ ingest[p].at \in Nat
    BY <1>0, <2>2, InputAssumption DEF IngestOK
  <2>4. zone[RecipientOf[t]] \in Zone \cup {None}
    BY <2>3, TargetAssumption DEF TypeOK, Target
  <2>5. armed \subseteq {t} \X Int
    BY <2>3, <2>4, FiresAreInstants
  <2>6. /\ left \subseteq ingest[p].left
        /\ new \subseteq ingest[p].new \cup ((DOMAIN ingest[p].update.terms) \X Int)
    BY <2>3, <2>5
  <2>. HIDE DEF armed, left, new
  <2>7. /\ DOMAIN ingest'[p] = DOMAIN ingest[p]
        /\ ingest'[p].update = ingest[p].update /\ ingest'[p].at = ingest[p].at
        /\ ingest'[p].superseded = ingest[p].superseded /\ ingest'[p].left = left
        /\ ingest'[p].arming = None
        /\ ingest'[p].gone = ingest[p].gone /\ ingest'[p].new = new
    BY <1>0, <2>1, <2>2 DEF IngestOK
  <2>8. IngestOK(p)'
    BY <1>0, <2>2, <2>6, <2>7 DEF IngestOK, Live, rows
  <2>. QED
    BY <1>0, <2>1, <2>2, <2>8, StatementTypes
<1>4. CASE ReconcileFails(p)
  <2>1. IngestOK(p)'
    BY <1>0, <1>4 DEF ReconcileFails, IngestOK
  <2>. QED
    BY <1>0, <1>4, <2>1, StatementTypes DEF ReconcileFails, history
<1>. QED
  BY <1>1, <1>2, <1>3, <1>4

\* The targets a reconciliation of another plan supersedes are not this one's.
LEMMA CommitReconcileTypes ==
  ASSUME TypeOK, NEW p \in Plan, ReconcileCommit(p)
  PROVE  TypeOK'
<1>. DEFINE u == ingest[p].update
            input == DOMAIN u.terms
            superseded == ingest[p].superseded
<1>1. /\ IngestOK(p) /\ ingest[p] # None
      /\ DOMAIN ingest = Plan
  BY DEF ReconcileCommit, TypeOK
<1>2. /\ u.generation \in Nat
      /\ input \subseteq {t \in HousingTarget : PlanOf[t] = p}
      /\ \A t \in input : u.terms[t] \in Terms
  BY <1>1, InputAssumption DEF IngestOK
<1>3. superseded \subseteq {t \in HousingTarget : PlanOf[t] = p /\ Live(t)}
  BY <1>1 DEF IngestOK
<1>4. /\ ingest[p].gone \in SUBSET (pending \cup cancelled)
      /\ ingest[p].new \in SUBSET Fire
  BY <1>1, <1>2 DEF IngestOK, Fire, Target
<1>5. CommitFires(ingest[p].gone, ingest[p].new)
  BY DEF ReconcileCommit
<1>6. targets' = [t \in Target |->
         IF t \in input
         THEN [terms |-> u.terms[t], generation |-> u.generation, live |-> TRUE]
         ELSE IF t \in superseded THEN [targets[t] EXCEPT !.live = FALSE]
         ELSE targets[t]]
  BY DEF ReconcileCommit
<1>7. /\ named' = [t \in Target |-> IF t \in input THEN u.generation ELSE named[t]]
      /\ silenced' = (silenced \ input) \cup
              {t \in HousingTarget \ input : PlanOf[t] = p /\ named[t] < u.generation}
      /\ planGeneration' \in {planGeneration, [planGeneration EXCEPT ![p] = u.generation]}
      /\ ingest' = [ingest EXCEPT ![p] = None]
      /\ UNCHANGED <<now, zone, job, owed, beside>>
  BY DEF ReconcileCommit
<1>8. \A t \in superseded : targets[t] \in Row
  BY <1>3 DEF TypeOK, Live, Target
<1>. HIDE DEF u, input, superseded
<1>9. /\ pending' \subseteq Fire /\ fired' \subseteq Fire
      /\ delivered' \subseteq Fire /\ cancelled' \subseteq Fire
      /\ OneStatus'
      /\ pending \cup cancelled \subseteq pending' \cup cancelled'
  BY <1>4, <1>5, CommitTypes
<1>10. \A t \in Target : targets'[t] \in Row \cup {None}
  <2>. TAKE t \in Target
  <2>1. CASE t \in input
    BY <1>2, <1>6, <2>1 DEF Row
  <2>2. CASE t \notin input
    BY <1>6, <1>8, <2>2, CancelledRow DEF TypeOK
  <2>. QED
    BY <2>1, <2>2
<1>11. targets' \in [Target -> Row \cup {None}]
  BY <1>6, <1>10
<1>12. \A t \in HousingTarget : targets'[t] # None => targets'[t].terms \in Terms
  <2>. SUFFICES ASSUME NEW t \in HousingTarget, targets'[t] # None
                PROVE  targets'[t].terms \in Terms
    OBVIOUS
  <2>1. CASE t \in input
    BY <1>2, <1>6, <2>1 DEF Target
  <2>2. CASE t \in superseded /\ t \notin input
    <3>1. targets'[t].terms = targets[t].terms
      BY <1>6, <1>8, <2>2, CancelledRow DEF Target
    <3>2. targets[t] # None
      BY <1>3, <2>2 DEF Live
    <3>. QED
      BY <3>1, <3>2 DEF TypeOK
  <2>3. CASE t \notin superseded /\ t \notin input
    BY <1>6, <2>3 DEF TypeOK, Target
  <2>. QED
    BY <2>1, <2>2, <2>3
<1>13. \A q \in Plan : IngestOK(q)'
  <2>. SUFFICES ASSUME NEW q \in Plan
                PROVE  IngestOK(q)'
    BY DEF IngestOK
  <2>1. CASE q = p
    BY <1>1, <1>7, <2>1 DEF IngestOK
  <2>2. CASE q # p
    <3>1. IngestOK(q) /\ ingest'[q] = ingest[q]
      BY <1>1, <1>7, <2>2 DEF TypeOK
    <3>2. ASSUME ingest[q] # None, NEW t \in ingest[q].superseded
          PROVE  targets'[t] # None /\ targets'[t].live
      <4>1. t \in HousingTarget /\ PlanOf[t] = q /\ Live(t)
        BY <3>1, <3>2 DEF IngestOK
      <4>2. t \notin input /\ t \notin superseded
        BY <1>2, <1>3, <2>2, <4>1
      <4>. QED
        BY <1>6, <4>1, <4>2 DEF Live, Target
    <3>. QED
      BY <1>9, <3>1, <3>2, IngestKept
  <2>. QED
    BY <2>1, <2>2
<1>14. /\ named' \in [Target -> Nat]
       /\ silenced' \subseteq Target
       /\ planGeneration' \in [Plan -> Nat \cup {None}]
       /\ DOMAIN ingest' = Plan
  BY <1>2, <1>7 DEF TypeOK, Target
<1>15. DOMAIN job' = Handler /\ \A h \in Handler : JobOK(job[h])'
  BY <1>7, <1>9 DEF TypeOK, JobOK
<1>. QED
  BY <1>7, <1>9, <1>11, <1>12, <1>13, <1>14, <1>15 DEF TypeOK

\* The ingest requests keep the types.
LEMMA IngestTypes == TypeOK /\ Ingest => TypeOK'
<1>. SUFFICES ASSUME TypeOK, Ingest
              PROVE  TypeOK'
  OBVIOUS
<1>0. DOMAIN ingest = Plan /\ DOMAIN job = Handler
  BY DEF TypeOK
<1>1. ASSUME NEW u \in PlanUpdate, ReconcileBegin(u)
      PROVE  TypeOK'
  BY <1>1, InputAssumption, ReconcileTypes
<1>2. ASSUME NEW p \in Plan, Reconcile(p)
      PROVE  TypeOK'
  BY <1>2, ReconcileTypes, CommitReconcileTypes DEF Reconcile
<1>3. ASSUME NEW S \in SUBSET Target, NEW scope \in SUBSET Target, CancelTargets(S, scope)
      PROVE  TypeOK'
  <2>. DEFINE gone == PendingOf({t \in scope : targets'[t] # None /\ ~targets'[t].live})
  <2>1. /\ {t \in S : Live(t)} \cap Written = {}
        /\ targets' = [t \in Target |->
             IF t \in S /\ Live(t) THEN [targets[t] EXCEPT !.live = FALSE] ELSE targets[t]]
        /\ CommitFires(gone, {})
        /\ silenced' = silenced \cup S
        /\ UNCHANGED <<now, zone, planGeneration, job, ingest, owed, named, beside>>
    BY <1>3 DEF CancelTargets
  <2>2. gone \subseteq pending
    BY DEF PendingOf
  <2>. HIDE DEF gone
  <2>3. /\ pending' \subseteq Fire /\ fired' \subseteq Fire
        /\ delivered' \subseteq Fire /\ cancelled' \subseteq Fire
        /\ OneStatus'
        /\ pending \cup cancelled \subseteq pending' \cup cancelled'
    BY <2>1, <2>2, CommitTypes
  <2>4. /\ targets' \in [Target -> Row \cup {None}]
        /\ \A t \in HousingTarget : targets'[t] # None => targets'[t].terms \in Terms
    BY <2>1, RowTypes
  <2>5. \A p \in Plan : IngestOK(p)'
    <3>. SUFFICES ASSUME NEW p \in Plan
                  PROVE  IngestOK(p)'
      BY DEF IngestOK
    <3>1. IngestOK(p) /\ ingest'[p] = ingest[p]
      BY <2>1 DEF TypeOK
    <3>2. ASSUME ingest[p] # None, NEW t \in ingest[p].superseded
          PROVE  targets'[t] # None /\ targets'[t].live
      <4>1. t \in Target /\ Live(t) /\ t \in Written
        BY <3>1, <3>2 DEF IngestOK, Written, Target
      <4>. QED
        BY <2>1, <4>1 DEF Live
    <3>. QED
      BY <2>3, <3>1, <3>2, IngestKept
  <2>6. \A h \in Handler : JobOK(job[h])'
    BY <2>1, <2>3 DEF TypeOK, JobOK
  <2>. QED
    BY <1>0, <2>1, <2>3, <2>4, <2>5, <2>6 DEF TypeOK
<1>4. ASSUME NEW t \in ClientTarget, NEW ats \in ClientFires, UpsertClientScheduledFires(t, ats)
      PROVE  TypeOK'
  <2>. DEFINE new == {<<t, at>> : at \in {x \in ats : x > now}}
  <2>1. new \in SUBSET Fire
    BY InputAssumption DEF Fire, Target
  <2>2. CommitFires(PendingOf({t}), new) /\ PendingOf({t}) \in SUBSET pending
    BY <1>4 DEF UpsertClientScheduledFires, PendingOf
  <2>3. t \notin HousingTarget /\ t \in Target
    BY TargetAssumption DEF Target
  <2>4. /\ targets' = [targets EXCEPT ![t] = [terms |-> None, generation |-> 1, live |-> TRUE]]
        /\ silenced' = silenced \ {t}
        /\ UNCHANGED <<now, zone, planGeneration, job, ingest, owed, named, beside>>
    BY <1>4 DEF UpsertClientScheduledFires
  <2>. HIDE DEF new
  <2>5. /\ pending' \subseteq Fire /\ fired' \subseteq Fire
        /\ delivered' \subseteq Fire /\ cancelled' \subseteq Fire
        /\ OneStatus'
        /\ pending \cup cancelled \subseteq pending' \cup cancelled'
    BY <2>1, <2>2, CommitTypes
  <2>6. /\ targets' \in [Target -> Row \cup {None}]
        /\ \A x \in HousingTarget : targets'[x] # None => targets'[x].terms \in Terms
    BY <2>3, <2>4 DEF TypeOK, Row
  <2>7. \A p \in Plan : IngestOK(p)'
    <3>. SUFFICES ASSUME NEW p \in Plan
                  PROVE  IngestOK(p)'
      BY DEF IngestOK
    <3>1. IngestOK(p) /\ ingest'[p] = ingest[p]
      BY <2>4 DEF TypeOK
    <3>2. ingest[p] # None =>
            \A x \in ingest[p].superseded : targets'[x] # None /\ targets'[x].live
      BY <2>3, <2>4, <3>1 DEF IngestOK, Live, TypeOK, Target
    <3>. QED
      BY <2>5, <3>1, <3>2, IngestKept
  <2>8. \A h \in Handler : JobOK(job[h])'
    BY <2>4, <2>5 DEF TypeOK, JobOK
  <2>. QED
    BY <1>0, <2>4, <2>5, <2>6, <2>7, <2>8 DEF TypeOK
<1>. QED
  BY <1>1, <1>2, <1>3, <1>4
     DEF Ingest, CancelHousingPaymentTargets, CancelClientScheduledByScope, Target

\* The cron, the pushes and the acknowledgements keep the types; a claim
\* leaves alone what an open transaction holds.
LEMMA DeliverTypes == TypeOK /\ Deliver => TypeOK'
<1>. SUFFICES ASSUME TypeOK, Deliver
              PROVE  TypeOK'
  OBVIOUS
<1>1. CASE ClaimDueReminderFires
  <2>1. PICK batch \in SUBSET (pending \ Held) :
          /\ pending' = pending \ batch
          /\ fired' = fired \cup batch
          /\ owed' = owed \cup batch
    BY <1>1 DEF ClaimDueReminderFires
  <2>2. UNCHANGED <<now, zone, planGeneration, targets, delivered, cancelled,
                    job, ingest, history>>
    BY <1>1 DEF ClaimDueReminderFires
  <2>3. \A h \in Handler : job[h].gone \subseteq pending' \cup cancelled'
    BY <2>1, <2>2 DEF TypeOK, JobOK, Held
  <2>4. \A p \in Plan : ingest[p] # None => ingest[p].gone \subseteq pending' \cup cancelled'
    <3>1. \A p \in Plan : ingest[p] # None => ingest[p].gone \subseteq Held
      BY DEF Held
    <3>2. \A p \in Plan : ingest[p] # None => ingest[p].gone \subseteq pending \cup cancelled
      BY DEF TypeOK, IngestOK
    <3>. QED
      BY <2>1, <2>2, <3>1, <3>2
  <2>5. \A h \in Handler : JobOK(job[h])'
    BY <2>2, <2>3 DEF TypeOK, JobOK
  <2>6. \A p \in Plan : IngestOK(p)'
    BY <2>2, <2>4 DEF TypeOK, IngestOK, Live
  <2>. QED
    BY <2>1, <2>2, <2>5, <2>6 DEF TypeOK, OneStatus, history
<1>2. ASSUME NEW r \in Recipient, WakeRecipient(r)
      PROVE  TypeOK'
  BY <1>2 DEF WakeRecipient, TypeOK, OneStatus, rows, history, JobOK, IngestOK, Live
<1>3. ASSUME NEW f \in fired, AckReminderFireDelivery(f)
      PROVE  TypeOK'
  BY <1>3 DEF AckReminderFireDelivery, TypeOK, OneStatus, history, JobOK, IngestOK, Live
<1>. QED
  BY <1>1, <1>2, <1>3 DEF Deliver

\* Every step keeps the types.
LEMMA TypeStep == TypeOK /\ [Next]_vars => TypeOK'
<1>. SUFFICES ASSUME TypeOK, [Next]_vars
              PROVE  TypeOK'
  OBVIOUS
<1>1. CASE Crash
  <2>1. DOMAIN job' = Handler /\ \A h \in Handler : JobOK(job[h])'
    BY <1>1 DEF Crash, JobOK, Idle
  <2>. QED
    BY <1>1, <2>1 DEF Crash, TypeOK, rows, history, OneStatus, IngestOK, Live
<1>2. CASE Tick
  BY <1>2, InputAssumption DEF Tick, TypeOK, rows, history, OneStatus, IngestOK, Live, JobOK
<1>3. CASE UNCHANGED vars
  BY <1>3 DEF vars, TypeOK, rows, history, OneStatus, IngestOK, Live, JobOK
<1>. QED
  BY <1>1, <1>2, <1>3, RegisterTypes, IngestTypes, DeliverTypes DEF Next

\* The rows, the zones, the open requests and the histories keep their
\* types, and a fire has one status, in every reachable state.
THEOREM TypeCorrect == Spec => []TypeOK
<1>1. Init => TypeOK
  <2>. SUFFICES ASSUME Init
                PROVE  TypeOK
    OBVIOUS
  <2>1. /\ now \in Nat
        /\ zone \in [Recipient -> Zone \cup {None}]
        /\ planGeneration \in [Plan -> Nat \cup {None}]
        /\ targets \in [Target -> Row \cup {None}]
        /\ named \in [Target -> Nat]
    BY DEF Init
  <2>2. \A t \in HousingTarget : targets[t] # None => targets[t].terms \in Terms
    BY DEF Init, Target
  <2>3. DOMAIN job = Handler /\ \A h \in Handler : JobOK(job[h])
    BY DEF Init, JobOK, Idle
  <2>4. DOMAIN ingest = Plan /\ \A p \in Plan : IngestOK(p)
    BY DEF Init, IngestOK
  <2>5. /\ pending \subseteq Fire /\ fired \subseteq Fire
        /\ delivered \subseteq Fire /\ cancelled \subseteq Fire
        /\ OneStatus
        /\ owed \subseteq Fire
        /\ silenced \subseteq Target
        /\ beside \in [Plan -> SUBSET Fire]
    BY DEF Init, OneStatus
  <2>. QED
    BY <2>1, <2>2, <2>3, <2>4, <2>5 DEF TypeOK
<1>. QED
  BY <1>1, TypeStep, PTL DEF Spec

\* While a reconciliation holds the plan's row, no other puts a target back.
LEMMA SupersedingStep == TypeOK /\ Superseding /\ [Next]_vars => Superseding'
<1>. SUFFICES ASSUME TypeOK, Superseding, [Next]_vars,
                     NEW p \in Plan, ingest'[p] # None, NEW t \in HousingTarget,
                     PlanOf[t] = p, targets'[t] # None, targets'[t].live
              PROVE  \/ t \in ingest'[p].superseded
                     \/ targets'[t].generation >= ingest'[p].update.generation
  BY DEF Superseding, Live
<1>0. DOMAIN ingest = Plan /\ IngestOK(p) /\ t \in Target
  BY DEF TypeOK, Target
<1>1. ASSUME ingest[p] # None, ingest'[p].superseded = ingest[p].superseded,
             ingest'[p].update = ingest[p].update, targets'[t] = targets[t]
      PROVE  \/ t \in ingest'[p].superseded
             \/ targets'[t].generation >= ingest'[p].update.generation
  BY <1>1 DEF Superseding, Live
<1>2. ASSUME NEW u \in PlanUpdate, ReconcileBegin(u)
      PROVE  \/ t \in ingest'[p].superseded
             \/ targets'[t].generation >= ingest'[p].update.generation
  <2>1. CASE u.plan = p
    <3>. DEFINE superseded == {x \in HousingTarget : /\ PlanOf[x] = u.plan /\ Live(x)
                                                     /\ targets[x].generation < u.generation}
    <3>1. ingest'[p].update = u /\ ingest'[p].superseded = superseded /\ targets' = targets
      BY <1>0, <1>2, <2>1 DEF ReconcileBegin
    <3>2. targets[t] \in Row
      BY <1>0, <3>1 DEF TypeOK
    <3>3. u.generation \in Nat /\ targets[t].generation \in Nat
      BY <3>2, InputAssumption DEF Row
    <3>. QED
      BY <2>1, <3>1, <3>3 DEF Live
  <2>2. CASE u.plan # p
    BY <1>0, <1>1, <1>2, <2>2 DEF ReconcileBegin
  <2>. QED
    BY <2>1, <2>2
<1>3. ASSUME NEW q \in Plan, Reconcile(q), ~ReconcileCommit(q)
      PROVE  \/ t \in ingest'[p].superseded
             \/ targets'[t].generation >= ingest'[p].update.generation
  <2>1. CASE \E x \in HousingTarget : UpsertTarget(q, x)
    <3>1. PICK x \in HousingTarget : UpsertTarget(q, x)
      BY <2>1
    <3>2. /\ ingest' = [ingest EXCEPT ![q].arming = x, ![q].gone = ingest[q].gone \cup PendingOf({x})]
          /\ targets' = targets
      BY <3>1 DEF UpsertTarget, PendingOf
    <3>3. ingest[p] # None
      BY <1>0, <3>1, <3>2 DEF UpsertTarget
    <3>4. ingest'[p].superseded = ingest[p].superseded /\ ingest'[p].update = ingest[p].update
      BY <1>0, <3>2, <3>3 DEF IngestOK
    <3>. QED
      BY <1>1, <3>2, <3>3, <3>4
  <2>2. CASE ArmTarget(q)
    <3>1. PICK left, new : /\ ingest' = [ingest EXCEPT ![q].arming = None, ![q].left = left, ![q].new = new]
                           /\ targets' = targets /\ ingest[q] # None
      BY <2>2 DEF ArmTarget
    <3>2. ingest[p] # None
      BY <1>0, <3>1
    <3>3. ingest'[p].superseded = ingest[p].superseded /\ ingest'[p].update = ingest[p].update
      BY <1>0, <3>1, <3>2 DEF IngestOK
    <3>. QED
      BY <1>1, <3>1, <3>2, <3>3
  <2>3. CASE ReconcileFails(q)
    BY <1>0, <1>1, <2>3 DEF ReconcileFails
  <2>. QED
    BY <1>3, <2>1, <2>2, <2>3 DEF Reconcile
<1>4. ASSUME NEW q \in Plan, ReconcileCommit(q)
      PROVE  \/ t \in ingest'[p].superseded
             \/ targets'[t].generation >= ingest'[p].update.generation
  <2>1. /\ ingest' = [ingest EXCEPT ![q] = None]
        /\ targets' = [x \in Target |->
             IF x \in DOMAIN ingest[q].update.terms
             THEN [terms |-> ingest[q].update.terms[x],
                   generation |-> ingest[q].update.generation, live |-> TRUE]
             ELSE IF x \in ingest[q].superseded THEN [targets[x] EXCEPT !.live = FALSE]
             ELSE targets[x]]
        /\ ingest[q] # None /\ IngestOK(q)
    BY <1>4 DEF ReconcileCommit, TypeOK
  <2>2. q # p /\ ingest'[p] = ingest[p]
    BY <1>0, <2>1
  <2>3. t \notin DOMAIN ingest[q].update.terms /\ t \notin ingest[q].superseded
    BY <2>1, <2>2, InputAssumption DEF IngestOK
  <2>. QED
    BY <1>0, <1>1, <2>1, <2>2, <2>3
<1>5. ASSUME NEW S \in SUBSET Target, NEW scope, CancelTargets(S, scope)
      PROVE  \/ t \in ingest'[p].superseded
             \/ targets'[t].generation >= ingest'[p].update.generation
  <2>1. /\ targets' = [x \in Target |->
             IF x \in S /\ Live(x) THEN [targets[x] EXCEPT !.live = FALSE] ELSE targets[x]]
        /\ ingest' = ingest
    BY <1>5 DEF CancelTargets
  <2>2. CASE t \in S /\ Live(t)
    <3>1. targets[t] \in Row
      BY <1>0, <2>2 DEF TypeOK, Live
    <3>2. targets'[t].live = FALSE
      BY <1>0, <2>1, <2>2, <3>1, CancelledRow
    <3>. QED
      BY <3>2
  <2>3. CASE ~(t \in S /\ Live(t))
    BY <1>0, <1>1, <2>1, <2>3
  <2>. QED
    BY <2>2, <2>3
<1>6. ASSUME NEW x \in ClientTarget, NEW ats \in ClientFires, UpsertClientScheduledFires(x, ats)
      PROVE  \/ t \in ingest'[p].superseded
             \/ targets'[t].generation >= ingest'[p].update.generation
  <2>1. x # t /\ ingest' = ingest /\ targets'[t] = targets[t]
    BY <1>0, <1>6, TargetAssumption DEF UpsertClientScheduledFires, TypeOK
  <2>. QED
    BY <1>1, <2>1
<1>7. CASE UNCHANGED <<targets, ingest>>
  BY <1>1, <1>7
<1>8. Register \/ Deliver \/ Tick \/ UNCHANGED vars => UNCHANGED <<targets, ingest>>
  BY DEF Register, RegisterZone, ReadZone, ReadTargets, RecomputeTarget, RecomputeCommit, GiveUp,
         Deliver, ClaimDueReminderFires, WakeRecipient, AckReminderFireDelivery, Tick, vars
<1>9. CASE Crash
  BY <1>9 DEF Crash
<1>. QED
  BY <1>2, <1>3, <1>4, <1>5, <1>6, <1>7, <1>8, <1>9
     DEF Next, Ingest, CancelHousingPaymentTargets, CancelClientScheduledByScope, Target

\* Only what some request wants is live, and every step keeps it so.
LEMMA WantedStep == TypeOK /\ Superseding /\ Wanted /\ [Next]_vars => Wanted'
<1>. SUFFICES ASSUME TypeOK, Superseding, Wanted, [Next]_vars
              PROVE  Wanted'
  OBVIOUS
<1>1. ASSUME NEW p \in Plan, ReconcileCommit(p)
      PROVE  Wanted'
  <2>. DEFINE u == ingest[p].update
              input == DOMAIN u.terms
              superseded == ingest[p].superseded
  <2>1. /\ targets' = [t \in Target |->
             IF t \in input
             THEN [terms |-> u.terms[t], generation |-> u.generation, live |-> TRUE]
             ELSE IF t \in superseded THEN [targets[t] EXCEPT !.live = FALSE]
             ELSE targets[t]]
        /\ ingest[p] # None
    BY <1>1 DEF ReconcileCommit
  <2>2. /\ named' = [t \in Target |-> IF t \in input THEN u.generation ELSE named[t]]
        /\ silenced' = (silenced \ input) \cup
              {t \in HousingTarget \ input : PlanOf[t] = p /\ named[t] < u.generation}
    BY <1>1 DEF ReconcileCommit
  <2>3. u.generation \in Nat
    BY <2>1, InputAssumption DEF TypeOK, IngestOK
  <2>. SUFFICES ASSUME NEW t \in Target, Live(t)'
                PROVE  /\ t \notin silenced'
                       /\ t \in HousingTarget => targets'[t].generation = named'[t]
    BY DEF Wanted
  <2>4. CASE t \in input
    BY <2>1, <2>2, <2>4
  <2>5. CASE t \in superseded /\ t \notin input
    <3>1. targets[t] \in Row
      BY <2>1, <2>5 DEF TypeOK, IngestOK, Live
    <3>2. targets'[t].live = FALSE
      BY <2>1, <2>5, <3>1, CancelledRow
    <3>. QED
      BY <3>2 DEF Live
  <2>6. CASE t \notin superseded /\ t \notin input
    <3>1. targets'[t] = targets[t] /\ Live(t)
      BY <2>1, <2>6 DEF Live
    <3>2. t \notin silenced /\ (t \in HousingTarget => targets[t].generation = named[t])
      BY <3>1 DEF Wanted
    <3>3. t \in HousingTarget /\ PlanOf[t] = p => ~(named[t] < u.generation)
      BY <2>1, <2>3, <2>6, <3>1, <3>2 DEF Superseding, TypeOK
    <3>. QED
      BY <2>2, <2>6, <3>1, <3>2, <3>3
  <2>. QED
    BY <2>4, <2>5, <2>6
<1>2. ASSUME NEW S \in SUBSET Target, NEW scope, CancelTargets(S, scope)
      PROVE  Wanted'
  <2>1. /\ targets' = [t \in Target |->
              IF t \in S /\ Live(t) THEN [targets[t] EXCEPT !.live = FALSE] ELSE targets[t]]
        /\ silenced' = silenced \cup S
        /\ named' = named
    BY <1>2 DEF CancelTargets
  <2>. SUFFICES ASSUME NEW t \in Target, Live(t)'
                PROVE  /\ t \notin silenced'
                       /\ t \in HousingTarget => targets'[t].generation = named'[t]
    BY DEF Wanted
  <2>2. CASE t \in S /\ Live(t)
    <3>1. targets[t] \in Row
      BY <2>2 DEF TypeOK, Live
    <3>2. targets'[t].live = FALSE
      BY <2>1, <2>2, <3>1, CancelledRow
    <3>. QED
      BY <3>2 DEF Live
  <2>3. CASE ~(t \in S /\ Live(t))
    <3>1. targets'[t] = targets[t] /\ Live(t)
      BY <2>1, <2>3 DEF Live
    <3>. QED
      BY <2>1, <2>3, <3>1 DEF Wanted
  <2>. QED
    BY <2>2, <2>3
<1>3. ASSUME NEW t \in ClientTarget, NEW ats \in ClientFires, UpsertClientScheduledFires(t, ats)
      PROVE  Wanted'
  <2>1. t \notin HousingTarget
    BY TargetAssumption
  <2>. QED
    BY <1>3, <2>1 DEF UpsertClientScheduledFires, Wanted, Live, TypeOK
<1>4. CASE UNCHANGED <<targets, named, silenced>>
  BY <1>4 DEF Wanted, Live
<1>5. Register \/ Deliver \/ Crash \/ Tick \/ UNCHANGED vars
        => UNCHANGED <<targets, named, silenced>>
  BY DEF Register, RegisterZone, ReadZone, ReadTargets, RecomputeTarget, RecomputeCommit, GiveUp, Deliver,
         ClaimDueReminderFires, WakeRecipient, AckReminderFireDelivery, Crash, Tick,
         vars, history
<1>6. (\E u \in PlanUpdate : ReconcileBegin(u)) => UNCHANGED <<targets, named, silenced>>
  BY DEF ReconcileBegin
<1>7. ASSUME NEW p \in Plan, Reconcile(p), ~ReconcileCommit(p)
      PROVE  UNCHANGED <<targets, named, silenced>>
  BY <1>7 DEF Reconcile, UpsertTarget, ArmTarget, ReconcileFails, history
<1>. QED
  BY <1>1, <1>2, <1>3, <1>4, <1>5, <1>6, <1>7
     DEF Next, Ingest, CancelHousingPaymentTargets, CancelClientScheduledByScope, Target

\* Commits and claims are the only ways the fires change, and only a
\* claim or an acknowledgement touches the claimed ones.
LEMMA FireStep ==
  ASSUME TypeOK, [Next]_vars
  PROVE  \/ \E gone, new : CommitFires(gone, new)
         \/ \E batch \in SUBSET {f \in pending : Live(f[1])} :
              /\ pending' = pending \ batch
              /\ fired' = fired \cup batch
              /\ UNCHANGED <<targets, delivered, cancelled>>
         \/ \E f \in fired : /\ fired' = fired \ {f}
                             /\ delivered' = delivered \cup {f}
                             /\ UNCHANGED <<targets, pending, cancelled>>
         \/ UNCHANGED <<targets, rows>>
<1>1. CASE Register
  BY <1>1 DEF Register, RegisterZone, ReadZone, ReadTargets, RecomputeTarget, RecomputeCommit, GiveUp
<1>2. CASE Ingest
  <2>1. (\E u \in PlanUpdate : ReconcileBegin(u)) => UNCHANGED <<targets, rows>>
    BY DEF ReconcileBegin
  <2>2. ASSUME NEW p \in Plan, Reconcile(p)
        PROVE  (\E gone, new : CommitFires(gone, new)) \/ UNCHANGED <<targets, rows>>
    BY <2>2 DEF Reconcile, UpsertTarget, ArmTarget, ReconcileFails, ReconcileCommit
  <2>3. (\E S, scope : CancelTargets(S, scope)) => \E gone, new : CommitFires(gone, new)
    BY DEF CancelTargets
  <2>4. (\E t \in ClientTarget, ats \in ClientFires : UpsertClientScheduledFires(t, ats))
          => \E gone, new : CommitFires(gone, new)
    BY DEF UpsertClientScheduledFires
  <2>. QED
    BY <1>2, <2>1, <2>2, <2>3, <2>4
       DEF Ingest, CancelHousingPaymentTargets, CancelClientScheduledByScope
<1>3. CASE ClaimDueReminderFires
  BY <1>3 DEF ClaimDueReminderFires
<1>4. CASE Deliver /\ ~ClaimDueReminderFires
  BY <1>4 DEF Deliver, WakeRecipient, AckReminderFireDelivery, rows
<1>5. CASE Crash \/ Tick \/ UNCHANGED vars
  BY <1>5 DEF Crash, Tick, vars
<1>. QED
  BY <1>1, <1>2, <1>3, <1>4, <1>5 DEF Next

\* A claimed reminder is never armed, cancelled or, once acknowledged, listed
\* again.
THEOREM ClaimedRemindersAreFinal == Spec => FiredIsFinal
<1>1. TypeOK /\ [Next]_vars =>
        [/\ fired \cup delivered \subseteq fired' \cup delivered'
         /\ delivered \subseteq delivered'
         /\ pending' \cap (fired \cup delivered) = {}]_vars
  <2>. SUFFICES ASSUME TypeOK, [Next]_vars
                PROVE  /\ fired \cup delivered \subseteq fired' \cup delivered'
                       /\ delivered \subseteq delivered'
                       /\ pending' \cap (fired \cup delivered) = {}
    OBVIOUS
  <2>1. OneStatus
    BY DEF TypeOK
  <2>2. ASSUME NEW gone, NEW new, CommitFires(gone, new)
        PROVE  /\ fired \cup delivered \subseteq fired' \cup delivered'
               /\ delivered \subseteq delivered'
               /\ pending' \cap (fired \cup delivered) = {}
    BY <2>1, <2>2 DEF CommitFires, OneStatus, FireRows
  <2>. QED
    BY <2>1, <2>2, FireStep DEF OneStatus, rows
<1>. QED
  BY <1>1, TypeCorrect, PTL DEF Spec, FiredIsFinal

\* What its clients cancelled or left out of a newer plan is not claimed.
THEOREM SilencedTargetsStaySilent == Spec => CancelledStaysSilent
<1>1. Init => Wanted /\ Superseding
  BY DEF Init, Wanted, Superseding, Live
<1>2. TypeOK /\ Wanted /\ [Next]_vars => [\A f \in fired' \ fired : f[1] \notin silenced]_vars
  <2>. SUFFICES ASSUME TypeOK, Wanted, [Next]_vars, NEW f \in fired' \ fired
                PROVE  f[1] \notin silenced
    OBVIOUS
  <2>1. f \in pending /\ Live(f[1])
    BY FireStep DEF CommitFires, rows
  <2>2. f[1] \in Target
    BY <2>1 DEF TypeOK, Fire
  <2>. QED
    BY <2>1, <2>2 DEF Wanted
<1>. QED
  BY <1>1, <1>2, TypeCorrect, SupersedingStep, WantedStep, PTL DEF Spec, CancelledStaysSilent

\* What is pending for the targets an open reconciliation has written comes
\* from other transactions: none but a zone registration arms them.
LEMMA AccountedStep == TypeOK /\ Accounted /\ [Next]_vars => Accounted'
<1>. SUFFICES ASSUME TypeOK, Accounted, [Next]_vars, NEW p \in Plan, ingest'[p] # None,
                     NEW f \in pending', f[1] \in DOMAIN ingest'[p].update.terms,
                     f[1] \notin ingest'[p].left \/ f[1] = ingest'[p].arming
              PROVE  f \in ingest'[p].gone \cup beside'[p]
  BY DEF Accounted, PendingOf, Upserted
<1>0. DOMAIN ingest = Plan /\ IngestOK(p) /\ beside \in [Plan -> SUBSET Fire]
  BY DEF TypeOK
<1>1. ASSUME ingest[p] # None, f \in pending, f[1] \in Upserted(p)
      PROVE  f \in ingest[p].gone \cup beside[p]
  BY <1>1 DEF Accounted, PendingOf
<1>2. ASSUME ingest'[p] = ingest[p], beside[p] \subseteq beside'[p], f \in pending
      PROVE  f \in ingest'[p].gone \cup beside'[p]
  BY <1>1, <1>2 DEF Upserted
<1>3. ASSUME NEW h \in Handler, RecomputeCommit(h)
      PROVE  f \in ingest'[p].gone \cup beside'[p]
  <2>1. ingest' = ingest
    BY <1>3 DEF RecomputeCommit
  <2>2. beside'[p] = beside[p] \cup {g \in pending' \ pending : g[1] \in Upserted(p)}
    BY <1>3, <2>1 DEF RecomputeCommit
  <2>3. f[1] \in Upserted(p)
    BY <2>1 DEF Upserted
  <2>. QED
    BY <1>1, <2>1, <2>2, <2>3
<1>4. ASSUME NEW u \in PlanUpdate, ReconcileBegin(u)
      PROVE  f \in ingest'[p].gone \cup beside'[p]
  <2>1. pending' = pending
    BY <1>4 DEF ReconcileBegin, rows
  <2>2. CASE u.plan = p
    <3>1. /\ ingest'[p].update = u /\ ingest'[p].left = DOMAIN u.terms
          /\ ingest'[p].arming = None
      BY <1>0, <1>4, <2>2 DEF ReconcileBegin
    <3>. QED
      BY <3>1, InputAssumption, TargetAssumption DEF Target
  <2>3. CASE u.plan # p
    <3>1. ingest'[p] = ingest[p] /\ beside'[p] = beside[p]
      BY <1>0, <1>4, <2>3 DEF ReconcileBegin
    <3>. QED
      BY <1>2, <2>1, <3>1
  <2>. QED
    BY <2>2, <2>3
<1>5. ASSUME NEW q \in Plan, NEW t \in HousingTarget, UpsertTarget(q, t)
      PROVE  f \in ingest'[p].gone \cup beside'[p]
  <2>1. UNCHANGED <<rows, history>> /\ ingest[q] # None
        /\ ingest[q].arming = None /\ t \in ingest[q].left
    BY <1>5 DEF UpsertTarget
  <2>2. CASE q = p
    <3>. DEFINE gone == ingest[p].gone \cup PendingOf({t})
    <3>1. ingest' = [ingest EXCEPT ![p].arming = t, ![p].gone = gone]
      BY <1>5, <2>2 DEF UpsertTarget
    <3>2. \A g \in pending : g[1] = t => g \in gone
      BY DEF PendingOf
    <3>3. ingest[p].gone \subseteq gone
      OBVIOUS
    <3>. HIDE DEF gone
    <3>4. /\ ingest'[p].update = ingest[p].update /\ ingest'[p].left = ingest[p].left
          /\ ingest'[p].arming = t /\ ingest'[p].gone = gone
      BY <1>0, <2>1, <2>2, <3>1 DEF IngestOK
    <3>5. CASE f[1] = t
      BY <2>1, <3>2, <3>4, <3>5 DEF rows
    <3>6. CASE f[1] # t
      BY <1>1, <2>1, <2>2, <3>3, <3>4, <3>6 DEF Upserted, rows, history
    <3>. QED
      BY <3>5, <3>6
  <2>3. CASE q # p
    <3>1. ingest'[p] = ingest[p]
      BY <1>0, <1>5, <2>3 DEF UpsertTarget
    <3>. QED
      BY <1>2, <2>1, <3>1 DEF rows, history
  <2>. QED
    BY <2>2, <2>3
<1>6. ASSUME NEW q \in Plan, ArmTarget(q)
      PROVE  f \in ingest'[p].gone \cup beside'[p]
  <2>1. UNCHANGED <<rows, history>> /\ ingest[q] # None
    BY <1>6 DEF ArmTarget
  <2>2. CASE q = p
    <3>1. PICK new : ingest' = [ingest EXCEPT ![p].arming = None,
                                              ![p].left = ingest[p].left \ {ingest[p].arming},
                                              ![p].new = new]
      BY <1>6, <2>2 DEF ArmTarget
    <3>2. /\ ingest'[p].update = ingest[p].update /\ ingest'[p].arming = None
          /\ ingest'[p].left = ingest[p].left \ {ingest[p].arming}
          /\ ingest'[p].gone = ingest[p].gone
      BY <1>0, <2>1, <2>2, <3>1 DEF IngestOK
    <3>3. f[1] # None
      BY <1>0, <2>1, <2>2, <3>2, InputAssumption, TargetAssumption DEF IngestOK, Target
    <3>. QED
      BY <1>1, <2>1, <2>2, <3>2, <3>3 DEF Upserted, rows, history
  <2>3. CASE q # p
    <3>1. ingest'[p] = ingest[p]
      BY <1>0, <1>6, <2>3 DEF ArmTarget
    <3>. QED
      BY <1>2, <2>1, <3>1 DEF rows, history
  <2>. QED
    BY <2>2, <2>3
<1>7. ASSUME NEW q \in Plan, ReconcileCommit(q)
      PROVE  f \in ingest'[p].gone \cup beside'[p]
  <2>1. /\ ingest' = [ingest EXCEPT ![q] = None] /\ beside' = beside
        /\ ingest[q] # None /\ IngestOK(q)
        /\ CommitFires(ingest[q].gone, ingest[q].new)
    BY <1>7 DEF ReconcileCommit, TypeOK
  <2>2. q # p /\ ingest'[p] = ingest[p]
    BY <1>0, <2>1
  <2>3. ingest[q].new \subseteq {t \in HousingTarget : PlanOf[t] = q} \X Int
    BY <2>1, InputAssumption DEF IngestOK
  <2>4. PlanOf[f[1]] = p
    BY <1>0, <2>2, InputAssumption DEF IngestOK
  <2>5. f \in pending
    BY <2>1, <2>2, <2>3, <2>4 DEF CommitFires
  <2>. QED
    BY <1>2, <2>1, <2>2, <2>5
<1>8. ASSUME NEW q \in Plan, ReconcileFails(q)
      PROVE  f \in ingest'[p].gone \cup beside'[p]
  <2>1. ingest'[p] = ingest[p] /\ UNCHANGED <<rows, history>>
    BY <1>0, <1>8 DEF ReconcileFails
  <2>. QED
    BY <1>2, <2>1 DEF rows, history
<1>9. ASSUME NEW S, NEW scope, CancelTargets(S, scope)
      PROVE  f \in ingest'[p].gone \cup beside'[p]
  BY <1>2, <1>9 DEF CancelTargets, CommitFires
<1>10. ASSUME NEW t \in ClientTarget, NEW ats \in ClientFires, UpsertClientScheduledFires(t, ats)
       PROVE  f \in ingest'[p].gone \cup beside'[p]
  <2>1. /\ ingest' = ingest /\ beside' = beside
        /\ CommitFires(PendingOf({t}), {<<t, at>> : at \in {x \in ats : x > now}})
    BY <1>10 DEF UpsertClientScheduledFires
  <2>2. f[1] # t
    BY <1>0, <2>1, InputAssumption, TargetAssumption DEF IngestOK
  <2>3. f \in pending
    BY <2>1, <2>2 DEF CommitFires
  <2>. QED
    BY <1>2, <2>1, <2>3
<1>11. CASE ClaimDueReminderFires
  BY <1>2, <1>11 DEF ClaimDueReminderFires, history
<1>12. CASE UNCHANGED <<pending, ingest, beside>>
  BY <1>2, <1>12
<1>13. CASE Register
  BY <1>3, <1>12, <1>13
     DEF Register, RegisterZone, ReadZone, ReadTargets, RecomputeTarget, GiveUp, rows, history
<1>14. CASE Deliver
  BY <1>11, <1>12, <1>14 DEF Deliver, WakeRecipient, AckReminderFireDelivery, rows, history
<1>15. CASE Crash
  BY <1>15 DEF Crash
<1>16. Tick \/ UNCHANGED vars => UNCHANGED <<pending, ingest, beside>>
  BY DEF Tick, vars, rows, history
<1>. QED
  BY <1>4, <1>5, <1>6, <1>7, <1>8, <1>9, <1>10, <1>12, <1>13, <1>14, <1>15, <1>16
     DEF Next, Ingest, Reconcile, CancelHousingPaymentTargets, CancelClientScheduledByScope

\* A target that comes back keeps nothing its earlier life left pending, but
\* what zone registrations committed beside the update that brought it back.
THEOREM RevivedTargetsStartClean == Spec => RevivalIsClean
<1>1. Init => Accounted
  BY DEF Init, Accounted
<1>2. TypeOK /\ Accounted /\ [Next]_vars =>
        [\A t \in HousingTarget :
           ~Live(t) /\ Live(t)' =>
             \A f \in pending' \cap pending : f[1] = t => f \in beside[PlanOf[t]]]_vars
  <2>. SUFFICES ASSUME TypeOK, Accounted, [Next]_vars, NEW t \in HousingTarget,
                       ~Live(t), targets'[t] # None /\ targets'[t].live,
                       NEW f \in pending' \cap pending, f[1] = t
                PROVE  f \in beside[PlanOf[t]]
    BY DEF Live
  <2>1. ASSUME NEW p \in Plan, ReconcileCommit(p)
        PROVE  f \in beside[PlanOf[t]]
    <3>1. /\ ingest[p] # None /\ ingest[p].left = {} /\ IngestOK(p)
          /\ CommitFires(ingest[p].gone, ingest[p].new)
      BY <2>1 DEF ReconcileCommit, TypeOK
    <3>2. t \in DOMAIN ingest[p].update.terms
      <4>. DEFINE input == DOMAIN ingest[p].update.terms
                  superseded == ingest[p].superseded
      <4>1. t \notin input => targets'[t] = IF t \in superseded THEN [targets[t] EXCEPT !.live = FALSE]
                                            ELSE targets[t]
        BY <2>1 DEF ReconcileCommit, Target
      <4>2. t \in superseded => Live(t)
        BY <3>1 DEF IngestOK
      <4>. QED
        BY <4>1, <4>2 DEF Live
    <3>3. t \in Upserted(p) /\ PlanOf[t] = p
      BY <3>1, <3>2, InputAssumption DEF Upserted, IngestOK
    <3>4. f \in ingest[p].gone \cup beside[p]
      BY <3>1, <3>3 DEF Accounted, PendingOf
    <3>5. f \notin ingest[p].gone
      BY <3>1 DEF CommitFires, FireRows
    <3>. QED
      BY <3>3, <3>4, <3>5
  <2>2. ASSUME NEW S, NEW scope, CancelTargets(S, scope)
        PROVE  FALSE
    BY <2>2 DEF CancelTargets, Live, Target
  <2>3. ASSUME NEW c \in ClientTarget, NEW ats \in ClientFires,
               UpsertClientScheduledFires(c, ats)
        PROVE  FALSE
    BY <2>3, TargetAssumption DEF UpsertClientScheduledFires, Live
  <2>4. targets' # targets
    BY DEF Live
  <2>5. Ingest
    BY <2>4 DEF Next, Register, RegisterZone, ReadZone, ReadTargets, RecomputeTarget,
       RecomputeCommit, GiveUp, Deliver, ClaimDueReminderFires, WakeRecipient,
       AckReminderFireDelivery, Crash, Tick, vars
  <2>. QED
    BY <2>1, <2>2, <2>3, <2>4, <2>5
       DEF Ingest, Reconcile, ReconcileBegin, UpsertTarget, ArmTarget, ReconcileFails,
           CancelHousingPaymentTargets, CancelClientScheduledByScope
<1>. QED
  BY <1>1, <1>2, TypeCorrect, AccountedStep, PTL DEF Spec, RevivalIsClean

------------------------------------------------------------------------------
(* Fire times, for any due instant, zone and period. *)

\* What the clock of a zone shows at an instant.
LocalHour(at, z) == (at + z) % Day

\* A date and an hour of a day make the instant that reads so.
LEMMA DivisionByDay ==
  ASSUME NEW d \in Int, NEW h \in 0 .. 23
  PROVE  (24 * d + h) \div 24 = d /\ (24 * d + h) % 24 = h
OBVIOUS

\* Every instant falls on one date.
LEMMA DateIsInt ==
  ASSUME NEW x \in Int, NEW z \in Int
  PROVE  /\ DueCalendarDate(x, z) \in Int
         /\ Day * DueCalendarDate(x, z) <= x + z
         /\ x + z < Day * DueCalendarDate(x, z) + Day
BY DEF DueCalendarDate, Day

\* LocalFireAt returns 14:00:00 on the date it is given (firetimes.go): the
\* recipient's clock shows that hour and its calendar that date.
LEMMA FireReadsLocally ==
  ASSUME NEW date \in Int, NEW z \in Int
  PROVE  /\ LocalFireAt(date, z) \in Int
         /\ DueCalendarDate(LocalFireAt(date, z), z) = date
         /\ LocalHour(LocalFireAt(date, z), z) = localFireHour
<1>1. LocalFireAt(date, z) + z = 24 * date + 14
  BY DEF LocalFireAt, Day, localFireHour
<1>2. LocalFireAt(date, z) \in Int BY DEF LocalFireAt, Day, localFireHour
<1> QED
  BY <1>1, <1>2, DivisionByDay DEF DueCalendarDate, LocalHour, Day, localFireHour

LEMMA OffsetsAreDays ==
  ASSUME NEW days \in Int
  PROVE  0 \in BeforeDateDayOffsets(days) /\ BeforeDateDayOffsets(days) \subseteq 0 .. 6
BY DEF BeforeDateDayOffsets

\* A reminder before the date goes off at 14:00 of the recipient, no later than
\* the due date and at most six days ahead of it, and after the instant from
\* which reminders are materialised (HousingBeforeDateFiresUTC).
THEOREM RemindersLeadToTheDate ==
  ASSUME NEW dueAt \in Int, NEW days \in Int, NEW z \in Int, NEW after \in Int,
         NEW at \in HousingBeforeDateFires(dueAt, days, z, after)
  PROVE  /\ LocalHour(at, z) = localFireHour
         /\ DueCalendarDate(at, z) <= DueCalendarDate(dueAt, z)
         /\ DueCalendarDate(at, z) >= DueCalendarDate(dueAt, z) - 6
         /\ at > after
<1> DEFINE due == DueCalendarDate(dueAt, z)
<1>1. due \in Int BY DateIsInt
<1> HIDE DEF due
<1>2. PICK k \in BeforeDateDayOffsets(days) : at = LocalFireAt(due - k, z)
  BY DEF HousingBeforeDateFires, due
<1>3. k \in 0 .. 6 BY <1>2, OffsetsAreDays
<1>4. DueCalendarDate(at, z) = due - k /\ LocalHour(at, z) = localFireHour
  BY <1>1, <1>2, <1>3, FireReadsLocally
<1>5. at > after BY DEF HousingBeforeDateFires
<1> QED BY <1>1, <1>3, <1>4, <1>5 DEF due

\* The overdue reminder goes off at 14:00 of the recipient on the day after the
\* due date, so later than the due instant and than every reminder before the
\* date, by a day at least (HousingOverdueFireUTC).
THEOREM OverdueComesLast ==
  ASSUME NEW dueAt \in Int, NEW days \in Int, NEW z \in Int, NEW after \in Int,
         NEW late \in HousingOverdueFires(dueAt, z, after)
  PROVE  /\ LocalHour(late, z) = localFireHour
         /\ DueCalendarDate(late, z) = DueCalendarDate(dueAt, z) + 1
         /\ late > dueAt
         /\ \A at \in HousingBeforeDateFires(dueAt, days, z, after) : at + Day <= late
<1> DEFINE due == DueCalendarDate(dueAt, z)
<1>1. due \in Int /\ dueAt + z < 24 * due + 24 BY DateIsInt DEF Day
<1> HIDE DEF due
<1>2. late = LocalFireAt(due + 1, z) BY DEF HousingOverdueFires, due
<1>3. DueCalendarDate(late, z) = due + 1 /\ LocalHour(late, z) = localFireHour
  BY <1>1, <1>2, FireReadsLocally
<1>4. late > dueAt BY <1>1, <1>2 DEF LocalFireAt, Day, localFireHour
<1>5. ASSUME NEW at \in HousingBeforeDateFires(dueAt, days, z, after)
      PROVE  at + Day <= late
  <2>1. PICK k \in BeforeDateDayOffsets(days) : at = LocalFireAt(due - k, z)
    BY DEF HousingBeforeDateFires, due
  <2>2. k \in 0 .. 6 BY <2>1, OffsetsAreDays
  <2> QED BY <1>1, <1>2, <2>1, <2>2 DEF LocalFireAt, Day, localFireHour
<1> QED BY <1>3, <1>4, <1>5 DEF due

\* The reminder of the due date itself is never left out: whatever the period,
\* terms that arrive before 14:00 of that date have it, and terms that arrive
\* before 14:00 of the next day have the overdue one.
THEOREM DueDayIsAlwaysArmed ==
  ASSUME NEW dueAt \in Int, NEW days \in Int, NEW z \in Int, NEW after \in Int
  PROVE  LET due == DueCalendarDate(dueAt, z) IN
         /\ after < LocalFireAt(due, z) =>
              LocalFireAt(due, z) \in HousingBeforeDateFires(dueAt, days, z, after)
         /\ after < LocalFireAt(due + 1, z) =>
              HousingOverdueFires(dueAt, z, after) = {LocalFireAt(due + 1, z)}
<1> DEFINE due == DueCalendarDate(dueAt, z)
<1>1. due \in Int BY DateIsInt
<1>2. 0 \in BeforeDateDayOffsets(days) BY OffsetsAreDays
<1>3. due - 0 = due BY <1>1
<1>4. LocalFireAt(due, z) \in Int /\ LocalFireAt(due + 1, z) \in Int
  BY <1>1, FireReadsLocally
<1>5. LocalFireAt(due, z) \in
        {LocalFireAt(due - k, z) : k \in BeforeDateDayOffsets(days)}
  BY <1>2, <1>3
<1> QED BY <1>4, <1>5 DEF HousingBeforeDateFires, HousingOverdueFires
================================================================================
