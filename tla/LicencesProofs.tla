----------------------------- MODULE LicencesProofs -----------------------------
(***************************************************************************)
(* Proofs about Licences for any number of purchases, plans, operators,    *)
(* uploads and failures.                                                   *)
(***************************************************************************)
EXTENDS Licences, TLAPS

Job == [at : {"idle", "grant", "push", "undo", "revoke", "clear", "upsert",
              "receipts", "free", "cover"},
        known : BOOLEAN, purchase : SUBSET Purchase, says : Subscription,
        paid : BOOLEAN, left : SUBSET Plan]

\* A projection has a plan left to reach, an announcement a token.
Covering(j) ==
  /\ j.at = "cover" => j.left # {}
  /\ j.at = "push" => j.known

\* A handler goes on, to a step of its own.
LEMMA JobStep ==
  ASSUME TypeOK, NEW h \in Handler, NEW j \in Job, Covering(j), job' = [job EXCEPT ![h] = j]
  PROVE  job' \in [Handler -> Job] /\ \A g \in Handler : Covering(job'[g])
BY DEF TypeOK, Job, Covering

LEMMA GotoStep ==
  ASSUME TypeOK, NEW h \in Handler,
         NEW step \in {"idle", "grant", "push", "undo", "revoke", "clear", "upsert",
                       "receipts", "free"},
         step = "push" => job[h].known,
         Goto(h, step)
  PROVE  job' \in [Handler -> Job] /\ \A g \in Handler : Covering(job'[g])
<1> DEFINE j == [job[h] EXCEPT !.at = step]
<1>1. job[h] \in Job BY DEF TypeOK, Job
<1>2. j \in Job /\ j.at = step /\ j.known = job[h].known BY <1>1 DEF Job
<1>3. Covering(j) BY <1>2 DEF Covering
<1> QED BY <1>2, <1>3, JobStep DEF Goto, TypeOK

LEMMA LeaveStep ==
  ASSUME TypeOK, NEW h \in Handler, Leave(h)
  PROVE  job' \in [Handler -> Job] /\ \A g \in Handler : Covering(job'[g])
<1>1. Unoccupied \in Job /\ Covering(Unoccupied)
  BY DEF Unoccupied, Job, Covering, Subscription
<1> QED BY <1>1, JobStep DEF Leave

JobsOK == job \in [Handler -> Job] /\ \A g \in Handler : Covering(job[g])

RowsOK ==
  /\ grant \in BOOLEAN /\ token \in BOOLEAN
  /\ receipt \in [Purchase -> Subscription \cup {"lapsed"}]
  /\ coverage \in [Plan -> {"none", "active_paid", "unpaid"}]
  /\ play \in [Purchase -> Subscription]
  /\ requests \in 0 .. MaxRequests /\ troubles \in 0 .. MaxTroubles

LEMMA TypeSplit == TypeOK <=> JobsOK /\ RowsOK
BY DEF TypeOK, JobsOK, RowsOK, Job, Covering

LEMMA TypeInit == Init => TypeOK
<1> SUFFICES ASSUME Init PROVE TypeOK OBVIOUS
<1>1. RowsOK
  <2>1. requests \in 0 .. MaxRequests /\ troubles \in 0 .. MaxTroubles
    BY BoundAssumption DEF Init
  <2> QED BY <2>1 DEF Init, RowsOK, Subscription
<1>2. JobsOK BY DEF Init, JobsOK, Job, Covering, Unoccupied, Subscription
<1> QED BY <1>1, <1>2, TypeSplit

LEMMA JobsStep == TypeOK /\ [Next]_vars => JobsOK'
<1> SUFFICES ASSUME TypeOK, [Next]_vars PROVE JobsOK' OBVIOUS
<1> USE DEF JobsOK
<1>0. CASE UNCHANGED job BY <1>0 DEF TypeOK, JobsOK, Job, Covering
<1>t. ASSUME NEW h \in Handler PROVE job[h] \in Job BY DEF TypeOK, Job
<1>1. ASSUME NEW h \in Operator, SetFreeLicense(h) PROVE JobsOK'
  <2> DEFINE j == [job[h] EXCEPT !.at = "grant", !.known = token]
  <2>1. h \in Handler BY DEF Handler
  <2>2. j \in Job /\ Covering(j) BY <1>t, <2>1 DEF Job, Covering, TypeOK
  <2>3. job' = [job EXCEPT ![h] = j] BY <1>1, <2>1 DEF SetFreeLicense, TypeOK
  <2> QED BY <2>1, <2>2, <2>3, JobStep
<1>2. ASSUME NEW h \in Operator, DeleteFreeLicense(h) PROVE JobsOK'
  BY <1>2, GotoStep DEF DeleteFreeLicense, Handler
<1>3. ASSUME NEW h \in Uploader, NEW q \in Purchase, HandlePlayToken(h, q) PROVE JobsOK'
  <2> DEFINE j == [job[h] EXCEPT !.at = "upsert", !.purchase = {q}, !.says = play[q]]
  <2>1. h \in Handler BY DEF Handler
  <2>2. j \in Job /\ Covering(j) BY <1>t, <2>1 DEF Job, Covering, TypeOK
  <2>3. job' = [job EXCEPT ![h] = j] BY <1>3, <2>1 DEF HandlePlayToken, TypeOK
  <2> QED BY <2>1, <2>2, <2>3, JobStep
<1>4. ASSUME NEW h \in Handler,
             \/ CommitFreeLicense(h) \/ SendGrant(h) \/ UndoGrant(h)
             \/ SendRevoke(h) \/ ClearFreeLicense(h) \/ UpsertPlayReceipt(h) \/ Interrupt(h)
      PROVE  JobsOK'
  BY <1>4, GotoStep, LeaveStep
  DEF CommitFreeLicense, SendGrant, UndoGrant, SendRevoke, ClearFreeLicense,
      UpsertPlayReceipt, Interrupt
<1>5. ASSUME NEW h \in Handler, PlayReceiptsForInstallation(h) PROVE JobsOK'
  <2> DEFINE paid == \E q \in Purchase : receipt[q] = "active"
             j == [job[h] EXCEPT !.at = "free", !.paid = paid]
  <2>1. j \in Job /\ Covering(j) BY <1>t DEF Job, Covering
  <2>2. job' = [job EXCEPT ![h] = j] BY <1>5 DEF PlayReceiptsForInstallation, TypeOK
  <2> QED BY <2>1, <2>2, JobStep
<1>6. ASSUME NEW h \in Handler, FreeLicenseForInstallation(h) PROVE JobsOK'
  <2> DEFINE j == [job[h] EXCEPT !.at = "cover", !.paid = @ \/ grant, !.left = Plan]
  <2>1. j \in Job /\ Covering(j) BY <1>t, PlanAssumption DEF Job, Covering, TypeOK
  <2>2. job' = [job EXCEPT ![h] = j] BY <1>6 DEF FreeLicenseForInstallation, TypeOK
  <2> QED BY <2>1, <2>2, JobStep
<1>7. ASSUME NEW h \in Handler, UpsertLicenseStatus(h) PROVE JobsOK'
  <2>1. PICK p \in job[h].left :
          job' = [job EXCEPT ![h] =
                    IF job[h].left = {p} THEN Unoccupied ELSE [job[h] EXCEPT !.left = @ \ {p}]]
    BY <1>7 DEF UpsertLicenseStatus
  <2> DEFINE j == [job[h] EXCEPT !.left = @ \ {p}]
  <2>2. CASE job[h].left = {p} BY <2>1, <2>2, LeaveStep DEF Leave
  <2>3. CASE job[h].left # {p}
    <3>1. j \in Job /\ j.left # {} /\ j.at = "cover"
      BY <1>7, <1>t, <2>3 DEF Job, UpsertLicenseStatus, At
    <3>2. job' = [job EXCEPT ![h] = j] BY <2>1, <2>3
    <3> QED BY <3>1, <3>2, JobStep DEF Covering
  <2> QED BY <2>2, <2>3
<1>8. ASSUME NEW q \in Purchase, UploadElsewhere(q) \/ Lapse(q) \/ Subscribe(q) PROVE JobsOK'
  BY <1>0, <1>8 DEF UploadElsewhere, Lapse, Subscribe
<1>9. CASE RegisterPushToken \/ UNCHANGED vars BY <1>0, <1>9 DEF RegisterPushToken, vars
<1> QED BY <1>1, <1>2, <1>3, <1>4, <1>5, <1>6, <1>7, <1>8, <1>9 DEF Next, Serve

LEMMA RowsStep == TypeOK /\ [Next]_vars => RowsOK'
<1> SUFFICES ASSUME TypeOK, [Next]_vars PROVE RowsOK' OBVIOUS
<1>q. Request => requests' \in 0 .. MaxRequests BY BoundAssumption DEF Request, TypeOK
<1>t. Trouble => troubles' \in 0 .. MaxTroubles BY BoundAssumption DEF Trouble, TypeOK
<1> USE DEF TypeOK, RowsOK, server
<1>1. ASSUME NEW h \in Operator, SetFreeLicense(h) \/ DeleteFreeLicense(h) PROVE RowsOK'
  BY <1>1, <1>q DEF SetFreeLicense, DeleteFreeLicense
<1>2. ASSUME NEW h, NEW q, HandlePlayToken(h, q) PROVE RowsOK' BY <1>2 DEF HandlePlayToken
<1>3. ASSUME NEW h,
             \/ CommitFreeLicense(h) \/ SendGrant(h) \/ UndoGrant(h)
             \/ SendRevoke(h) \/ ClearFreeLicense(h) \/ PlayReceiptsForInstallation(h)
             \/ FreeLicenseForInstallation(h) \/ Interrupt(h) \/ RegisterPushToken
      PROVE  RowsOK'
  BY <1>3, <1>t
  DEF CommitFreeLicense, SendGrant, UndoGrant, SendRevoke, ClearFreeLicense,
      PlayReceiptsForInstallation, FreeLicenseForInstallation, Interrupt, RegisterPushToken
<1>4. ASSUME NEW h \in Handler, UpsertPlayReceipt(h) PROVE RowsOK'
  <2>1. job[h].says \in Subscription OBVIOUS
  <2> QED BY <1>4, <2>1 DEF UpsertPlayReceipt
<1>5. ASSUME NEW h \in Handler, UpsertLicenseStatus(h) PROVE RowsOK'
  BY <1>5 DEF UpsertLicenseStatus
<1>6. ASSUME NEW q \in Purchase, UploadElsewhere(q) \/ Lapse(q) PROVE RowsOK'
  BY <1>6, <1>t DEF UploadElsewhere, Lapse, Subscription
<1>7. ASSUME NEW q \in Purchase, Subscribe(q) PROVE RowsOK'
  BY <1>7, <1>q DEF Subscribe
<1>8. CASE UNCHANGED vars BY <1>8 DEF vars
<1> QED BY <1>1, <1>2, <1>3, <1>4, <1>5, <1>6, <1>7, <1>8 DEF Next, Serve

LEMMA TypeStep == TypeOK /\ [Next]_vars => TypeOK'
<1>1. TypeOK' <=> JobsOK' /\ RowsOK' BY DEF TypeOK, JobsOK, RowsOK, Job, Covering
<1> QED BY <1>1, JobsStep, RowsStep

\* The variables of the server and its handlers keep their types, and a
\* projection under way has a plan left to reach.
THEOREM TypeCorrect == Spec => []TypeOK
BY TypeInit, TypeStep, PTL DEF Spec

\* Only operators' transactions hold the installation's row.
Locked ==
  \A h \in Handler :
    At(h, "grant") =>
      /\ h \in Operator
      /\ ~grant /\ job[h].known = token
      /\ \A g \in Operator : At(g, "grant") => g = h

\* Nobody takes the row, and who writes it finds it free.
LEMMA LockedStays ==
  ASSUME Locked,
         \A g \in Handler : At(g, "grant")' => At(g, "grant") /\ job'[g].known = job[g].known,
         UNCHANGED <<grant, token>> \/ \A g \in Handler : ~At(g, "grant")'
  PROVE  Locked'
<1>1. CASE \A g \in Handler : ~At(g, "grant")' BY <1>1 DEF Locked
<1>2. CASE UNCHANGED <<grant, token>>
  <2> SUFFICES ASSUME NEW h \in Handler, At(h, "grant")'
               PROVE  /\ h \in Operator /\ ~grant /\ job'[h].known = token
                      /\ \A g \in Operator : At(g, "grant")' => g = h
    BY <1>2 DEF Locked
  <2>1. Operator \subseteq Handler BY DEF Handler
  <2> QED BY <2>1 DEF Locked
<1> QED BY <1>1, <1>2

LEMMA LockedInit == Init => Locked
BY DEF Init, Locked, At, Unoccupied

\* Where each step leaves its handler.
LEMMA Moves ==
  ASSUME TypeOK, NEW h \in Handler
  PROVE  /\ \A step : Goto(h, step) => job'[h].at = step /\ \A g \in Handler \ {h} : job'[g] = job[g]
         /\ Leave(h) => job'[h].at = "idle" /\ \A g \in Handler \ {h} : job'[g] = job[g]
BY DEF Goto, Leave, TypeOK, Unoccupied

LEMMA LockedStep == TypeOK /\ Locked /\ [Next]_vars => Locked'
<1> SUFFICES ASSUME TypeOK, Locked, [Next]_vars PROVE Locked' OBVIOUS
<1>o. Operator \subseteq Handler /\ Uploader \subseteq Handler BY DEF Handler
<1>f. RowIsFree => \A g \in Handler : ~At(g, "grant") BY DEF Locked, RowIsFree
<1>m. ASSUME NEW h \in Handler, NEW step, step # "grant", Goto(h, step) \/ Leave(h)
      PROVE  /\ ~At(h, "grant")'
             /\ \A g \in Handler \ {h} : job'[g] = job[g]
             /\ \A g \in Handler :
                  At(g, "grant")' => At(g, "grant") /\ job'[g].known = job[g].known
  <2>1. job'[h].at \in {step, "idle"} /\ \A g \in Handler \ {h} : job'[g] = job[g]
    BY <1>m, Moves
  <2> QED BY <1>m, <2>1 DEF At
<1>1. ASSUME NEW h \in Operator, SetFreeLicense(h) PROVE Locked'
  <2>1. /\ job' = [job EXCEPT ![h].at = "grant", ![h].known = token]
        /\ ~grant /\ UNCHANGED <<grant, token>> /\ RowIsFree
    BY <1>1 DEF SetFreeLicense, server
  <2>2. /\ job'[h].at = "grant" /\ job'[h].known = token
        /\ \A g \in Handler \ {h} : job'[g] = job[g]
    BY <1>o, <2>1 DEF TypeOK
  <2>3. \A g \in Handler \ {h} : ~At(g, "grant")' BY <1>f, <2>1, <2>2 DEF At
  <2> QED BY <1>o, <2>1, <2>2, <2>3 DEF Locked, At
<1>2. ASSUME NEW h \in Handler, CommitFreeLicense(h) PROVE Locked'
  <2>1. At(h, "grant") /\ Goto(h, IF job[h].known THEN "push" ELSE "undo")
    BY <1>2 DEF CommitFreeLicense
  <2>2. \A g \in Handler : At(g, "grant") => g = h BY <2>1 DEF Locked
  <2>3. ~At(h, "grant")' /\ \A g \in Handler \ {h} : job'[g] = job[g] BY <1>m, <2>1
  <2> QED BY <2>2, <2>3 DEF Locked, At
<1>3. ASSUME NEW h \in Handler, UndoGrant(h) \/ ClearFreeLicense(h) PROVE Locked'
  <2>1. RowIsFree /\ (Leave(h) \/ Goto(h, "receipts"))
    BY <1>3 DEF UndoGrant, ClearFreeLicense
  <2>2. \A g \in Handler : ~At(g, "grant")' BY <1>f, <1>m, <2>1 DEF At
  <2> QED BY <2>2 DEF Locked
<1>4. ASSUME NEW h \in Handler,
             \/ SendGrant(h) \/ SendRevoke(h) \/ UpsertPlayReceipt(h) \/ Interrupt(h)
             \/ h \in Operator /\ DeleteFreeLicense(h)
      PROVE  Locked'
  <2>1. UNCHANGED <<grant, token>>
    BY <1>4 DEF SendGrant, SendRevoke, UpsertPlayReceipt, Interrupt, DeleteFreeLicense, server
  <2>2. PICK step \in {"receipts", "undo", "clear", "revoke"} : Goto(h, step) \/ Leave(h)
    BY <1>4 DEF SendGrant, SendRevoke, UpsertPlayReceipt, Interrupt, DeleteFreeLicense
  <2> QED BY <1>m, <2>1, <2>2, LockedStays
<1>5. ASSUME NEW h \in Handler, NEW j, j.at # "grant", job' = [job EXCEPT ![h] = j],
             UNCHANGED <<grant, token>>
      PROVE  Locked'
  <2>1. \A g \in Handler : At(g, "grant")' => At(g, "grant") /\ job'[g].known = job[g].known
    BY <1>5 DEF At, TypeOK
  <2> QED BY <1>5, <2>1, LockedStays
<1>j. ASSUME NEW h \in Handler PROVE job[h] \in Job BY DEF TypeOK, Job
<1>6. ASSUME NEW h \in Uploader, NEW q \in Purchase, HandlePlayToken(h, q) PROVE Locked'
  <2> DEFINE j == [job[h] EXCEPT !.at = "upsert", !.purchase = {q}, !.says = play[q]]
  <2>1. j.at # "grant" BY <1>j, <1>o DEF Job
  <2>2. job' = [job EXCEPT ![h] = j] /\ UNCHANGED <<grant, token>>
    BY <1>6, <1>o DEF HandlePlayToken, TypeOK, server
  <2> QED BY <1>5, <1>o, <2>1, <2>2
<1>7. ASSUME NEW h \in Handler, PlayReceiptsForInstallation(h) PROVE Locked'
  <2> DEFINE paid == \E q \in Purchase : receipt[q] = "active"
             j == [job[h] EXCEPT !.at = "free", !.paid = paid]
  <2>1. j.at # "grant" BY <1>j DEF Job
  <2>2. job' = [job EXCEPT ![h] = j] /\ UNCHANGED <<grant, token>>
    BY <1>7 DEF PlayReceiptsForInstallation, TypeOK, server
  <2> QED BY <1>5, <2>1, <2>2
<1>8. ASSUME NEW h \in Handler, FreeLicenseForInstallation(h) PROVE Locked'
  <2> DEFINE j == [job[h] EXCEPT !.at = "cover", !.paid = @ \/ grant, !.left = Plan]
  <2>1. j.at # "grant" BY <1>j DEF Job
  <2>2. job' = [job EXCEPT ![h] = j] /\ UNCHANGED <<grant, token>>
    BY <1>8 DEF FreeLicenseForInstallation, TypeOK, server
  <2> QED BY <1>5, <2>1, <2>2
<1>9. ASSUME NEW h \in Handler, UpsertLicenseStatus(h) PROVE Locked'
  <2>1. PICK p \in job[h].left :
          job' = [job EXCEPT ![h] =
                    IF job[h].left = {p} THEN Unoccupied ELSE [job[h] EXCEPT !.left = @ \ {p}]]
    BY <1>9 DEF UpsertLicenseStatus
  <2> DEFINE j == IF job[h].left = {p} THEN Unoccupied ELSE [job[h] EXCEPT !.left = @ \ {p}]
  <2>2. j.at # "grant" BY <1>9, <1>j DEF UpsertLicenseStatus, At, Job, Unoccupied
  <2>3. job' = [job EXCEPT ![h] = j] BY <2>1
  <2>4. UNCHANGED <<grant, token>> BY <1>9 DEF UpsertLicenseStatus
  <2> QED BY <1>5, <2>2, <2>3, <2>4
<1>10. ASSUME NEW q \in Purchase, UploadElsewhere(q) \/ Lapse(q) \/ Subscribe(q) PROVE Locked'
  <2>1. UNCHANGED <<grant, token, job>>
    BY <1>10 DEF UploadElsewhere, Lapse, Subscribe, server
  <2> QED BY <2>1 DEF Locked, At
<1>11. CASE RegisterPushToken
  <2>1. \A g \in Handler : ~At(g, "grant")' BY <1>11, <1>f DEF RegisterPushToken, At
  <2> QED BY <2>1 DEF Locked
<1>12. CASE UNCHANGED vars BY <1>12 DEF vars, server, Locked, At
<1> QED BY <1>o, <1>1, <1>2, <1>3, <1>4, <1>6, <1>7, <1>8, <1>9, <1>10, <1>11, <1>12
        DEF Next, Serve

\* Two grants are never stacked, and a grant is announced to the installation's
\* push token (SetFreeLicense locks the installation's row).
THEOREM GrantsAreNeverStacked == Spec => []GrantsDoNotStack
<1>1. Init => TypeOK /\ Locked BY TypeInit, LockedInit
<1>2. TypeOK /\ Locked /\ [Next]_vars => (TypeOK /\ Locked)' BY TypeStep, LockedStep
<1>3. Locked => GrantsDoNotStack BY DEF Locked, GrantsDoNotStack, Handler
<1> QED BY <1>1, <1>2, <1>3, PTL DEF Spec
================================================================================
