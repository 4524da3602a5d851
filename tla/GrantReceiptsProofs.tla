--------------------------- MODULE GrantReceiptsProofs ---------------------------
(***************************************************************************)
(* Proofs about GrantReceipts for any number of purchases, answers under   *)
(* way, actions and stops.                                                 *)
(***************************************************************************)
EXTENDS GrantReceipts, TLAPS

Write == [list : SUBSET Receipt, adds : SUBSET Purchase, query : BOOLEAN]
Query == [doing : {"none", "upsert", "retain"},
          live : SUBSET Purchase, left : SUBSET Purchase]
Isolate == [loaded : BOOLEAN, copy : SUBSET Receipt, change : Change \cup {"none"}]

\* Every message is of something an operator did, and a grant still to be
\* announced has a message to come.
ServerOK ==
  /\ grant \in BOOLEAN /\ operator \in {"idle", "grant", "clear"}
  /\ pushes \in [Change -> Nat]
  /\ actions \in 0 .. MaxActions /\ troubles \in 0 .. MaxTroubles
  /\ pushes["grant"] + pushes["revoke"] + (IF operator = "grant" THEN 1 ELSE 0) <= actions

ListsOK ==
  /\ play \subseteq Purchase
  /\ app \in {"dead", "paused", "resumed"}
  /\ memory \subseteq Receipt /\ disk \subseteq Receipt
  /\ writes \in Seq(Write)
  /\ stream \subseteq Purchase /\ uploads \subseteq Purchase \X BOOLEAN
  /\ background \in Isolate

AnswersOK ==
  /\ answers \in [BOOLEAN -> Nat]
  /\ answers[TRUE] + answers[FALSE] <= MaxSyncs

QueryOK == query \in Query /\ query.left \subseteq query.live

\* The query has one purchase under way: its list, then its upload, whose
\* expiry may be one list more.
OneUpload == \A u, v \in uploads : u[2] /\ v[2] => u = v
OneWrite == \A i, j \in DOMAIN writes : writes[i].query /\ writes[j].query => i = j
QueryWaits ==
  /\ OneWrite /\ OneUpload
  /\ \A i \in DOMAIN writes, u \in uploads :
       writes[i].query /\ u[2] => u[1] \in writes[i].adds
  /\ query.doing = "retain" => ~Queried
  /\ query.doing # "upsert" => \A u \in uploads : ~u[2]

\* Nothing of a stopped app goes on.
DeadIsDead ==
  app = "dead" =>
    /\ writes = <<>> /\ query = NoQuery /\ stream = {} /\ uploads = {}
    /\ \A b \in BOOLEAN : answers[b] = 0

Inv == ServerOK /\ ListsOK /\ AnswersOK /\ QueryOK /\ QueryWaits /\ DeadIsDead

------------------------------------------------------------------------------
(* Lists under way *)

LEMMA AppendFacts ==
  ASSUME writes \in Seq(Write), NEW w \in Write, saveAll(w)
  PROVE  /\ writes' \in Seq(Write)
         /\ DOMAIN writes' = 1 .. Len(writes) + 1 /\ DOMAIN writes = 1 .. Len(writes)
         /\ Len(writes) \in Nat
         /\ \A i \in 1 .. Len(writes) : writes'[i] = writes[i]
         /\ writes'[Len(writes) + 1] = w
<1>1. writes' = Append(writes, w) BY DEF saveAll
<1>2. Len(writes) \in Nat /\ DOMAIN writes = 1 .. Len(writes) OBVIOUS
<1>3. writes' \in Seq(Write) /\ Len(writes') = Len(writes) + 1 BY <1>1
<1>4. DOMAIN writes' = 1 .. Len(writes) + 1 BY <1>3
<1>5. \A i \in 1 .. Len(writes) : writes'[i] = writes[i] BY <1>1
<1>6. writes'[Len(writes) + 1] = w BY <1>1, <1>2
<1> QED BY <1>2, <1>3, <1>4, <1>5, <1>6

LEMMA TailFacts ==
  ASSUME writes \in Seq(Write), writes # <<>>, writes' = Tail(writes)
  PROVE  /\ writes' \in Seq(Write) /\ Head(writes) \in Write
         /\ \A i \in DOMAIN writes' : /\ i \in Int /\ i + 1 \in DOMAIN writes
                                      /\ writes'[i] = writes[i + 1]
<1>1. writes' \in Seq(Write) /\ Head(writes) \in Write OBVIOUS
<1>2. /\ Len(writes) \in Nat \ {0} /\ DOMAIN writes = 1 .. Len(writes)
      /\ Len(writes') = Len(writes) - 1
  OBVIOUS
<1>3. DOMAIN writes' = 1 .. Len(writes) - 1 BY <1>1, <1>2
<1>4. \A i \in 1 .. Len(writes) - 1 : writes'[i] = writes[i + 1] BY <1>2
<1> QED BY <1>1, <1>2, <1>3, <1>4

LEMMA CachedOK == ASSUME ListsOK PROVE Cached \subseteq Receipt
<1>1. CASE writes = <<>> BY <1>1 DEF Cached, ListsOK
<1>2. CASE writes # <<>>
  <2>1. Last(writes) \in Write BY <1>2 DEF ListsOK, Last
  <2> QED BY <1>2, <2>1 DEF Cached, Write
<1> QED BY <1>1, <1>2

LEMMA WriteOK ==
  ASSUME NEW list \in SUBSET Receipt, NEW adds \in SUBSET Purchase, NEW b \in BOOLEAN
  PROVE  [list |-> list, adds |-> adds, query |-> b] \in Write
BY DEF Write

LEMMA ReconciledOK ==
  ASSUME NEW local \in SUBSET Receipt, NEW granted, NEW live
  PROVE  /\ reconcileServerGrantReceipts(local, granted) \in SUBSET Receipt
         /\ reconcileGooglePlayReceipts(local, live) \in SUBSET Receipt
BY DEF reconcileServerGrantReceipts, reconcileGooglePlayReceipts, Receipt

\* What another caller has under way is nothing to the query.
LEMMA OtherWrite ==
  ASSUME ListsOK, QueryWaits, NEW w \in Write, ~w.query, saveAll(w),
         NEW u, \A v \in u : ~v[2], uploads' \subseteq uploads \cup u,
         query' = query
  PROVE  QueryWaits'
<1>1. /\ DOMAIN writes' = 1 .. Len(writes) + 1 /\ DOMAIN writes = 1 .. Len(writes)
      /\ \A i \in 1 .. Len(writes) : writes'[i] = writes[i]
      /\ writes'[Len(writes) + 1] = w /\ Len(writes) \in Nat
  BY AppendFacts DEF ListsOK
<1>2. \A i \in DOMAIN writes' : writes'[i].query => i \in DOMAIN writes /\ writes'[i] = writes[i]
  BY <1>1
<1>3. \A v \in uploads' : v[2] => v \in uploads OBVIOUS
<1>4. OneWrite' BY <1>2 DEF QueryWaits, OneWrite
<1>5. OneUpload' BY <1>3 DEF QueryWaits, OneUpload
<1>6. Queried' => Queried BY <1>2 DEF Queried
<1>7. \A i \in DOMAIN writes', v \in uploads' :
        writes'[i].query /\ v[2] => v[1] \in writes'[i].adds
  BY <1>2, <1>3 DEF QueryWaits
<1> QED BY <1>3, <1>4, <1>5, <1>6, <1>7 DEF QueryWaits

\* The query writes a list when it has none under way, and no other upload.
LEMMA QueryWrite ==
  ASSUME ListsOK, ~Queried, NEW w \in Write, w.query, saveAll(w),
         query'.doing # "retain",
         \A v \in uploads' : v[2] => v[1] \in w.adds /\ query'.doing = "upsert",
         OneUpload'
  PROVE  QueryWaits'
<1>1. /\ DOMAIN writes' = 1 .. Len(writes) + 1 /\ DOMAIN writes = 1 .. Len(writes)
      /\ \A i \in 1 .. Len(writes) : writes'[i] = writes[i]
      /\ writes'[Len(writes) + 1] = w /\ Len(writes) \in Nat
  BY AppendFacts DEF ListsOK
<1>2. \A i \in DOMAIN writes' : writes'[i].query => i = Len(writes) + 1
  BY <1>1 DEF Queried
<1>3. OneWrite' BY <1>2 DEF OneWrite
<1>4. \A i \in DOMAIN writes', v \in uploads' :
        writes'[i].query /\ v[2] => v[1] \in writes'[i].adds
  BY <1>1, <1>2
<1> QED BY <1>3, <1>4 DEF QueryWaits

LEMMA QueryQuiet ==
  ASSUME QueryWaits, writes' = writes, uploads' \subseteq uploads,
         query'.doing = query.doing \/ query'.doing = "upsert"
  PROVE  QueryWaits'
BY DEF QueryWaits, OneWrite, OneUpload, Queried

------------------------------------------------------------------------------
(* Steps *)

LEMMA InvInit == Init => Inv
<1> SUFFICES ASSUME Init PROVE Inv OBVIOUS
<1>1. ServerOK
  <2>1. 0 \in 0 .. MaxActions /\ 0 \in 0 .. MaxTroubles BY BoundAssumption
  <2>2. /\ pushes = [c \in Change |-> 0] /\ "grant" \in Change /\ "revoke" \in Change
        /\ operator = "idle" /\ actions = 0 /\ troubles = 0 /\ grant = FALSE
    BY DEF Init, Change
  <2>3. pushes \in [Change -> Nat] BY <2>2
  <2>4. pushes["grant"] = 0 /\ pushes["revoke"] = 0 BY <2>2
  <2>5. pushes["grant"] + pushes["revoke"] + (IF operator = "grant" THEN 1 ELSE 0) <= actions
    BY <2>2, <2>4
  <2> QED BY <2>1, <2>2, <2>3, <2>5 DEF ServerOK
<1>2. ListsOK BY DEF Init, ListsOK, Isolate, NoIsolate
<1>3. AnswersOK
  <2>1. answers = [b \in BOOLEAN |-> 0] BY DEF Init
  <2>2. answers[TRUE] = 0 /\ answers[FALSE] = 0 /\ answers \in [BOOLEAN -> Nat] BY <2>1
  <2> QED BY <2>2, BoundAssumption DEF AnswersOK
<1>4. QueryOK BY DEF Init, QueryOK, Query, NoQuery
<1>5. QueryWaits
  BY DEF Init, QueryWaits, OneWrite, OneUpload, Queried, NoQuery
<1>6. DeadIsDead BY DEF Init, DeadIsDead
<1> QED BY <1>1, <1>2, <1>3, <1>4, <1>5, <1>6 DEF Inv

LEMMA BoundsOK ==
  ASSUME ServerOK
  PROVE  /\ Act => actions' \in 0 .. MaxActions /\ actions' = actions + 1
         /\ Trouble => troubles' \in 0 .. MaxTroubles
BY BoundAssumption DEF ServerOK, Act, Trouble

LEMMA ServerStep == Inv /\ [Next]_vars => ServerOK'
<1> SUFFICES ASSUME Inv, [Next]_vars PROVE ServerOK' OBVIOUS
<1>i. ServerOK BY DEF Inv
<1>b. /\ Act => actions' \in 0 .. MaxActions /\ actions' = actions + 1
      /\ Trouble => troubles' \in 0 .. MaxTroubles
  BY <1>i, BoundsOK
<1>n. /\ "grant" \in Change /\ "revoke" \in Change
      /\ pushes["grant"] \in Nat /\ pushes["revoke"] \in Nat /\ actions \in Nat
      /\ actions <= MaxActions
  BY <1>i DEF ServerOK, Change
<1>a. ASSUME NEW c \in Change, Announce(c)
      PROVE  /\ pushes' \in [Change -> Nat]
             /\ pushes'["grant"] + pushes'["revoke"] = pushes["grant"] + pushes["revoke"] + 1
  <2>1. pushes' = [pushes EXCEPT ![c] = @ + 1] BY <1>a DEF Announce
  <2>2. pushes' \in [Change -> Nat] BY <1>i, <2>1 DEF ServerOK
  <2>3. CASE c = "grant"
    <3>1. pushes'["grant"] = pushes["grant"] + 1 /\ pushes'["revoke"] = pushes["revoke"]
      BY <1>i, <1>n, <2>1, <2>3 DEF ServerOK
    <3> QED BY <1>n, <2>2, <3>1
  <2>4. CASE c = "revoke"
    <3>1. pushes'["revoke"] = pushes["revoke"] + 1 /\ pushes'["grant"] = pushes["grant"]
      BY <1>i, <1>n, <2>1, <2>4 DEF ServerOK
    <3> QED BY <1>n, <2>2, <3>1
  <2> QED BY <2>3, <2>4 DEF Change
<1>d. ASSUME NEW c \in Change, pushes[c] > 0, pushes' = [pushes EXCEPT ![c] = @ - 1]
      PROVE  /\ pushes' \in [Change -> Nat]
             /\ pushes'["grant"] + pushes'["revoke"] <= pushes["grant"] + pushes["revoke"]
  <2>1. pushes[c] \in Nat BY <1>i DEF ServerOK
  <2>2. pushes' \in [Change -> Nat] BY <1>i, <1>d, <2>1 DEF ServerOK
  <2>3. pushes'["grant"] <= pushes["grant"] /\ pushes'["revoke"] <= pushes["revoke"]
    BY <1>i, <1>n, <1>d, <2>1 DEF ServerOK
  <2>4. pushes'["grant"] \in Nat /\ pushes'["revoke"] \in Nat BY <1>n, <2>2
  <2> QED BY <1>n, <2>2, <2>3, <2>4
<1>1. CASE SetFreeLicense
  BY <1>1, <1>b, <1>i, <1>n DEF SetFreeLicense, ServerOK
<1>2. CASE SendGrant
  <2>1. operator = "grant" /\ operator' = "idle" /\ actions' = actions
    BY <1>2 DEF SendGrant
  <2>2. troubles' \in 0 .. MaxTroubles /\ grant' \in BOOLEAN
    BY <1>2, <1>b, <1>i DEF SendGrant, ServerOK
  <2>3. Announce("grant") \/ pushes' = pushes BY <1>2 DEF SendGrant
  <2>4. /\ pushes' \in [Change -> Nat]
        /\ pushes'["grant"] + pushes'["revoke"] <= pushes["grant"] + pushes["revoke"] + 1
        /\ pushes'["grant"] \in Nat /\ pushes'["revoke"] \in Nat
    BY <1>a, <1>i, <1>n, <2>3 DEF ServerOK
  <2>5. pushes["grant"] + pushes["revoke"] + 1 <= actions BY <1>i, <2>1 DEF ServerOK
  <2>6. pushes'["grant"] + pushes'["revoke"] + 0 <= actions BY <1>n, <2>4, <2>5
  <2> QED BY <1>i, <2>1, <2>2, <2>4, <2>6 DEF ServerOK
<1>3. CASE SendRevoke
  <2>1. /\ operator = "idle" /\ operator' = "clear" /\ Act /\ Announce("revoke")
        /\ grant' = grant /\ troubles' = troubles
    BY <1>3 DEF SendRevoke
  <2>2. /\ pushes' \in [Change -> Nat]
        /\ pushes'["grant"] + pushes'["revoke"] = pushes["grant"] + pushes["revoke"] + 1
        /\ pushes'["grant"] \in Nat /\ pushes'["revoke"] \in Nat
    BY <1>a, <1>n, <2>1
  <2>3. pushes["grant"] + pushes["revoke"] + 0 <= actions BY <1>i, <2>1 DEF ServerOK
  <2>4. pushes'["grant"] + pushes'["revoke"] + 0 <= actions' BY <1>b, <1>n, <2>1, <2>2, <2>3
  <2> QED BY <1>b, <1>i, <2>1, <2>2, <2>4 DEF ServerOK
<1>4. CASE ClearFreeLicense
  BY <1>4, <1>i, <1>n DEF ClearFreeLicense, ServerOK, bounds
<1>5. ASSUME NEW c \in Change, LosePush(c) \/ applyLicensePush(c) \/ loadInBackground(c)
      PROVE  ServerOK'
  <2>1. /\ pushes[c] > 0 /\ pushes' = [pushes EXCEPT ![c] = @ - 1]
        /\ UNCHANGED <<grant, operator, actions, troubles>>
    BY <1>5 DEF LosePush, applyLicensePush, loadInBackground, bounds
  <2>2. /\ pushes' \in [Change -> Nat]
        /\ pushes'["grant"] + pushes'["revoke"] <= pushes["grant"] + pushes["revoke"]
    BY <1>d, <2>1
  <2>3. pushes'["grant"] \in Nat /\ pushes'["revoke"] \in Nat BY <1>n, <2>2
  <2>4. (IF operator' = "grant" THEN 1 ELSE 0) = (IF operator = "grant" THEN 1 ELSE 0)
    BY <2>1
  <2> QED BY <1>i, <1>n, <2>1, <2>2, <2>3, <2>4 DEF ServerOK
<1>6. ASSUME UNCHANGED server, actions' = actions \/ Act, troubles' = troubles \/ Trouble
      PROVE  ServerOK'
  <2>1. actions' \in 0 .. MaxActions /\ actions <= actions' /\ troubles' \in 0 .. MaxTroubles
    BY <1>6, <1>b, <1>i, <1>n DEF ServerOK
  <2> QED BY <1>6, <1>i, <1>n, <2>1 DEF ServerOK, server
<1>7. ASSUME NEW q \in Purchase, Buy(q) \/ End(q) \/ onPurchases(q)
                                 \/ \E b \in BOOLEAN : applyServerExpiry(q, b)
      PROVE  ServerOK'
  BY <1>6, <1>7 DEF Buy, End, onPurchases, applyServerExpiry, bounds
<1>8. CASE \/ syncServerLicenses \/ queryPastPurchases \/ Written \/ upsertLive
           \/ retainGooglePlayPurchaseTokens
           \/ (\E granted \in BOOLEAN : reconcileServerGrant(granted))
           \/ saveInBackground \/ Start \/ Pause \/ Resume \/ Kill \/ UNCHANGED vars
  BY <1>6, <1>8
  DEF syncServerLicenses, queryPastPurchases, Written, upsertLive,
      retainGooglePlayPurchaseTokens, reconcileServerGrant, saveInBackground,
      Start, Pause, Resume, Kill, vars, bounds
<1> QED BY <1>1, <1>2, <1>3, <1>4, <1>5, <1>7, <1>8 DEF Next, MainStep

LEMMA CounterFacts ==
  ASSUME NEW S, NEW f \in [S -> Nat], NEW x \in S, NEW n \in Nat
  PROVE  /\ [f EXCEPT ![x] = n] \in [S -> Nat]
         /\ [f EXCEPT ![x] = n][x] = n
         /\ \A y \in S \ {x} : [f EXCEPT ![x] = n][y] = f[y]
OBVIOUS

\* One question more or one answer fewer.
LEMMA CountsOK ==
  ASSUME NEW t \in Nat, NEW f \in Nat, t + f <= MaxSyncs
  PROVE  /\ \A l \in Nat : t + f + l < MaxSyncs =>
              /\ t + 1 \in Nat /\ (t + 1) + f <= MaxSyncs
              /\ f + 1 \in Nat /\ t + (f + 1) <= MaxSyncs
         /\ t > 0 => t - 1 \in Nat /\ (t - 1) + f <= MaxSyncs
         /\ f > 0 => f - 1 \in Nat /\ t + (f - 1) <= MaxSyncs
BY BoundAssumption

LEMMA AnswersCounted ==
  ASSUME AnswersOK, NEW n \in Nat
  PROVE  /\ answers' = [answers EXCEPT ![TRUE] = n] /\ n + answers[FALSE] <= MaxSyncs
              => AnswersOK'
         /\ answers' = [answers EXCEPT ![FALSE] = n] /\ answers[TRUE] + n <= MaxSyncs
              => AnswersOK'
<1>1. TRUE # FALSE OBVIOUS
<1>2. answers \in [BOOLEAN -> Nat] BY Zenon DEF AnswersOK
<1>3. ASSUME answers' = [answers EXCEPT ![TRUE] = n], n + answers[FALSE] <= MaxSyncs
      PROVE  AnswersOK'
  <2>1. answers' \in [BOOLEAN -> Nat] /\ answers'[TRUE] = n /\ answers'[FALSE] = answers[FALSE]
    BY <1>1, <1>2, <1>3, CounterFacts, Zenon
  <2>2. answers'[TRUE] + answers'[FALSE] <= MaxSyncs BY <1>3, <2>1, Zenon
  <2> QED BY <2>1, <2>2, Zenon DEF AnswersOK
<1>4. ASSUME answers' = [answers EXCEPT ![FALSE] = n], answers[TRUE] + n <= MaxSyncs
      PROVE  AnswersOK'
  <2>1. answers' \in [BOOLEAN -> Nat] /\ answers'[FALSE] = n /\ answers'[TRUE] = answers[TRUE]
    BY <1>1, <1>2, <1>4, CounterFacts, Zenon
  <2>2. answers'[TRUE] + answers'[FALSE] <= MaxSyncs BY <1>4, <2>1, Zenon
  <2> QED BY <2>1, <2>2, Zenon DEF AnswersOK
<1> QED BY <1>3, <1>4, Zenon

LEMMA AnswersStep == Inv /\ [Next]_vars => AnswersOK'
<1> SUFFICES ASSUME Inv, [Next]_vars PROVE AnswersOK' OBVIOUS
<1>i. AnswersOK BY Zenon DEF Inv
<1>n. /\ answers[TRUE] \in Nat /\ answers[FALSE] \in Nat
      /\ answers[TRUE] + answers[FALSE] <= MaxSyncs
  BY <1>i, Zenon DEF AnswersOK
<1>0. ASSUME answers' = answers PROVE AnswersOK' BY <1>0, <1>i, Zenon DEF AnswersOK
<1>1. CASE syncServerLicenses
  <2>1. /\ answers[TRUE] + answers[FALSE] + Len(writes) < MaxSyncs
        /\ answers' = [answers EXCEPT ![grant] = answers[grant] + 1]
    BY <1>1, Zenon DEF syncServerLicenses
  <2>2. grant \in BOOLEAN BY Zenon DEF Inv, ServerOK
  <2>3. Len(writes) \in Nat BY DEF Inv, ListsOK
  <2>4. CASE grant = TRUE
    <3>1. answers[TRUE] + 1 \in Nat /\ (answers[TRUE] + 1) + answers[FALSE] <= MaxSyncs
      BY <1>n, <2>1, <2>3, CountsOK, Zenon
    <3> QED BY <1>i, <2>1, <2>4, <3>1, AnswersCounted, Zenon
  <2>5. CASE grant = FALSE
    <3>1. answers[FALSE] + 1 \in Nat /\ answers[TRUE] + (answers[FALSE] + 1) <= MaxSyncs
      BY <1>n, <2>1, <2>3, CountsOK, Zenon
    <3> QED BY <1>i, <2>1, <2>5, <3>1, AnswersCounted, Zenon
  <2> QED BY <2>2, <2>4, <2>5, Zenon
<1>2. ASSUME NEW granted \in BOOLEAN, reconcileServerGrant(granted) PROVE AnswersOK'
  <2>1. answers[granted] > 0 /\ answers' = [answers EXCEPT ![granted] = answers[granted] - 1]
    BY <1>2, Zenon DEF reconcileServerGrant
  <2>2. CASE granted = TRUE
    <3>1. answers[TRUE] - 1 \in Nat /\ (answers[TRUE] - 1) + answers[FALSE] <= MaxSyncs
      BY <1>n, <2>1, <2>2, CountsOK, Zenon
    <3> QED BY <1>i, <2>1, <2>2, <3>1, AnswersCounted, Zenon
  <2>3. CASE granted = FALSE
    <3>1. answers[FALSE] - 1 \in Nat /\ answers[TRUE] + (answers[FALSE] - 1) <= MaxSyncs
      BY <1>n, <2>1, <2>3, CountsOK, Zenon
    <3> QED BY <1>i, <2>1, <2>3, <3>1, AnswersCounted, Zenon
  <2> QED BY <2>2, <2>3, Zenon
<1>3. CASE Kill
  <2>1. answers' = [b \in BOOLEAN |-> 0] BY <1>3 DEF Kill
  <2>2. answers'[TRUE] = 0 /\ answers'[FALSE] = 0 /\ answers' \in [BOOLEAN -> Nat] BY <2>1
  <2> QED BY <2>2, BoundAssumption DEF AnswersOK
<1>4. ASSUME NEW q, Buy(q) \/ End(q) \/ onPurchases(q)
                    \/ \E b \in BOOLEAN : applyServerExpiry(q, b)
      PROVE  AnswersOK'
  BY <1>0, <1>4 DEF Buy, End, onPurchases, applyServerExpiry, main
<1>5. ASSUME NEW c, LosePush(c) \/ applyLicensePush(c) \/ loadInBackground(c)
      PROVE  AnswersOK'
  BY <1>0, <1>5 DEF LosePush, applyLicensePush, loadInBackground, main
<1>6. CASE \/ SetFreeLicense \/ SendGrant \/ SendRevoke \/ ClearFreeLicense
           \/ queryPastPurchases \/ Written \/ upsertLive \/ retainGooglePlayPurchaseTokens
           \/ saveInBackground \/ Start \/ Pause \/ Resume \/ UNCHANGED vars
  BY <1>0, <1>6
  DEF SetFreeLicense, SendGrant, SendRevoke, ClearFreeLicense, queryPastPurchases, Written,
      upsertLive, retainGooglePlayPurchaseTokens, saveInBackground, Start, Pause, Resume,
      vars, main
<1> QED BY <1>1, <1>2, <1>3, <1>4, <1>5, <1>6 DEF Next, MainStep

\* The lists that a step writes are lists of receipts.
LEMMA SavedOK ==
  ASSUME ListsOK, NEW list \in SUBSET Receipt, NEW adds \in SUBSET Purchase,
         NEW b \in BOOLEAN, saveAll([list |-> list, adds |-> adds, query |-> b])
  PROVE  writes' \in Seq(Write)
BY WriteOK, AppendFacts DEF ListsOK

LEMMA UpsertOK ==
  ASSUME ListsOK, NEW q \in Purchase, NEW b \in BOOLEAN
  PROVE  /\ [list |-> Cached \cup {q}, adds |-> {q}, query |-> b] \in Write
         /\ upsert(q, b) => writes' \in Seq(Write)
         /\ upsertReceipt(q, b) =>
              writes' \in Seq(Write) /\ uploads' \subseteq Purchase \X BOOLEAN
<1>1. Cached \cup {q} \in SUBSET Receipt BY CachedOK DEF Receipt
<1>2. [list |-> Cached \cup {q}, adds |-> {q}, query |-> b] \in Write BY <1>1, WriteOK
<1>3. upsert(q, b) => writes' \in Seq(Write) BY <1>2, AppendFacts DEF upsert, ListsOK
<1> QED BY <1>2, <1>3 DEF upsertReceipt, ListsOK

LEMMA ListsStep == Inv /\ [Next]_vars => ListsOK'
<1> SUFFICES ASSUME Inv, [Next]_vars PROVE ListsOK' OBVIOUS
<1>i. ListsOK BY DEF Inv
<1>1. CASE \/ SetFreeLicense \/ SendGrant \/ SendRevoke \/ ClearFreeLicense
           \/ syncServerLicenses \/ queryPastPurchases \/ UNCHANGED vars
  BY <1>1, <1>i
  DEF SetFreeLicense, SendGrant, SendRevoke, ClearFreeLicense, syncServerLicenses,
      queryPastPurchases, vars, main, ListsOK
<1>2. ASSUME NEW c \in Change, LosePush(c) PROVE ListsOK'
  BY <1>2, <1>i DEF LosePush, main, ListsOK
<1>3. ASSUME NEW c \in Change, applyLicensePush(c) PROVE ListsOK'
  <2>1. writes' \in Seq(Write)
    BY <1>3, <1>i, ReconciledOK, SavedOK DEF applyLicensePush, replaceReceipts, ListsOK
  <2> QED BY <1>3, <1>i, <2>1 DEF applyLicensePush, ListsOK
<1>4. ASSUME NEW granted \in BOOLEAN, reconcileServerGrant(granted) PROVE ListsOK'
  <2>1. writes' \in Seq(Write)
    BY <1>4, <1>i, ReconciledOK, SavedOK DEF reconcileServerGrant, replaceReceipts, ListsOK
  <2> QED BY <1>4, <1>i, <2>1 DEF reconcileServerGrant, ListsOK
<1>5. ASSUME NEW c \in Change, loadInBackground(c) PROVE ListsOK'
  <2>1. background' \in Isolate BY <1>5, <1>i DEF loadInBackground, Isolate, ListsOK
  <2> QED BY <1>5, <1>i, <2>1 DEF loadInBackground, main, ListsOK
<1>6. CASE saveInBackground
  <2>1. background.copy \in SUBSET Receipt BY <1>i DEF ListsOK, Isolate
  <2>2. disk' \subseteq Receipt BY <1>6, <2>1, ReconciledOK DEF saveInBackground
  <2>3. background' \in Isolate BY <1>6, <1>i, <2>2 DEF saveInBackground, Isolate, ListsOK
  <2> QED BY <1>6, <1>i, <2>2, <2>3 DEF saveInBackground, main, ListsOK
<1>7. CASE Written
  <2>1. writes' \in Seq(Write) /\ Head(writes) \in Write
    BY <1>7, <1>i, TailFacts DEF Written, ListsOK
  <2>2. Head(writes).list \subseteq Receipt BY <2>1 DEF Write
  <2> QED BY <1>7, <1>i, <2>1, <2>2 DEF Written, ListsOK
<1>8. ASSUME NEW q \in Purchase, Buy(q) \/ End(q) PROVE ListsOK'
  BY <1>8, <1>i DEF Buy, End, main, ListsOK
<1>9. ASSUME NEW q \in Purchase, onPurchases(q) PROVE ListsOK'
  <2>1. writes' \in Seq(Write) /\ uploads' \subseteq Purchase \X BOOLEAN
    BY <1>9, <1>i, UpsertOK DEF onPurchases
  <2> QED BY <1>9, <1>i, <2>1 DEF onPurchases, ListsOK
<1>10. ASSUME NEW q \in Purchase, NEW b \in BOOLEAN, applyServerExpiry(q, b) PROVE ListsOK'
  <2>1. writes' \in Seq(Write) BY <1>10, <1>i, UpsertOK DEF applyServerExpiry, ListsOK
  <2> QED BY <1>10, <1>i, <2>1 DEF applyServerExpiry, ListsOK
<1>11. CASE upsertLive
  <2>1. query.left \subseteq Purchase BY DEF Inv, QueryOK, Query
  <2>2. writes' \in Seq(Write) /\ uploads' \subseteq Purchase \X BOOLEAN
    BY <1>11, <1>i, <2>1, UpsertOK DEF upsertLive, ListsOK
  <2> QED BY <1>11, <1>i, <2>2 DEF upsertLive, ListsOK
<1>12. CASE retainGooglePlayPurchaseTokens
  <2>1. writes' \in Seq(Write)
    BY <1>12, <1>i, ReconciledOK, SavedOK
    DEF retainGooglePlayPurchaseTokens, replaceReceipts, ListsOK
  <2> QED BY <1>12, <1>i, <2>1 DEF retainGooglePlayPurchaseTokens, ListsOK
<1>13. CASE Start \/ Pause \/ Resume
  BY <1>13, <1>i DEF Start, Pause, Resume, main, ListsOK
<1>14. CASE Kill
  <2>1. <<>> \in Seq(Write) /\ NoIsolate \in Isolate BY DEF NoIsolate, Isolate
  <2> QED BY <1>14, <1>i, <2>1 DEF Kill, ListsOK
<1> QED BY <1>1, <1>2, <1>3, <1>4, <1>5, <1>6, <1>7, <1>8, <1>9, <1>10, <1>11, <1>12, <1>13,
           <1>14
        DEF Next, MainStep

LEMMA QueryStep == Inv /\ [Next]_vars => QueryOK'
<1> SUFFICES ASSUME Inv, [Next]_vars PROVE QueryOK' OBVIOUS
<1>i. QueryOK BY DEF Inv
<1>0. ASSUME query' = query PROVE QueryOK' BY <1>0, <1>i DEF QueryOK
<1>n. ASSUME query' = NoQuery PROVE QueryOK' BY <1>n DEF QueryOK, Query, NoQuery
<1>1. CASE queryPastPurchases
  <2>1. play \subseteq Purchase BY DEF Inv, ListsOK
  <2> QED BY <1>1, <2>1 DEF queryPastPurchases, QueryOK, Query
<1>2. CASE upsertLive
  BY <1>2, <1>i DEF upsertLive, QueryOK, Query
<1>3. CASE retainGooglePlayPurchaseTokens \/ Kill
  BY <1>n, <1>3 DEF retainGooglePlayPurchaseTokens, Kill
<1>4. ASSUME NEW c, LosePush(c) \/ applyLicensePush(c) \/ loadInBackground(c)
      PROVE  QueryOK'
  BY <1>0, <1>4 DEF LosePush, applyLicensePush, loadInBackground, main
<1>5. ASSUME NEW q, \/ Buy(q) \/ End(q) \/ onPurchases(q) \/ reconcileServerGrant(q)
                    \/ \E b \in BOOLEAN : applyServerExpiry(q, b)
      PROVE  QueryOK'
  BY <1>0, <1>5 DEF Buy, End, onPurchases, reconcileServerGrant, applyServerExpiry, main
<1>6. CASE \/ SetFreeLicense \/ SendGrant \/ SendRevoke \/ ClearFreeLicense
           \/ syncServerLicenses \/ Written \/ saveInBackground
           \/ Start \/ Pause \/ Resume \/ UNCHANGED vars
  BY <1>0, <1>6
  DEF SetFreeLicense, SendGrant, SendRevoke, ClearFreeLicense, syncServerLicenses, Written,
      saveInBackground, Start, Pause, Resume, vars, main
<1> QED BY <1>1, <1>2, <1>3, <1>4, <1>5, <1>6 DEF Next, MainStep

LEMMA WaitsStep == Inv /\ [Next]_vars => QueryWaits'
<1> SUFFICES ASSUME Inv, [Next]_vars PROVE QueryWaits' OBVIOUS
<1>i. QueryWaits /\ ListsOK BY DEF Inv
<1>0. ASSUME UNCHANGED <<writes, uploads, query>> PROVE QueryWaits' BY <1>0, <1>i, QueryQuiet
<1>r. ASSUME NEW list \in SUBSET Receipt, replaceReceipts(list, FALSE),
             UNCHANGED <<uploads, query>>
      PROVE  QueryWaits'
  <2> DEFINE w == [list |-> list, adds |-> {}, query |-> FALSE]
  <2>1. w \in Write /\ ~w.query BY WriteOK
  <2>2. saveAll(w) BY <1>r DEF replaceReceipts
  <2> HIDE DEF w
  <2> DEFINE u == {}
  <2>3. \A v \in u : ~v[2] OBVIOUS
  <2>4. uploads' \subseteq uploads \cup u BY <1>r
  <2> HIDE DEF u
  <2> QED BY <1>i, <1>r, <2>1, <2>2, <2>3, <2>4, OtherWrite
<1>1. ASSUME NEW c \in Change, applyLicensePush(c) PROVE QueryWaits'
  BY <1>1, <1>r, <1>i, ReconciledOK DEF applyLicensePush, ListsOK
<1>2. ASSUME NEW granted \in BOOLEAN, reconcileServerGrant(granted) PROVE QueryWaits'
  BY <1>2, <1>r, <1>i, ReconciledOK DEF reconcileServerGrant, ListsOK
<1>3. CASE Written
  <2>1. \A i \in DOMAIN writes' : i \in Int /\ i + 1 \in DOMAIN writes
                                  /\ writes'[i] = writes[i + 1]
    BY <1>3, <1>i, TailFacts DEF Written, ListsOK
  <2>2. UNCHANGED <<query, uploads>> BY <1>3 DEF Written
  <2>3. Queried' => Queried BY <2>1 DEF Queried
  <2>4. OneWrite'
    <3> SUFFICES ASSUME NEW i \in DOMAIN writes', NEW j \in DOMAIN writes',
                        writes'[i].query, writes'[j].query
                 PROVE  i = j
      BY DEF OneWrite
    <3>1. i + 1 = j + 1 BY <1>i, <2>1 DEF QueryWaits, OneWrite
    <3> QED BY <2>1, <3>1
  <2>5. \A i \in DOMAIN writes', u \in uploads' :
          writes'[i].query /\ u[2] => u[1] \in writes'[i].adds
    BY <1>i, <2>1, <2>2 DEF QueryWaits
  <2> QED BY <1>i, <2>2, <2>3, <2>4, <2>5 DEF QueryWaits, OneUpload
<1>4. ASSUME NEW q \in Purchase, onPurchases(q) PROVE QueryWaits'
  <2> DEFINE w == [list |-> Cached \cup {q}, adds |-> {q}, query |-> FALSE]
             u == {<<q, FALSE>>}
  <2>1. w \in Write /\ ~w.query BY <1>i, UpsertOK
  <2>2. saveAll(w) /\ uploads' \subseteq uploads \cup u /\ query' = query
    BY <1>4 DEF onPurchases, upsertReceipt, upsert
  <2>3. \A v \in u : ~v[2]
    <3>1. <<q, FALSE>>[2] = FALSE OBVIOUS
    <3> QED BY <3>1, Zenon
  <2> HIDE DEF w, u
  <2> QED BY <1>i, <2>1, <2>2, <2>3, OtherWrite
<1>5. ASSUME NEW q \in Purchase, NEW b \in BOOLEAN, applyServerExpiry(q, b) PROVE QueryWaits'
  <2> DEFINE w == [list |-> Cached \cup {q}, adds |-> {q}, query |-> b]
  <2>1. /\ <<q, b>> \in uploads /\ ~Adding(q, b) /\ uploads' = uploads \ {<<q, b>>}
        /\ query' = query /\ (writes' = writes \/ saveAll(w))
    BY <1>5 DEF applyServerExpiry, upsert
  <2>2. w \in Write /\ w.query = b BY <1>i, UpsertOK
  <2> HIDE DEF w
  <2>3. CASE writes' = writes BY <1>i, <2>1, <2>3, QueryQuiet
  <2>4. CASE saveAll(w) /\ b = FALSE
    <3> DEFINE u == {}
    <3>1. \A v \in u : ~v[2] OBVIOUS
    <3>2. uploads' \subseteq uploads \cup u BY <2>1
    <3> HIDE DEF u
    <3> QED BY <1>i, <2>1, <2>2, <2>4, <3>1, <3>2, OtherWrite
  <2>5. CASE saveAll(w) /\ b = TRUE
    <3>1. <<q, TRUE>> \in uploads BY <2>1, <2>5
    <3>2. ~Queried
      <4> SUFFICES ASSUME NEW i \in DOMAIN writes, writes[i].query PROVE FALSE BY DEF Queried
      <4>1. q \in writes[i].adds BY <1>i, <3>1 DEF QueryWaits
      <4>2. writes[i] \in Write BY <1>i DEF ListsOK
      <4>3. writes[i].query = TRUE BY <4>2 DEF Write
      <4> QED BY <2>1, <2>5, <4>1, <4>3 DEF Adding
    <3>3. \A v \in uploads' : ~v[2] BY <1>i, <2>1, <2>5, <3>1 DEF QueryWaits, OneUpload
    <3>4. query.doing = "upsert" BY <1>i, <3>1 DEF QueryWaits
    <3>5. OneUpload' BY <3>3 DEF OneUpload
    <3> QED BY <1>i, <2>1, <2>2, <2>5, <3>2, <3>3, <3>4, <3>5, QueryWrite
  <2> QED BY <2>1, <2>3, <2>4, <2>5
<1>6. CASE upsertLive
  <2>1. query.doing = "upsert" /\ ~Queried /\ \A u \in uploads : ~u[2]
    BY <1>6 DEF upsertLive
  <2>2. query \in Query BY DEF Inv, QueryOK
  <2>3. CASE query' = [query EXCEPT !.doing = "retain"] /\ UNCHANGED <<writes, uploads>>
    BY <1>i, <2>1, <2>3 DEF QueryWaits, OneWrite, OneUpload, Queried
  <2>4. ASSUME NEW q \in query.left, query' = [query EXCEPT !.left = @ \ {q}],
               upsertReceipt(q, TRUE)
        PROVE  QueryWaits'
    <3> DEFINE w == [list |-> Cached \cup {q}, adds |-> {q}, query |-> TRUE]
    <3>1. q \in Purchase BY <2>2 DEF Query
    <3>2. w \in Write /\ w.query = TRUE /\ w.adds = {q} BY <1>i, <3>1, UpsertOK
    <3>3. saveAll(w) /\ uploads' = uploads \cup {<<q, TRUE>>}
      BY <2>4 DEF upsertReceipt, upsert
    <3> HIDE DEF w
    <3>4. query'.doing = "upsert" BY <2>1, <2>2, <2>4 DEF Query
    <3>5. \A v \in uploads' : v[2] => v = <<q, TRUE>> BY <2>1, <3>3
    <3>6. OneUpload' BY <3>5 DEF OneUpload
    <3>7. \A v \in uploads' : v[2] => v[1] \in w.adds
      <4>1. <<q, TRUE>>[1] = q OBVIOUS
      <4> QED BY <3>2, <3>5, <4>1, Zenon
    <3> QED BY <1>i, <2>1, <3>2, <3>3, <3>4, <3>6, <3>7, QueryWrite
  <2> QED BY <1>6, <2>3, <2>4 DEF upsertLive
<1>7. CASE retainGooglePlayPurchaseTokens
  <2> DEFINE list == reconcileGooglePlayReceipts(memory, query.live)
             w == [list |-> list, adds |-> {}, query |-> TRUE]
  <2>1. ~Queried /\ \A u \in uploads : ~u[2]
    BY <1>7, <1>i DEF retainGooglePlayPurchaseTokens, QueryWaits
  <2>2. query'.doing = "none" /\ uploads' = uploads
    BY <1>7 DEF retainGooglePlayPurchaseTokens, NoQuery
  <2>3. w \in Write /\ w.query = TRUE BY <1>i, ReconciledOK, WriteOK DEF ListsOK
  <2>4. writes' = writes \/ saveAll(w)
    BY <1>7 DEF retainGooglePlayPurchaseTokens, replaceReceipts
  <2> HIDE DEF w
  <2>5. CASE writes' = writes
    BY <1>i, <2>1, <2>2, <2>5 DEF QueryWaits, OneWrite, OneUpload, Queried
  <2>6. CASE saveAll(w)
    BY <1>i, <2>1, <2>2, <2>3, <2>6, QueryWrite DEF OneUpload
  <2> QED BY <2>4, <2>5, <2>6
<1>8. CASE queryPastPurchases
  <2>1. UNCHANGED <<writes, uploads>> /\ query'.doing = "upsert"
    BY <1>8 DEF queryPastPurchases
  <2> QED BY <1>i, <2>1, QueryQuiet
<1>9. CASE Start
  <2>1. /\ \A u \in uploads' : ~u[2]
        /\ writes = <<>> /\ writes' = writes /\ query' = query
    BY <1>9 DEF Start, Inv, DeadIsDead
  <2>2. DOMAIN writes' = {} BY <2>1
  <2> QED BY <2>1, <2>2 DEF QueryWaits, OneWrite, OneUpload, Queried
<1>10. CASE Kill
  <2>1. uploads' = {} /\ DOMAIN writes' = {} BY <1>10 DEF Kill
  <2> QED BY <2>1 DEF QueryWaits, OneWrite, OneUpload, Queried
<1>11. ASSUME NEW c, LosePush(c) \/ loadInBackground(c) \/ Buy(c) \/ End(c) PROVE QueryWaits'
  BY <1>0, <1>11 DEF LosePush, loadInBackground, Buy, End, main
<1>12. CASE \/ SetFreeLicense \/ SendGrant \/ SendRevoke \/ ClearFreeLicense
            \/ syncServerLicenses \/ saveInBackground \/ Pause \/ Resume \/ UNCHANGED vars
  BY <1>0, <1>12
  DEF SetFreeLicense, SendGrant, SendRevoke, ClearFreeLicense, syncServerLicenses,
      saveInBackground, Pause, Resume, vars, main
<1> QED BY <1>1, <1>2, <1>3, <1>4, <1>5, <1>6, <1>7, <1>8, <1>9, <1>10, <1>11, <1>12
        DEF Next, MainStep

LEMMA DeadStep == Inv /\ [Next]_vars => DeadIsDead'
<1> SUFFICES ASSUME Inv, [Next]_vars, app' = "dead" PROVE DeadIsDead' BY DEF DeadIsDead
<1>1. CASE Kill
  BY <1>1 DEF Kill, DeadIsDead
<1>2. CASE app = "dead"
  <2>1. /\ writes = <<>> /\ query.doing = "none" /\ stream = {} /\ uploads = {}
        /\ \A b \in BOOLEAN : ~(answers[b] > 0)
    BY <1>2 DEF Inv, DeadIsDead, NoQuery
  <2>2. ASSUME UNCHANGED <<writes, query, stream, uploads, answers>> PROVE DeadIsDead'
    BY <1>2, <2>2 DEF Inv, DeadIsDead
  <2>3. ~(\/ Written \/ upsertLive \/ retainGooglePlayPurchaseTokens
          \/ syncServerLicenses \/ queryPastPurchases \/ Start
          \/ \E c \in Change : applyLicensePush(c)
          \/ \E b \in BOOLEAN : reconcileServerGrant(b)
          \/ \E q \in Purchase : onPurchases(q) \/ \E b \in BOOLEAN : applyServerExpiry(q, b))
    BY <1>2, <2>1
    DEF Written, upsertLive, retainGooglePlayPurchaseTokens, syncServerLicenses,
        queryPastPurchases, Start, applyLicensePush, reconcileServerGrant, onPurchases,
        applyServerExpiry
  <2>4. ASSUME NEW c, LosePush(c) \/ loadInBackground(c) \/ Buy(c) \/ End(c)
        PROVE  DeadIsDead'
    BY <1>2, <2>2, <2>4 DEF LosePush, loadInBackground, Buy, End, main
  <2>5. CASE \/ SetFreeLicense \/ SendGrant \/ SendRevoke \/ ClearFreeLicense
             \/ saveInBackground \/ Pause \/ Resume \/ UNCHANGED vars
    BY <2>2, <2>5
    DEF SetFreeLicense, SendGrant, SendRevoke, ClearFreeLicense, saveInBackground,
        Pause, Resume, vars, main
  <2> QED BY <1>1, <2>3, <2>4, <2>5 DEF Next, MainStep
<1>3. ASSUME app # "dead", ~Kill PROVE FALSE
  BY <1>3
  DEF Next, MainStep, SetFreeLicense, SendGrant, SendRevoke, ClearFreeLicense, LosePush,
      applyLicensePush, loadInBackground, Buy, End, syncServerLicenses, queryPastPurchases,
      Written, upsertLive, retainGooglePlayPurchaseTokens, reconcileServerGrant, onPurchases,
      applyServerExpiry, saveInBackground, Start, Pause, Resume, vars
<1> QED BY <1>1, <1>2, <1>3

LEMMA InvTypes == Inv => TypeOK
<1> SUFFICES ASSUME Inv PROVE TypeOK OBVIOUS
<1>1. /\ pushes \in [Change -> 0 .. MaxActions]
      /\ grant \in BOOLEAN /\ operator \in {"idle", "grant", "clear"}
      /\ actions \in 0 .. MaxActions /\ troubles \in 0 .. MaxTroubles
  <2>1. "grant" \in Change /\ "revoke" \in Change /\ ServerOK BY DEF Inv, Change
  <2>2. pushes["grant"] \in Nat /\ pushes["revoke"] \in Nat /\ actions \in Nat
        /\ actions <= MaxActions
    BY <2>1 DEF ServerOK
  <2>3. pushes["grant"] + pushes["revoke"] <= actions BY <2>1, <2>2 DEF ServerOK
  <2>4. pushes["grant"] \in 0 .. MaxActions /\ pushes["revoke"] \in 0 .. MaxActions
    BY <2>2, <2>3, BoundAssumption
  <2>5. \A c \in Change : pushes[c] \in 0 .. MaxActions BY <2>4 DEF Change
  <2> QED BY <2>1, <2>5 DEF ServerOK
<1>2. answers \in [BOOLEAN -> 0 .. MaxSyncs]
  <2>1. answers \in [BOOLEAN -> Nat] /\ answers[TRUE] + answers[FALSE] <= MaxSyncs
    BY Zenon DEF Inv, AnswersOK
  <2>2. \A t, f \in Nat : t + f <= MaxSyncs => t \in 0 .. MaxSyncs /\ f \in 0 .. MaxSyncs
    BY BoundAssumption
  <2>3. answers[TRUE] \in 0 .. MaxSyncs /\ answers[FALSE] \in 0 .. MaxSyncs
    BY <2>1, <2>2, Zenon
  <2>4. \A b \in BOOLEAN : answers[b] \in 0 .. MaxSyncs BY <2>3, Zenon
  <2> QED BY <2>1, <2>4, Zenon
<1>3. writes \in Seq([list : SUBSET Receipt, adds : SUBSET Purchase, query : BOOLEAN])
  BY DEF Inv, ListsOK, Write
<1>4. \A i, j \in DOMAIN writes : writes[i].query /\ writes[j].query => i = j
  BY DEF Inv, QueryWaits, OneWrite
<1>5. \A u, v \in uploads : u[2] /\ v[2] => u = v BY DEF Inv, QueryWaits, OneUpload
<1>6. app = "dead" => writes = <<>> /\ query = NoQuery /\ stream = {} /\ uploads = {}
  BY DEF Inv, DeadIsDead
<1>7. /\ query \in [doing : {"none", "upsert", "retain"},
                    live : SUBSET Purchase, left : SUBSET Purchase]
      /\ query.left \subseteq query.live
  BY DEF Inv, QueryOK, Query
<1>8. /\ play \subseteq Purchase /\ app \in {"dead", "paused", "resumed"}
      /\ memory \subseteq Receipt /\ disk \subseteq Receipt
      /\ stream \subseteq Purchase /\ uploads \subseteq Purchase \X BOOLEAN
      /\ background \in [loaded : BOOLEAN, copy : SUBSET Receipt,
                         change : Change \cup {"none"}]
  BY DEF Inv, ListsOK, Isolate
<1> QED BY <1>1, <1>2, <1>3, <1>4, <1>5, <1>6, <1>7, <1>8, Zenon DEF TypeOK

\* The variables of the receipts keep their types: messages and answers stay
\* within their bounds, the query is never more than a list and an upload
\* ahead, and nothing of a stopped app goes on.
THEOREM TypeCorrect == Spec => []TypeOK
<1>1. Inv /\ [Next]_vars => Inv'
  BY ServerStep, ListsStep, AnswersStep, QueryStep, WaitsStep, DeadStep DEF Inv
<1> QED BY <1>1, InvInit, InvTypes, PTL DEF Spec
================================================================================
