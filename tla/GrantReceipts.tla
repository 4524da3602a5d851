----------------------------- MODULE GrantReceipts -----------------------------
(***************************************************************************)
(* The receipts an installation keeps: the operator's free licence         *)
(* (server_grant) and the user's Google Play purchases, in one list of the *)
(* preferences (mobile/lib/entitlement).                                   *)
(*                                                                         *)
(* The app's main isolate reads the preferences once, writes lists it has  *)
(* computed from memory or from its copy, and replaces its memory once the *)
(* platform has written the list.  FCM messages that arrive while the app  *)
(* is not in front are applied by a second isolate, on a copy of its own.  *)
(***************************************************************************)
EXTENDS Naturals, Sequences, SequencesExt

CONSTANTS
  Purchase,    \* Google Play purchase tokens
  Grant,       \* the receipt of the free licence
  \* bounds: reconciliations under way at once, what the operator and the user
  \* do, and what goes wrong
  MaxSyncs, MaxActions, MaxTroubles

ASSUME GrantAssumption == Grant \notin Purchase
ASSUME BoundAssumption ==
  MaxSyncs \in Nat \ {0} /\ MaxActions \in Nat /\ MaxTroubles \in Nat

VARIABLES
  grant,       \* installations.free_user_name is set, on the server
  operator,    \* what the server does with an operator's request
  pushes,      \* FCM messages under way, by their action
  play,        \* the subscriptions Google Play returns
  app,         \* AppLifecycleState, or "dead"
  memory,      \* _receipts
  writes,      \* lists the platform has still to write, in order
  answers,     \* answers of listLicenses under way: how many of each
  query,       \* the Play query in flight
  stream,      \* purchases of the purchase stream nobody has handled yet
  uploads,     \* <<purchase, by the query>>: tokens being uploaded
  disk,        \* the preferences on disk
  background,  \* the background isolate
  actions, troubles

server == <<grant, operator, pushes>>
main == <<memory, writes, answers, query, stream, uploads>>
bounds == <<actions, troubles>>
vars == <<server, play, app, main, disk, background, bounds>>

Receipt == Purchase \cup {Grant}
Change == {"grant", "revoke"}

\* doing: what comes next; live: the purchases Play has answered; left: those
\* not yet upserted.
NoQuery == [doing |-> "none", live |-> {}, left |-> {}]

\* loaded: the isolate has read the preferences; copy: what it has read or
\* written since; change: the message it is applying.
NoIsolate == [loaded |-> FALSE, copy |-> {}, change |-> "none"]

\* The query waits for what it has under way, and so does the next one.
Queried == \E i \in DOMAIN writes : writes[i].query

\* A receipt is written before its token is uploaded.
Adding(q, byQuery) ==
  \E i \in DOMAIN writes : q \in writes[i].adds /\ writes[i].query = byQuery

TypeOK ==
  /\ grant \in BOOLEAN /\ operator \in {"idle", "grant", "clear"}
  /\ pushes \in [Change -> 0 .. MaxActions]
  /\ play \subseteq Purchase
  /\ app \in {"dead", "paused", "resumed"}
  /\ memory \subseteq Receipt /\ disk \subseteq Receipt
  /\ writes \in Seq([list : SUBSET Receipt, adds : SUBSET Purchase, query : BOOLEAN])
  /\ \A i, j \in DOMAIN writes : writes[i].query /\ writes[j].query => i = j
  /\ answers \in [BOOLEAN -> 0 .. MaxSyncs]
  /\ query \in [doing : {"none", "upsert", "retain"},
                live : SUBSET Purchase, left : SUBSET Purchase]
  /\ query.left \subseteq query.live
  /\ stream \subseteq Purchase /\ uploads \subseteq Purchase \X BOOLEAN
  /\ \A u, v \in uploads : u[2] /\ v[2] => u = v
  /\ background \in [loaded : BOOLEAN, copy : SUBSET Receipt,
                     change : Change \cup {"none"}]
  /\ app = "dead" => writes = <<>> /\ query = NoQuery /\ stream = {} /\ uploads = {}
  /\ actions \in 0 .. MaxActions /\ troubles \in 0 .. MaxTroubles

\* An installed app that was never opened.
Init ==
  /\ grant = FALSE /\ operator = "idle" /\ pushes = [c \in Change |-> 0]
  /\ play = {} /\ app = "dead"
  /\ memory = {} /\ writes = <<>> /\ answers = [b \in BOOLEAN |-> 0]
  /\ query = NoQuery /\ stream = {} /\ uploads = {}
  /\ disk = {} /\ background = NoIsolate
  /\ actions = 0 /\ troubles = 0

Act == actions < MaxActions /\ actions' = actions + 1
Trouble == troubles < MaxTroubles /\ troubles' = troubles + 1

------------------------------------------------------------------------------
(* The entitlement server, and FCM, which neither orders nor keeps messages. *)

Announce(change) == pushes' = [pushes EXCEPT ![change] = @ + 1]

SetFreeLicense ==
  /\ operator = "idle" /\ ~grant
  /\ Act
  /\ grant' = TRUE /\ operator' = "grant"
  /\ UNCHANGED <<pushes, play, app, main, disk, background, troubles>>

\* A call that fails undoes the grant, even when FCM has taken the message.
SendGrant ==
  /\ operator = "grant"
  /\ operator' = "idle"
  /\ \/ Announce("grant") /\ UNCHANGED <<grant, troubles>>
     \/ /\ Trouble
        /\ grant' = FALSE
        /\ Announce("grant") \/ UNCHANGED pushes
  /\ UNCHANGED <<play, app, main, disk, background, actions>>

\* The revocation is announced first; the grant is cleared when FCM takes it.
SendRevoke ==
  /\ operator = "idle" /\ grant
  /\ Act
  /\ operator' = "clear"
  /\ Announce("revoke")
  /\ UNCHANGED <<grant, play, app, main, disk, background, troubles>>

ClearFreeLicense ==
  /\ operator = "clear"
  /\ grant' = FALSE /\ operator' = "idle"
  /\ UNCHANGED <<pushes, play, app, main, disk, background, bounds>>

LosePush(change) ==
  /\ pushes[change] > 0
  /\ pushes' = [pushes EXCEPT ![change] = @ - 1]
  /\ UNCHANGED <<grant, operator, play, app, main, disk, background, bounds>>

------------------------------------------------------------------------------
(* Lists of receipts. *)

reconcileServerGrantReceipts(local, granted) ==
  (local \ {Grant}) \cup (IF granted THEN {Grant} ELSE {})

\* Mutant: receipts Play no longer returns are kept.
keepGooglePlayReceipts(local, live) == local

reconcileGooglePlayReceipts(local, live) == local \ (Purchase \ live)

\* The main isolate's copy of the preferences: what it wrote last.
Cached == IF writes = <<>> THEN memory ELSE Last(writes).list

saveAll(write) == writes' = Append(writes, write)

\* Mutant: a list the memory already has is not written.
replaceIfChanged(list, byQuery) ==
  IF list = memory THEN UNCHANGED writes
  ELSE saveAll([list |-> list, adds |-> {}, query |-> byQuery])

replaceReceipts(list, byQuery) ==
  saveAll([list |-> list, adds |-> {}, query |-> byQuery])

\* The platform has written a list: memory is replaced.
Written ==
  /\ writes # <<>>
  /\ disk' = Head(writes).list /\ memory' = Head(writes).list
  /\ writes' = Tail(writes)
  /\ UNCHANGED <<server, play, app, answers, query, stream, uploads, background, bounds>>

\* A receipt is added to the copy of the preferences, not to memory.
upsert(q, byQuery) ==
  saveAll([list |-> Cached \cup {q}, adds |-> {q}, query |-> byQuery])

upsertReceipt(q, byQuery) ==
  /\ upsert(q, byQuery)
  /\ uploads' = uploads \cup {<<q, byQuery>>}

------------------------------------------------------------------------------
(* The free licence, in the main isolate. *)

\* On start, on resume, at the Licences screen and at checkpoints.
syncServerLicenses ==
  /\ app = "resumed"
  /\ answers[TRUE] + answers[FALSE] + Len(writes) < MaxSyncs
  /\ answers' = [answers EXCEPT ![grant] = @ + 1]
  /\ UNCHANGED <<server, play, app, memory, writes, query, stream, uploads, disk, background, bounds>>

reconcileServerGrant(granted) ==
  /\ answers[granted] > 0
  /\ answers' = [answers EXCEPT ![granted] = @ - 1]
  /\ replaceReceipts(reconcileServerGrantReceipts(memory, granted), FALSE)
  /\ UNCHANGED <<server, play, app, memory, query, stream, uploads, disk, background, bounds>>

\* Mutant: the message is applied here wherever the app is.
applyAnyPush(change) ==
  /\ pushes[change] > 0
  /\ pushes' = [pushes EXCEPT ![change] = @ - 1]
  /\ replaceReceipts(reconcileServerGrantReceipts(memory, change = "grant"), FALSE)
  /\ UNCHANGED <<grant, operator, play, app, memory, answers, query, stream, uploads, disk, background, bounds>>

applyLicensePush(change) ==
  /\ app = "resumed" /\ pushes[change] > 0
  /\ pushes' = [pushes EXCEPT ![change] = @ - 1]
  /\ replaceReceipts(reconcileServerGrantReceipts(memory, change = "grant"), FALSE)
  /\ UNCHANGED <<grant, operator, play, app, memory, answers, query, stream, uploads, disk, background, bounds>>

------------------------------------------------------------------------------
(* Google Play, in the main isolate. *)

\* The user buys; bought in the app, the purchase comes over the stream.
Buy(q) ==
  /\ q \notin play
  /\ Act
  /\ play' = play \cup {q}
  /\ stream' = IF app = "resumed" THEN stream \cup {q} ELSE stream
  /\ UNCHANGED <<server, app, memory, writes, answers, query, uploads, disk, background, troubles>>

End(q) ==
  /\ q \in play
  /\ Act
  /\ play' = play \ {q}
  /\ UNCHANGED <<server, app, main, disk, background, troubles>>

onPurchases(q) ==
  /\ q \in stream
  /\ stream' = stream \ {q}
  /\ upsertReceipt(q, FALSE)
  /\ UNCHANGED <<server, play, app, memory, answers, query, disk, background, bounds>>

\* One query at a time; a second caller is given the first one's.
queryPastPurchases ==
  /\ app = "resumed" /\ query.doing = "none" /\ ~Queried
  /\ query' = [doing |-> "upsert", live |-> play, left |-> play]
  /\ UNCHANGED <<server, play, app, memory, writes, answers, stream, uploads, disk, background, bounds>>

upsertLive ==
  /\ query.doing = "upsert" /\ ~Queried /\ \A u \in uploads : ~u[2]
  /\ IF query.left = {}
     THEN query' = [query EXCEPT !.doing = "retain"] /\ UNCHANGED <<writes, uploads>>
     ELSE \E q \in query.left :
            /\ query' = [query EXCEPT !.left = @ \ {q}]
            /\ upsertReceipt(q, TRUE)
  /\ UNCHANGED <<server, play, app, memory, answers, stream, disk, background, bounds>>

\* Nothing is written when nothing is dropped.
retainGooglePlayPurchaseTokens ==
  /\ query.doing = "retain"
  /\ query' = NoQuery
  /\ LET next == reconcileGooglePlayReceipts(memory, query.live)
     IN IF next = memory THEN UNCHANGED writes ELSE replaceReceipts(next, TRUE)
  /\ UNCHANGED <<server, play, app, memory, answers, stream, uploads, disk, background, bounds>>

\* The server's answer: the receipt is written once more if its expiry is new.
applyServerExpiry(q, byQuery) ==
  /\ <<q, byQuery>> \in uploads /\ ~Adding(q, byQuery)
  /\ uploads' = uploads \ {<<q, byQuery>>}
  /\ \/ UNCHANGED <<writes, troubles>>
     \/ Trouble /\ upsert(q, byQuery)
  /\ UNCHANGED <<server, play, app, memory, answers, query, stream, disk, background, actions>>

------------------------------------------------------------------------------
(* The background isolate: one message at a time. *)

\* The preferences are read once in the life of the isolate.
loadInBackground(change) ==
  /\ app # "resumed" /\ background.change = "none"
  /\ pushes[change] > 0
  /\ pushes' = [pushes EXCEPT ![change] = @ - 1]
  /\ background' = [loaded |-> TRUE, change |-> change,
                    copy |-> IF background.loaded THEN background.copy ELSE disk]
  /\ UNCHANGED <<grant, operator, play, app, main, disk, bounds>>

saveInBackground ==
  /\ background.change # "none"
  /\ disk' = reconcileServerGrantReceipts(background.copy, background.change = "grant")
  /\ background' = [background EXCEPT !.change = "none", !.copy = disk']
  /\ UNCHANGED <<server, play, app, main, bounds>>

------------------------------------------------------------------------------
(* The process. *)

\* load, then uploadPendingPlayTokens.
Start ==
  /\ app = "dead"
  /\ app' = "resumed"
  /\ memory' = disk /\ uploads' = (disk \cap Purchase) \X {FALSE}
  /\ UNCHANGED <<server, play, writes, answers, query, stream, disk, background, bounds>>

Pause ==
  /\ app = "resumed" /\ app' = "paused"
  /\ UNCHANGED <<server, play, main, disk, background, bounds>>

Resume ==
  /\ app = "paused" /\ app' = "resumed"
  /\ UNCHANGED <<server, play, main, disk, background, bounds>>

\* Both isolates are of one process.
Kill ==
  /\ app # "dead" \/ background.loaded
  /\ Trouble
  /\ app' = "dead" /\ memory' = {} /\ writes' = <<>>
  /\ answers' = [b \in BOOLEAN |-> 0]
  /\ query' = NoQuery /\ stream' = {} /\ uploads' = {}
  /\ background' = NoIsolate
  /\ UNCHANGED <<server, play, disk, actions>>

MainStep ==
  \/ Written \/ upsertLive \/ retainGooglePlayPurchaseTokens
  \/ \E granted \in BOOLEAN : reconcileServerGrant(granted)
  \/ \E q \in Purchase : onPurchases(q) \/ \E b \in BOOLEAN : applyServerExpiry(q, b)

Next ==
  \/ SetFreeLicense \/ SendGrant \/ SendRevoke \/ ClearFreeLicense
  \/ \E c \in Change : LosePush(c) \/ applyLicensePush(c) \/ loadInBackground(c)
  \/ \E q \in Purchase : Buy(q) \/ End(q)
  \/ syncServerLicenses \/ queryPastPurchases \/ MainStep
  \/ saveInBackground
  \/ Start \/ Pause \/ Resume \/ Kill

Spec == Init /\ [][Next]_vars

\* The main isolate and the background one get on with what they do, and the
\* user opens the app again and again, long enough for both questions.
FairSpec ==
  /\ Spec
  /\ WF_vars(Written) /\ WF_vars(upsertLive) /\ WF_vars(retainGooglePlayPurchaseTokens)
  /\ \A granted \in BOOLEAN : WF_vars(reconcileServerGrant(granted))
  /\ \A q \in Purchase :
       WF_vars(onPurchases(q)) /\ \A b \in BOOLEAN : WF_vars(applyServerExpiry(q, b))
  /\ WF_vars(saveInBackground)
  /\ WF_vars(Start) /\ WF_vars(Resume)
  /\ SF_vars(syncServerLicenses) /\ SF_vars(queryPastPurchases)

------------------------------------------------------------------------------
(* Properties. *)

\* Once operators leave the free licence alone, the app has it exactly when
\* the server grants it: whatever messages were lost, late or answered out of
\* order, and whichever stale list either isolate wrote on the way.
ServerWins ==
  \A granted \in BOOLEAN :
    <>[](grant = granted)
      => <>[](/\ (Grant \in disk) = granted
              /\ app = "resumed" => (Grant \in memory) = granted)

\* A purchase a stale list has dropped comes back, and one Play has ended goes,
\* however often reconciliations of the free licence write around them.
PlayComesBack ==
  \A q \in Purchase, owned \in BOOLEAN :
    <>[]((q \in play) = owned) => []<>((q \in disk) = owned)
==============================================================================
