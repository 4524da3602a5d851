# Verification of Bojairũ (compartarenta)

Bojairũ is a local-first application for people who share a home or a
vehicle.  Devices keep their own databases and exchange encrypted messages
through a relay that knows opaque identities only; a second service decides
who may operate a shared plan.  This directory holds TLA+ models of the
program's server-side cores and of the client protocols that lean on them, the
TLC runs that check them and the theorems
TLAPS proves about them.  Every definition is translated from the source;
`PROJECT.json` names the lines each one stands for.

## 1. Inventory

| Component | Code | State | Operations | What makes it correct |
| --- | --- | --- | --- | --- |
| Relay mailbox | `relay/internal/{api/api.go,store/store.go,sweeper}` | `routing_relationships`, `idempotency_entries`, `envelopes` | POST envelope, fetch and acknowledge the inbox, establish and disconnect routing, sweep | a message is stored once per key and window, kept until acknowledged or expired, never delivered again after it; the last routing request decides; everything expired goes |
| Relay reminders | `relay/internal/{api/scheduling.go,store/scheduled_notifications.go,remindercron,scheduling}` | targets, fires, zones, plan generations | reconcile, cancel, client upsert, zone registration, claim, wake, list, acknowledge | what is due fires once, what was cancelled does not, later knowledge replaces earlier |
| Entitlement, housing | `entitlement/internal/{domain/housing.go,store,api}` | installations, rosters by revision, licences, plans | register, roster, licence report, active use, introspect, migrate | one trial per person, grace before read-only, read-only is enforced, payment ends it |
| Free licences, Play receipts | `entitlement/internal/{license,api,store,domain/housing.go}` | receipts, free licence columns, coverage by plan | grant, withdraw, upload a purchase, reproject | coverage follows the receipts and the grant through partial failures |
| Relay entitlement gate | `relay/internal/entitlement` | none | introspect, migrate | no gated envelope is stored without an answer |
| Push registration and dispatch | `relay/internal/push`, `store/routing_push_tokens.go` | tokens | register, unregister, wake, purge | a live token is not purged, an expired one is |
| Rate limiter | `relay/internal/ratelimit` | buckets | allow, deny, evict | eviction never lends more than the rate allows; who waits is served |
| Operator notices, statistics, configuration | `relay/internal/{operatornotice,stats,metrics,config}` | counters | fan-out, export | none that other parts rely on |
| Mobile relay client, handshake | `mobile/lib/relay` | identities, handshakes, routing contexts, outbox | invite, redeem, accept, reject, poll, disconnect | two devices agree on a contact over an at-least-once mailbox |
| Mobile housing proposals, amendments, participation | `mobile/lib/housing/{proposals,amendment,participation}` | plan revisions, responses | propose, respond, settle, withdraw | all devices settle on the same revision |
| Mobile expenses, settlement | `mobile/lib/housing/{realized_expense,settlement}`, `split_minor_by_weights.dart` | expenses, decisions | propose, accept, reject, split | shares add up; a decision is final |
| Mobile vehicle sharing | `mobile/lib/vehicle` | vehicles, sharing offers, use sessions, purchases | offer, accept, report use and purchases, reconcile balances | both parties derive the same balance from the reports they exchanged |
| Mobile entitlement client | `mobile/lib/entitlement` | receipts in memory and in the preferences | synchronise the grant, apply pushes in either isolate, handle and upload purchases, reconcile with Play | the device ends up with what the server grants and Play sells |
| Mobile portability, notifications, presentation | `mobile/lib/{portability,notifications,screens,...}` | exports, caches | export, import, show | see "Not modelled" |
| Deployment, tools, specifications | `deploy`, `qa`, `tool`, `openspec`, `docs` | | | quoted where they say what the code should do |

**Interactions.**  A device POSTs envelopes to the relay and polls its inbox.
For gated kinds the relay asks the entitlement service between its routing
check and its first write.  The relay wakes recipients by push, from the POST
handler and from the reminder cron, in goroutines nobody waits for.  Devices
send the relay reconciliations of payment dates and their time zone, and send
the entitlement service rosters, coverage and migrations.  Both services share
nothing but what the requests carry; each keeps its state in PostgreSQL, and
nothing in the process but the relay's rate limiters.  A device uploads its
purchases to the entitlement service, which pushes licence changes back.

**What is hard.**  HTTP handlers, the sweeper and the cron run concurrently
against one database.  The mailbox runs separate statements per request, the
reminders use transactions at READ COMMITTED with reads before them, the
entitlement service uses none around a plan.  A process may stop between any
two statements; clients retry.  On a device a poll timer, the push isolate, the
purchase stream and the screens run beside each other over one database and one
set of preferences, every await is a point where another may go on, and the
system stops the app when it likes.  `PROJECT.json` lists each hazard at its line
with the property that covers it, or why none does.

## 2. Modules

`Mailbox` is what the clients are promised: an envelope is accepted at most
once, then delivered or, once expired, dropped, and never comes back.

`RelayMailbox` is the relay: one action per SQL statement of a POST
(`Receive`, `Stamp`, `SelectEntry`, `Replay`, `Reserve`, `StoreEnvelope`,
`Accepted`, with `Abort` for every early end), the inbox and acknowledgement
requests, the routing requests, one action per sweeper pass, `Crash`, `Tick`.
`LookupOrReserveIdempotency` runs at READ COMMITTED, so its SELECT and its
write are two steps and two handlers may stand between them.  Variables below
`History` in the module are read by properties only.

`FireTimes` computes reminder instants (`scheduling/firetimes.go`).
`RelayReminders` has the reminder tables.  PostgreSQL runs the transactions at
READ COMMITTED: a statement sees what was committed when it began and nothing an
open transaction has written.  The two transactions that work through a list of
targets are therefore taken apart: a reconciliation into `ReconcileBegin` (the
plan's row, the superseded targets and the pending fires of dead ones), then per
target `UpsertTarget` (its row and its pending fires) and `ArmTarget` (the zone
and the inserts), then `ReconcileCommit`; a zone registration into its three round
trips before the transaction, then `RecomputeTarget` per target and
`RecomputeCommit`.  What they have written lies in `gone` and `new` of `ingest`
and `job` until the commit (`CommitFires`), and goes with a failure
(`ReconcileFails`, `GiveUp`, `Crash`).  The rows they hold are passed over by the
claim (`Held`, for SKIP LOCKED) and waited for by a cancellation (`Written`).

`EntitlementLifecycle` has the plans, rosters, licences and installations.
Each handler is at a statement of the request it serves (`job[h].step`); the
row read is carried along and written back whole, as the code does.  `overtaken`
has the requests whose plan another request has changed since they read it.

`Licences` is one installation on the entitlement server: the operator's grant
(`SetFreeLicense` ... `ClearFreeLicense`), the purchases its user uploads
(`HandlePlayToken`, `UpsertPlayReceipt`) and the projection of both onto the
coverage of its plans, one statement a step (`PlayReceiptsForInstallation`,
`FreeLicenseForInstallation`, then `UpsertLicenseStatus` plan by plan).
`Interrupt` ends a request anywhere.  What a new coverage does to a plan is
`EntitlementLifecycle`'s, where it arrives as a licence request.

`GrantReceipts` is the other end: the list of receipts of one device, in memory
and on disk, the server's grant and its pushes, and Google Play.  The main
isolate keeps a copy of the preferences and writes whole lists (`writes` are
those the platform has not finished); the background isolate reads the
preferences once and writes its own (`loadInBackground`, `saveInBackground`).
It has the server's grant only as far as a device can see it.

`Invitation` is what a contact code promises: one holder for good, and nobody
else connected through it.  `Handshake` is one code on the device that made it
and the devices that enter it, with the two handshake inboxes of the relay
between them.  A thread is one operation of a device after another; `job[t].at`
is the step it takes next and `job[t].seen` the state it read in the row, so a
step may act on a row that has changed since.  Every relay call may be answered
with an error, or get no answer, having reached the relay or not.  The inboxes,
the hello's idempotency key and the pair's routing are what `RelayMailbox`
leaves of a pair, reduced to what a handshake can tell apart.

`RateLimiter` is the token bucket.  Time is in ticks and a token is worth the
ticks that refill it, so that the arithmetic of the code becomes exact.

`MC*` modules give the constants values; `*Proofs` modules hold the theorems.
Operators introduced by `Slip` or `Mutant` comments are no part of a
specification: each is a plausible mistake in the definition that follows it,
used to see that a property notices it.

## 3. Runs

Passing runs:

| Run | Checks | Bounds, and why they are enough |
| --- | --- | --- |
| `MCRelayMailbox` | `TypeOK`, `RetryWithinWindow`, `AckedNeverReturns`, `AcceptedIsKept`, `ImplementsMailbox` | one message, two handlers: a retry needs one other request; the clock passes the end of a window, after which the message may be queued a second time, so that a fetch limited to one leaves one behind |
| `MCRelayMailboxLive` | `RoutingFollowsLastRequest`, `ImplementsMailbox`, `ExpiredIsSwept`, `DisconnectIsSevered` | one handler, a fair sweeper, a message with a product deadline beyond its retention; the clock passes retention, disconnect grace and inactivity limit |
| `MCRelayReminders` | `TypeOK`, `FiredIsFinal`, `CancelledStaysSilent`, `RevivalIsClean`, `DueIsFired` | one plan with an overdue reminder, two generations, two zones that put it at 19 or at 29, one target of the client's with a fire at 19, a batch of one; a reconciliation and a registration are open at once.  The clock goes from 0 to 29, so fires are armed and open transactions hold an old "now" before, and a backlog of three is due after (899,664 states).  The reminders before the date are computed by the theorems only |
| `MCEntitlementLifecycle` | `TypeOK`, `GraceComesFirst`, `TrialStartIsStable`, `ReadOnlyHolds` | one plan, two requests at once that may stop half-way; durations of no tick, so that two ticks pass trial and grace: a period is over at the tick after it began, and an off-by-one shows.  Stale rows are written back over both properties' plans (2,962,856 states).  Longer periods and migrations of the plan are left to the theorems |
| `MCEntitlementLifecycleTrials` | `TrialOncePerPerson` | two plans sharing one person, who may move, two requests at once, two of the three installations unregistered at first; trials start at any time, so no clock is needed (2,366,499 states).  It reaches every excuse but the second move, which only the theorem covers |
| `MCHandshake` | `ConnectedCanWrite`, `ImplementsInvitation` | an inviter with two threads (timer and push isolate, either of which may also be the screen), two redeemers with a thread each, three envelopes (two hellos and an answer, or a hello and two answers), one fault, stop or expiry anywhere; the second redeemer comes when the first hello is at the relay (`OneThingAtATime` says what is left out beside it; 736,049 states) |
| `MCHandshakePair` | `RefusedStaysOut` | one redeemer whose device has two threads, each of them poll, push isolate and screen, and an inviter with one; one fault, stop or expiry anywhere.  Without the excuse for a row written over the run fails, so the crossing is reached (1,011,761 states) |
| `MCHandshakeLive` | `TypeOK`, `HelloConnectsBoth` | one redeemer with a poller and a screen, so that it may enter the code again, five envelopes, two survivable faults |
| `MCLicences` | `TypeOK`, `GrantsDoNotStack`, `CoverageConverges` | one purchase, two plans, two operators and two uploads at once, three requests of operators and user, one failure: two projections overlap and one stops between the plans |
| `MCGrantReceipts` | `TypeOK`, `ServerWins`, `PlayComesBack` | one purchase and the grant, two things the operator or the user does (grant and withdraw, buy and end, one of each), two answers or writes under way, one failure or stop |
| `MCRateLimiter` | `TypeOK`, `WithinRate`, `PatienceIsEnough` | two scopes, so that one's request evicts the other's bucket; a burst of one and a third tokens, which shows the parts of a token; ten ticks pass two evictions |

`CHECK_DEADLOCK FALSE`: the clock is bounded and requests are optional, so a
model in which nothing is left to do is not an error.

One run shows the code doing something else than its documents say; its entry
under `findings` quotes the line:

- `MCRelayMailboxReplay`: the reservation outlives a crash before the store,
  and the retry is told its message was accepted.

The models reach more behaviour that a reader of the code should know.  It has
no run of its own; `hazards` has the weightier ones at their lines.

- Mailbox: two requests that find one expired entry each reserve, and a key
  has two live ids; a retry after the day of its key, which is shorter than the
  week of its envelope, queues the message a second time.
- Reminders: repeating a reconciliation silences what it armed; an older
  generation overwrites a newer target (the specification of the ingest says it is
  ignored, but only the plan's own row is compared); a zone
  registration beside a reconciliation leaves fires at the old hours, and fires
  of a target's earlier life when it commits behind the statements that revive
  the target; a stop after a claim loses its wake push.
- Entitlement: with two requests at once a recorded trial start is erased or
  moved, a revocation undone and a read-only plan reopened, each by a row read
  before it; two plans that share a participant
  both get a trial (so do two plans one after the other when that participant
  moved devices in between); a report of active use that stops after its marks
  costs the household its trial; an unregistered participant is not marked when a
  trial starts; a migration of an installation onto itself deletes its row and
  its mark; a mutating request
  after the trial is allowed, the refresh before the decision having moved the
  plan to grace; paid operation survives a lapsed licence.
- Licences: a withdrawal that could not project cannot be repeated, and an
  installation without a purchase to upload keeps its old coverage; the undo of
  a failed push may clear a grant another operator has just set.
- Receipts: a grant that is reconciled while a purchase is being written takes
  the purchase off the device until the next query of Play.
- Handshake: a redemption that failed and is repeated completes with a contact
  that stays hidden, because nothing clears its deletion; when the reply to the
  inviter's answer is lost, or the inviter's routing call after it fails, the
  redeemer completes and takes the pair down, and the inviter never does; an
  error of the redeemer's routing call has the answer acknowledged unheard; a
  stop after the invitation was used, or after a claim, leaves the code spent
  and the contact unpromoted; a poll that cannot post its hello marks a row
  failed that may already be awaiting its answer, and one that can may take a
  completed row back to awaiting; a redemption that races the poll's retry may
  be undone although the inviter has connected; and, with two operations at once
  on the redeemer's device, a completed row taken back to awaiting lets a
  refusal still under way report a rejection of a contact that is connected; a
  row that expires on one side leaves the other side's contact alone; a hello whose
  POST meets an unreachable relay leaves its row failed, for which polls fetch but
  may not claim, until the code is entered again.  `HelloConnectsBoth` is therefore
  checked without stops and expiries, and with the faults a later poll makes good
  (`SurvivableFault`): a fetch, acknowledgement or decommissioning that fails in any
  way, an answer of the inviter or a routing call of the redeemer that does not
  arrive.  It begins where a hello has arrived.

**Properties with an excuse.**  Five properties hold of the code only but for
races it does have.  Each names the race in its formula, and lets go of nothing
else:

- `RevivalIsClean` excepts the fires in `beside`: those a zone registration
  committed while a reconciliation was open, for targets the reconciliation had
  already written.  Its statements could not see them.
- `TrialStartIsStable` and `ReadOnlyHolds` except the step of a request in
  `overtaken`: another request wrote the plan's row, roster or coverage after this
  one had read it.  A request leaves `overtaken` when it reads the row again.
- `TrialOncePerPerson` excepts persons in `excused`: a trial was decided on with
  them while another plan's trial with them was decided on and not yet written, or
  with an installation of theirs that had no row to mark or had been moved away
  from; or their installation moved while a trial that names it was being
  recorded, or was moved away from twice.
- `RefusedStaysOut` excepts redeemers in `reopened`: a thread of their device took
  a completed row back to awaiting, or marked it expired or unreachable.

**Fairness.** `RelayMailbox!FairSpec`: the sweeper's ticker never stops (weak
fairness of its start) and no pass fails every time it is tried (strong
fairness of each pass, because failures and restarts disable it now and then).
`RelayReminders!FairSpec`: the cron's ticker fires for ever (weak fairness of
the claim, which is enabled by any due row that no open transaction holds;
`DueIsFired` speaks of those). Clients and handlers have none.
`Handshake!FairSpec`: a thread that has something to do goes on (weak
fairness): the poll loop runs while a row is open; nothing makes the user or a
fault act. `Licences!FairSpec`: a request is served to its end or cut short
(weak fairness), and the app uploads each purchase again and again (strong
fairness, because both uploads may be busy), as it does at every start.
`GrantReceipts!FairSpec`: the main isolate goes on and the background isolate
ends its write (weak fairness), the app is opened again (weak fairness of its
start and resumption), and the server and Play are asked again and again
(strong fairness, since the app is paused now and then): the server at every
start, resumption and licence checkpoint, Play at every start, at the Licences
screen and at the checkpoints of modules and imports.

## 4. Proofs

TLAPS proves, for every value of the constants allowed by the modules'
assumptions, each as `THEOREM Spec => ...`:

| Theorem (`RelayMailboxProofs`) | Property |
| --- | --- |
| `TypeCorrect` | `TypeOK` |
| `RetriesShareOneEnvelope` | `RetryWithinWindow` |
| `AcceptedEnvelopesAreKept` | `AcceptedIsKept` |
| `AcknowledgedIsFinal` | `AckedNeverReturns` |
| `LastRoutingRequestWins` | `RoutingFollowsLastRequest` |
| `RelayImplementsMailbox` | `ImplementsMailbox` |

| Theorem (`RelayRemindersProofs`) | Property |
| --- | --- |
| `TypeCorrect` | `TypeOK` |
| `ClaimedRemindersAreFinal` | `FiredIsFinal` |
| `SilencedTargetsStaySilent` | `CancelledStaysSilent` |
| `RevivedTargetsStartClean` | `RevivalIsClean` |
| `RemindersLeadToTheDate`, `OverdueComesLast`, `DueDayIsAlwaysArmed` | what `FireTimes` computes, for every due instant, zone and period |

| Theorem (`RateLimiterProofs`) | Property |
| --- | --- |
| `TypeCorrect` | `TypeOK` |
| `RateIsKept` | `WithinRate` |
| `PatienceRewarded` | `PatienceIsEnough` |

| Theorem (`EntitlementLifecycleProofs`) | Property |
| --- | --- |
| `TypeCorrect` | `TypeOK` |
| `ReadOnlyComesAfterGrace` | `GraceComesFirst` |
| `TrialStartStays` | `TrialStartIsStable` |
| `ReadOnlyIsEnforced` | `ReadOnlyHolds` |
| `OneTrialPerPerson` | `TrialOncePerPerson` |

| Theorem (`HandshakeProofs`) | Property |
| --- | --- |
| `TypeCorrect` | `TypeOK` |
| `PromotedContactsAreRouted` | `ConnectedCanWrite` |
| `HandshakeImplementsInvitation` | `ImplementsInvitation` |
| `RefusedRedeemersStayOut` | `RefusedStaysOut` |

| Theorem (`LicencesProofs`) | Property |
| --- | --- |
| `TypeCorrect` | `TypeOK` |
| `GrantsAreNeverStacked` | `GrantsDoNotStack` |

| Theorem (`GrantReceiptsProofs`) | Property |
| --- | --- |
| `TypeCorrect` | `TypeOK` |

With them every invariant, every action property of a single step and both
refinements the passing runs check are proved, from no assumption but those on the
constants: no theorem assumes how requests or threads interleave.

**Mailbox.**  Its invariants are not inductive alone.  `RetryWithinWindow` needs
that an open reservation is still the entry of its key, and that a handler
about to write over an entry saw it missing or expired; the step that matters
is `Reserve` from `expired`, where the overwritten window is closed because the
handler's stamp is not ahead of the clock.  `AckedNeverReturns` needs that an
id a handler is still to store has been acknowledged by nobody, because ids are
fresh.  `AcceptedIsKept` needs that only acknowledgements and sweeps of expired
rows remove envelopes and that a sweep's captured start is not ahead of the
clock.  `RoutingFollowsLastRequest` ties the row of a pair to the last request
of that pair.

**Reminders.** The action properties rest on `TypeOK` (whose `OneStatus` says a
fire has one status) and on what open transactions leave true of each other.
`Wanted`: a live target is one its clients want, and its row carries the
generation that named it last. `Superseding`: while a reconciliation is open,
its lock on the plan's row keeps every older target of the plan among those it
cancels. `Accounted`: the pending fires of a target an open reconciliation has
written are those it has cancelled itself and those in `beside`; it is what
`RevivalIsClean` comes down to at `ReconcileCommit`. The theorems about fire
times are integer arithmetic over the fixed offset of a zone: `LocalFireAt`
reads 14:00 on its date (`FireReadsLocally`), and the rest follows from the
offsets.

**Rate limiter.**  `WithinRate` bounds what was spent in a window by the burst
and the window's length; what makes it inductive is that the spent tokens and
those the bucket could still give (`Level`) together stay within that bound
(`Paid`).  A request moves a token from one side to the other, a denial moves
none, a tick raises both, and an eviction changes nothing because the bucket has
been idle for longer than a burst takes: `EvictAssumption`, which holds of the
code's ten minutes at any rate of at least one request in ten minutes.  The
configuration does not check the rate.  `PatienceIsEnough` rests on `Patient`: a
bucket holds at least what was refilled since its last allowed request, or a
burst.

**Entitlement.**  `GraceComesFirst` holds however requests interleave.  Its
invariant says that a row with a grace period, in the table or in the hands of a
request, ends no sooner than a whole period after the earliest reading the
history has of that plan (`Noticed`, `Counted`), and that a row about to be
written read-only by a refresh is one whose period is over (`Served`).  Rows are
overwritten by older ones, but each of them was noticed, and the history's
earliest reading only moves back.

The service takes no lock around a plan, so the others speak of who was
overtaken.  `CurrentInv` says of every request that what it has in hand is
`Sound` whatever others do (nothing answered too early, no row in hand with a
change allowed on a read-only plan) and, unless it is in `overtaken`, that it is
what the tables say (`Current`).  A step about one plan touches nothing of another
(`StartTouches`, `ServeTouches`, `CurrentElsewhere`), and one that changes a plan
puts every other request with that plan in hand into `overtaken`
(`ServeOvertakes`).  A step of a request that is not there then finds the row it
read, which is `TrialStartIsStable` and `ReadOnlyHolds`.

`TrialOncePerPerson` is about two plans, and its invariant follows the mark of a
person through migrations.  `Vouched`: who took part in a trial is marked at the
installation not moved away from.  `OneEach`: there is one such installation for a
person.  `Recorded`: a trial being recorded has its participants marked or still
to mark, and none of them took part in another plan's.  `Apart`: no two plans'
trials are being recorded with one installation.  Each is up to `excused`, which
grows only at `UseReadConsumed`, `UseMark` and `MigrateCommit`.

**Handshake.**  `HolderInv` carries the refinement.  While the invitation is
pending every thread that has a hello in hand has the first of the inbox
(`InviterKnows`); threads about to take a hello agree on its redeemer
(`Agreed`); answers are addressed to the holder (`InboxInv`, `InviteeKnows`).  So
the code's holder is set once, and only the holder is ever promoted.
`ConnectedCanWrite` needs that a thread about to claim or promote has had its
routing call answered (`RoutedInv`).  `RefusedStaysOut` needs `CompletedInv`: of a
redeemer not in `reopened` the row says completed before any thread promotes the
contact, and stays so, since every claim looks at the row and every write that
does not is noted in `reopened` (`Follows`, `CompletedKept`); and only a deleted
contact's row is forgotten.

**Licences.**  `GrantsDoNotStack` is the promise of the `FOR UPDATE` in
`SetFreeLicense`.  Its invariant (`Locked`) adds to it that nobody but an
operator's request stands at that statement; every other step either leaves the
installation's row alone or waits until it is free.

**Receipts.**  `TypeOK` bounds what is under way, which no single step does: the
messages to come and those announced are no more than what operators did, answers
no more than were asked for, and the query of Play is one list and one upload
ahead, of the same purchase (`QueryWaits`), with nothing going on in a stopped
app (`DeadIsDead`).

**Model-checked only.**  Liveness under fairness is out of the prover's reach:
`ExpiredIsSwept`, `DisconnectIsSevered`, `DueIsFired`, `HelloConnectsBoth`,
`CoverageConverges`, `ServerWins` and `PlayComesBack` are checked on the runs'
instances.  `Mailbox` and `Invitation`, which the refinements implement, are
stated without liveness.

## 5. Abstractions

- Zones are fixed offsets from UTC; daylight saving is not modelled.
- The reminder transactions are taken apart where another transaction can commit
  between two statements to an effect.  Merged are statements nothing can separate:
  in `ReconcileBegin` the lock of the plan's row with the two cancelling UPDATEs
  (under that lock nobody else writes targets of the plan but a cancellation, which
  sweeps their fires itself), in `UpsertTarget` the row with its own pending fires.  The claim,
  the cancellations and the client upserts are one step: they lock the rows they
  change as they read them, and one whose snapshot is older than another's commit
  comes before it.  So only the order of commits differs from the code's: a fire
  claimed from a snapshot taken before a cancellation committed counts as claimed
  before it.
- A statement that meets a fire row another open transaction holds waits in the
  code; in the model it goes on with the rows it found, and `CommitFires` settles
  conflicting inserts.  That allows more than the code does.
- The domains whose fire times the client supplies are one; a cancellation for
  them sweeps the fires of every cancelled target of that domain.
- Only the conditions a POST is refused under that depend on modelled state are
  guards; framing, rate limits and entitlement refusals are the choice not to
  `Receive`, or `Abort`.
- The active roster is read by two statements and modelled as one.
- In `EntitlementLifecycle`, what a purchase, a receipt or a free licence does
  to one plan is a licence request; `Licences` has the loop over the plans.
- `trial_started_at` always equals `active_use_started_at` when set; the
  expense decisions are never read.  Both are left out.
- `Licences`: one installation, registered and with its roster unchanged.  A
  grant lasts a hundred years and does not end; a receipt's own expiry is
  `Lapse`.  Reading the grant and refusing a DELETE is one step with its first
  effect.
- `GrantReceipts`: the platform's write of a list and the replacement of the
  list in memory are one step; a push in the foreground is applied at once; the
  receipts differ by their token only, and a receipt written again with the
  server's expiry is the same receipt.  Uploads under way are a set, apart for the
  query of Play, which waits for its own upload and for nobody else's.
- `Handshake`: a redemption writes its stub and its row in one step, and the
  invitation's status is read and written in one step; a row read again right
  after a write is the row written; both disconnects of a pair are one call,
  the pair being one row.  Envelopes do not expire: the model makes the hello's
  lifetime (`helloTtl`, seven days in the code) as long as the code's, and `Expire`
  is the row's; no property depends on it.  A key lives a day, which is
  `KeyExpires`.  The client's own retries of a call are part of the call: they
  end in an answer or in `RelayUnreachableException`.
- `RateLimiter`: tokens and times are ticks, and the rounding of floating point
  is left out.
- Checkpoints, metrics and logs are left out.

## 6. Plan

Done: `Mailbox`, `RelayMailbox`, `FireTimes`, `RelayReminders`,
`EntitlementLifecycle`, `Licences`, `GrantReceipts`, `Invitation`, `Handshake`,
`RateLimiter`, and the proofs of every safety property the runs check.
Left, in this order:

1. `GatedRelay`: `RelayMailbox` composed with `EntitlementLifecycle` through
   the gate.
2. `PushRegistration`: tokens against dispatch and purge.
3. `HousingProposal`: devices vote on a revision over the mailbox.
4. `SplitMinor`: the split of an amount by weights against its reference.
5. `VehicleSharing`: the balance two devices derive from their reports.

## 7. Not modelled

- The relay's push registration and dispatch, the entitlement gate as a
  composition, and the mobile services of items 3 to 5: left in the plan.
- Of the handshake: merging with an older contact of the same device or with a
  disconnected one, making a code, disconnecting, and the steady-state inbox.
- Of the mobile entitlement client: the cached lifecycles of plans and the
  registration of installations and push tokens.
- Operator notices, statistics, metrics, logging, configuration: nothing else
  depends on their state.
- Screens, widgets, localisation, notifications, the sandbox and debug tools,
  the generated database accessors: presentation and generated code.
- The repository's JavaScript: `mobile/web/drift_worker.dart.js` is the
  compiled output of the database library's worker, and
  `relay/deploy/landing/contact/invite/invite.js` a static page that shows a
  code and opens the app.  The program is written in Dart and Go.
