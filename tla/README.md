# Specifications of the information-room reservation site

Students of a school reserve a seat for a study period (`EIGHTH`, then `FIRST`)
of today or of a later day of the week. Administrators cancel, mark no-shows,
restrict and ban, and set capacities and hours, from a web console or from
Discord. This directory holds TLA+ modules of the server's state, of how its
requests, workers and cron jobs interleave, and of what the browser shows of it;
TLC configurations; and TLAPS proofs. Paths below are relative to the repository.

Contents: the system, the modules, the runs (with bounds and fairness), the
findings, the proofs, what is only model-checked, what is not modelled, and the
plan.

## The system

All server components share one PostgreSQL database and no memory: a request
reads and writes in transactions, `withDatabaseMutation` for anything that must
be serial and `withDatabaseContext` for a plain one. Cron calls one route every
few minutes that runs the outbox, the interaction jobs, the notifications and
the maintenance side by side; a reservation also starts an outbox run for itself
after its answer. Discord is the only other shared state, reached over HTTP. The
browser keeps state of its own: what it shows, what it is waiting for, and
tokens.

| Component | State | Operations | What makes it correct | Modules |
| --- | --- | --- | --- | --- |
| Booking rules (`advance-reservation-policy.ts`, `period-window.ts`, `period-setting-values.ts`) | none | advance dates, window, effective setting | nothing is reserved outside the window or past Friday | ReservationRules |
| Reservations (`reservation-service.ts`, `prisma-reservation-store.ts`, `admin-reservation-*.ts`, the SQL function `cancel_owned_student_reservation`) | `Reservation`, unique in (user, date, period) | reserve, create, cancel | capacity, one row per identity for ever, restricted students refused | ReservationLedger |
| Sanctions (`admin-no-show-operations.ts`, `admin-user-sanction-service.ts`, the restriction route) | `User.bookingStatus`, `UserSanction` | no-show ban, restrict, ban, shadow ban, release | both tables agree; a ban empties what lies ahead | ReservationLedger |
| Settings (`period-settings` route, `discord-admin-settings-service.ts`) | `PeriodSetting` | overwrite all, change one field | new seats fit the capacity in force | ReservationLedger |
| Maintenance (`prisma-maintenance-store.ts`) | the above | lift restrictions, revoke sanctions | only what has run out | ReservationLedger |
| Mutation transactions (`db-context.ts`) | advisory locks, snapshots | lock, read, commit, retry | races behave as some serial order; every request is answered | ReservationTransactions, SeatRegister |
| Discord outbox (`discord-reservation-outbox*.ts`, `prisma-discord-reservation-message-*.ts`) | `DiscordReservationMessage`, the message | claim, post, patch, record, retry, review | one message per reservation, which finally shows it | DiscordOutbox |
| Interaction jobs (`prisma-discord-interaction-job-*.ts`, the interactions route) | `DiscordInteractionJob`, receipts, decisions | stage, activate, settle, claim, execute, record | what was acknowledged is queued, each decision is made once | DiscordInteractionJobs |
| Administrator commands (`prisma-discord-admin-*.ts`) | command jobs, drafts, results | stage, submit, claim, execute, deliver | only what was acknowledged runs, what is told was done | DiscordAdminCommands |
| Operations board (`discord-operations-board*.ts`) | the board's row, the pinned message | request, claim, load, edit or post, pin, record | one board, and it catches up with the site | OperationsBoard |
| Verification and repair of messages, retention of messages | the message's row, the channel | search page by page, bind, abandon, resend, delete | verdicts are true, tombstones final | DiscordMessageReview |
| Disable and re-enable (`scripts/operational-rollout-smoke.ts`) | `DiscordOperationsControl` | fence by epoch, drain, sweep | no lease is lost, no control comes back | DisableSweep, DiscordInteractionJobs |
| Closed-period lists (`prisma-notification-repository.ts`) | `NotificationDelivery` | materialise, claim, send, save, reconcile | sent once; none slips away | ClosedListNotices |
| Operational jobs (`prisma-operational-job-store.ts`) | `OperationalJob` | start, take over, finish | the row speaks for its runs | OperationalJobs |
| Accounts, sessions, departure, retention | users, sessions | login, depart, anonymise | the departed stay out, what is erased was shown | AccountSessions |
| CSRF tokens, rate limits | their tables | issue, prune, use; count | a tab loses its token only to newer ones; at most three times the limit | CsrfTokens, RateLimits, RequestLimits |
| Contract activation | marker, receipts, write trigger | ready, activate, disable | once, and never over the operator | ContractActivation |
| Online indexes (`scripts/apply-online-admin-search-indexes.ts`) | the catalogue, a ledger | build, drop invalid, record | APPLIED means built | OnlineIndexes |
| Web client of the student | page, dialog, profile, bell | log in, read, confirm, cancel | nothing is done, told or shown for another student | StudentPage, StudentPanels |
| Web client of administrators | desk, links, lists, bulk dialog, settings | read, confirm, save | late answers do not mislead | AdminDesk, AdminLinks, AdminLists, BulkCancellation, SettingsSheet |
| Evidence and test harness (`scripts/run-operational-fomo-evidence.mjs`, `operational-fomo-harness.mjs`) | records, processes | record, verify; start, stop | records stand; nothing is left running | EvidenceRecorder, HarnessCleanup |

What is hard here: requests that race for the last seat or for one reservation;
a snapshot older than the lock it is protected by; candidates selected in an
earlier transaction; leases that lapse under a slow worker; a call whose outcome
stays unknown; a worker that stops between a call and the record of it; one fact
kept in two tables; and answers that reach a page that has moved on.
`PROJECT.json` lists 40 hazards, each at its line, with the properties that
watch it.

## Modules

Every module names the source's functions in its actions; `PROJECT.json` gives
the lines of each definition. A step is one transaction or one HTTP call. What a
process read is kept in its record until it acts on it. Time appears as what is
compared with it: an age, a deadline that has or has not passed, a lease that may
lapse.

**ReservationRules**: Korean days and minutes, `AdvanceDates`,
`PeriodWindowState`, `Resolve`, `IsRestricted`. Day 0 is the weekday
`FirstWeekday`; a day has `LastMinute + 1` minutes.

**ReservationLedger**: the tables of reservations, accounts, sanctions and
settings, with one action per operation, each a transaction that runs alone, and
a clock. Omitted: Discord rows, reasons, actors, audit rows, the guard against
sanctioning administrators, and repetitions that write nothing. The settings page
sends both periods at once; here each is a step. `RowSecurity` tells whether the
connection is subject to the row policies, as the deployed role is.

**ReservationTransactions** opens these transactions up: `Submit` (where the code
looks up beforehand whom a request is about), `BeginAttempt` (the snapshot),
`AcquireLock` one by one in key order, then commit, serialization failure or
timeout. The database is PostgreSQL's contract: of two concurrent writers of a
row the second fails, a commit that would close a cycle of dependencies fails,
and a failure may be spurious when somebody committed since the snapshot.
**SeatRegister** is what the tables promise whoever looks, and
`ReservationTransactions` implements it (`ImplementsRegister`). The settings
route runs outside the serial order, so the register promises the highest
capacity there has been; no more can be promised.

**DiscordOutbox**: one reservation's row, the fence, workers, the message, its
two leases; the reservation is accepted and ends, workers stop, saves throw,
claims lapse. **DisableSweep** has the operator's sweep beside it, with those
steps of the outbox that meet it. **DiscordMessageReview** has the channel as a
sequence of messages, searches that go page by page under a cursor that is a
value, and the deletion after thirty days.

**DiscordInteractionJobs** and **DiscordAdminCommands**: the route's second and a
half, the handshake of a job, runs that claim and execute, receipts (commands
have none), the delivery of results, and the fence. **OperationsBoard**: the row,
its lease, syncs and the messages of the channel.

**OperationalJobs**, **ClosedListNotices**, **AccountSessions**,
**ContractActivation**, **OnlineIndexes**, **CsrfTokens**, **RateLimits** (with
**RequestLimits**, which has both, since a request meets them in this order),
**HarnessCleanup**, **EvidenceRecorder** are the parts of those names;
**StudentPage**, **StudentPanels**, **AdminDesk**, **AdminLinks**,
**AdminLists**, **BulkCancellation**, **SettingsSheet** are parts of the client,
each with the routes it talks to.

Conventions. A property that a run checks may be a conjunction of named parts
(`BoardIsKept`, `AccountsAreKept`), each stated and commented in its module.
`Bug_X` beside `X` is a plausible mistake in `X`; nothing refers to it, and with
it in the place of `X` the property that watches `X` is violated. Bounds are
constants named `Max...` whose comment says what they bound.

`MC...` modules give constants for TLC; `...Proofs` modules hold theorems, each
about the module of its name, except that `DiscordOutboxProofs` is about the review
too, `OperationsProofs` about what else runs beside reservations (board, jobs,
lists of closed periods, harness, evidence, activation, sweep, index builds,
accounts), and `WebClientProofs` about the client with its tokens and rates.
`MCLedgerAccounts`, `MCBackground` and `MCSeparateParts` check several modules
that share no variable in one run: a behaviour is one of one part, its `focus`;
the others stay in an initial state. Their states add up and do not
multiply. A property of a part holds trivially in the behaviours of the others,
and the fairness of a part is that of its own module under its focus.

## Runs

| Run | Shows | Bounds, and why they are enough |
| --- | --- | --- |
| `ledger_accounts` | sanctions explain the status, the banned hold nothing ahead, nothing past Friday, endings are final, seats are overbooked only past hidden ones; accounts and sessions stay their persons' | under the row policies of the deployed role: one student on four days from Wednesday, so that Thursday, Friday and the weekend occur, or three who compete for today's seats with capacities 1 and 2 and one of them sanctioned (`MCBound`); two minutes: in the window and after it. No operation on one student reads another's rows except the count of seats. For the accounts: two accounts, two people, three student numbers, one login, one administrator, three days |
| `ledger_row_security` (violation) | finding 1 | two students, capacity 1 |
| `transactions_register` | the register is implemented; operations heed each other; a request is given up only under contention | three clients that compete for seats (two students, capacities 1 and 2) or treat one student with any of the operations: every pair of operations with a third between; two attempts instead of three, so that three clients can exhaust them |
| `transactions_answers` | every request is answered | three clients that lock several keys; no timeouts, which would hide a circular wait |
| `outbox_delivery` | one message at most, SYNCED only what was shown, PATCH leases fenced; all settles but what a stopped worker strands | two workers (one stale and one current claim; a third would repeat the stale one), with and without an application, one crash, failure and early lapse, the fence closed and opened, two PATCH attempts instead of five |
| `outbox_post_fence` (violation) | finding 2 | two workers, one move of the fence |
| `interactions_handshake` | `HandshakeIsKept`, `EffectsStand`, `DrainedIsQuiet` | two requests (a repetition, another command under the same interaction, or another button), one cron runner beside the routes' own; of a fault, a move of the fence and the end of the period two may happen (`MCBound`) |
| `admin_commands` | `CommandsAreHonest`, `CommandsEnd` | four scripts of three requests: two forms for one draft, a form twice, a form beside a command left to cron, a command twice; one fault |
| `background` | the board, the review, jobs, lists and the harness, safety and liveness. The review is of one row: the batch of a hundred, which stops when a row of it is blocked (`maintenance-service.ts:105,249,271`), is left out | two workers, senders or calls each; two changes of the site without a fault, or one with (`MCBound`); one message that lags, one failed call or one move of the fence in the review; two faults of the harness, so that one cleanup fails after one stage |
| `review_unresolved` (violation) | finding 3 | a channel without the message |
| `separate_parts` | the parts of the client, tokens and rates; activation, indexes, the sweep, the recorder; the register by itself | two students, two administrators, two tabs; enough requests that one overtakes another; two activators, a writer and two switches; two runners with two indexes and two faults; the sweep with three epochs and two faults; two recorders that race on one of two todos, the second worked on once the first is frozen, one commit each, no fault (the proof has any number of them). The bounds of each part are in the `.cfg` and in `MCBound` |
| `activation_old_writers` (violation) | finding 4 | two activators, one writer |

`CHECK_DEADLOCK FALSE` stands where the system may really come to rest: every
request answered, every message settled, every process ended.

Fairness. A request or worker that can go on does: the server process and the
database schedule it. Cron keeps coming (strong fairness, since it may find
nothing to do in between). Minutes pass. Nothing is assumed of what people and
Discord do: administrators, students, stops, failures and lapses may come at any
time, as often as the bounds allow. `transactions_answers` assumes nothing about
timeouts. The outbox's liveness is conditional on the fence being open in the
end, that of commands on its being open again and again, that of lists on lists
being switched on in the end and within the seven days for which cron looks back,
that of the review on the administrators leaving it alone.

## Findings

With a run that shows them:

1. The seats are counted under the student's own actor, and the row policy shows
   a student only their own rows: the deployed role never sees a full period
   (`ledger_row_security`; `README.md` says the server has the last word on
   capacity). What holds for the deployed role is that nothing else leads past the
   capacity (`OnlyUnseenSeatsOverbook`). What `ReservationTransactions` and
   `SeatRegister` say of seats is for a connection that sees every row.
2. A POST lease can be taken behind the fence, against the deployment guide
   (`outbox_post_fence`): `beginInitialSendPost` reads the control without a lock.
3. A message whose POST went to review is never found, abandoned or expired
   (`review_unresolved`): verification needs a channel that such a row does not
   have, against the thirty days of `DEPLOYMENT.md`.

4. A mutation of the old contract that began before the activation can write after
   it (`activation_old_writers`): the trigger waits for the lock and then reads the
   marker in the Serializable snapshot that the mutation took with its first
   statement, and the activation is ReadCommitted, so nothing fails. Transactions
   that are not serializable are refused, as the guide says
   (`OnlyOlderSnapshotsWrite`).

Without a run of their own:

- The recorder of evidence checks no dependency between todos. Its
  `parseDependencies` (`run-operational-fomo-evidence.mjs:347-356`) reads every row
  `| N | ... |` of the plan, and the rows of write sets, which have to follow the
  matrix (`verify-operational-fomo-evidence.mjs:810-822`), replace those of the
  matrix by none. `run-operational-fomo-evidence.test.ts:155` expects the check to
  refuse; its plan has the row of the write set before that of the dependencies.
- Cron looks for closed periods of the last seven days. A list whose period closed
  while lists were off, cron did not come or no webhook was set for a whole week is
  never posted, and a row left `SENDING` for that long (the retry of an
  administrator that stopped) is never reconciled.
- A link to an exact row whose read fails stays in the address bar: nothing
  catches the rejection (`use-admin-console.ts:141,262-312`), so nothing is told,
  nothing seeks the row, and a reload tries again.

- `cancel_owned_student_reservation` replaces any status except a shadow ban by a
  three-day restriction, a permanent ban too, although the restriction route says
  that a permanent ban must be released first.
- A worker that stops during the webhook call leaves a `POSTING` row without a
  deadline, which nothing finds again; `discord-reservation-outbox.test.ts:131`
  expects it to be claimed, of a mock.
- A worker that stops during a PATCH leaves a `PATCHING` row:
  `reconcileExpiredSyncPatches` and `reconcileLegacyDiscordTransportClaims` are
  called by tests only. `MessagesSettle` excepts both.
- A reservation created by an administrator has no `DiscordReservationMessage`,
  although the README says that every creation records one. A reviewed PATCH is
  sent again when the reservation ends, although the guide says reviewed outcomes
  are never replayed.
- While the details of the student selected before are still on the screen, the
  form shows the draft of the newly selected one, but its button orders what was
  drafted for the former, a permanent ban without its confirmation too
  (`admin-console.tsx:172-187`, `admin-student-detail.tsx:78-82`; the test
  `admin-student-restriction-form.test.ts:68` has bans confirmed).

Observed while modelling, and in the models as they are in the code:

- Interaction jobs: a run that was refused an answer may still execute when cron
  claimed the job first; a claim that lapsed may commit after the drain saw zero
  (`DrainedIsQuiet` says just that); a job left `PROCESSING` under an old epoch is
  never reclaimed, so that disabling times out.
- Commands keep no receipts: one that is claimed again after a crash is executed
  again. The fence is checked at the claim only.
- The board: a stop after the creation makes a second message; a request during a
  live sync waits for cron.
- The review: a row of revision 0 stays `PENDING` for ever; the boundary that the
  outbox writes is the literal `INITIAL_CREATE`, which no page contains.
- The sweep: releasing a claim clears `syncNextAttemptAt`, and the row is not
  claimed again. Activation after an operator's disable turns workers on without a
  new epoch.
- Lists: a save that throws after the POST leaves the row `FAILED`, and the list is
  posted a second time, when an administrator asks for it or when cron finds the
  row after sixty seconds. Accounts: a session that a login inserts while a
  departure commits is not deleted by it; a student number that the school gives
  out again while it stands on a linked account leads its new owner there
  (`ReusesNumbers`).
- Client: login and logout do not count up `sessionRequestGeneration`; the
  profile is read by several queries that are no snapshot; saving the settings
  before the first read stores the defaults.
- Evidence: two recorders that overlap lose a record; a command whose child fails
  to start, or does not close after its deadline, leaves its log and no record, so
  that its failure is not kept (`RunIsLost`); the recorder lets through a
  commit without a change, a todo that depends on a later one and a bootstrap
  commit outside the branch, and the verifier refuses each; the verifier reads
  `cleanup-receipt.json` where the harness writes
  `operational-postgres-cleanup.json`.

## Proofs

Each theorem holds for every value of the constants that the module's `ASSUME`
allows, hence without the bounds of the runs where those are constants (any
number of workers, attempts, faults).

`ReservationLedgerProofs`: `TypeOK` is inductive by itself (`TypeCorrect`).
`SanctionsAgree` needs care with the clock: a restriction may run out between the
two maintenance steps, so the invariant asks for a sanction row only while the
restriction is in force (`RanOutStays`), and a revoked row has run out itself.
`BannedHoldNothing`: a day ahead is never closed, so a ban cancels it, and a
banned student reserves nothing. `FridayHorizon`: the horizon of a day is that of
the day after, as long as the week lasts. `IdentityStays` and `SeatsOverbookedUnseen` are
action properties from the types. The latter is for any row policies: a booking
that counts every row of its period leaves it within its capacity
(`FullCountFits`), an administrator's does, and a student's does unless some of the
seats are hidden from that student.

`SeatRegisterProofs`: `NoOverbooking` and `BannedUnseated`; students are finitely
many, for the cardinalities.

`ReservationTransactionsProofs`: the inductive `TransactionsInv` says what the
commits so far have done (`ResultInv`, `SnapshotInv`: a table differs from a
snapshot only by what was committed since), that endings and restrictions stand
(`EndedInv`, `HeededInv`), and that a refused attempt is paid for by a commit
(`ContentionInv`). That each of the seven requests answers soundly on any tables
is a lemma of its own (`OutcomeIsSound`). From it follow `OperationsHeed` and
`GivenUpUnderContention`, and the refinement `TransactionsImplementRegister`:
every step is one of the register's or a stutter. The register's theorem on banned students is then
read for the committed tables (`DatabaseBannedUnseated`). That on seats
(`NoOverbooking`) is not: it would be about transactions that count every row,
which the deployed role does not see.

`DiscordOutboxProofs`, for any number of workers, attempts, crashes, failures and
lapses: `TypeCorrect` needs `WellFormed` (the revision counts the acceptance and
the ending; a worker has read what it is about to use). `NeverPostedTwice` needs
`PostLeases`: a worker about to call Discord holds the row, which nobody can claim
from `POSTING`, and nothing was posted. `ShownIsTrue` needs `Current`: as long as
its claim and its revision stand, what a worker read is still so, since every
change of the reservation takes the claim away. `ReviewedStays` and
`NoPatchBehindTheFence` follow from the types; `PostsAreSingle` puts them together.
`ReviewSoundness`: a search has seen every message between its cursor and where it
began (`TrueCursor`), so that what it has not found by the last page is not there
unless it was posted since, and it still knows which match it has found
(`Sought`). It assumes that a message is reached within the pages a run may scan
(`PageCap <= MaxScans`).

`OperationsProofs`: `JobRowsSpeak`, where the row's count is kept for every way a
start or a finish may change it. `ListsAreSentOnce`: the lists posted, those about
to be and those that may be sent again are together at most one more than what was
asked or went wrong (`ListsAreAccounted`); and a run that looked for the list
within its week leaves a row, since no step takes one away. `ReceiptsTellTheTruth`:
what the clean-up has found remains true, because a process that ended does not return
(`FindingsHold`). `BoardIsOne`: the invariant is an account of debts. A message
that neither the row nor the holder of the claim has, a sync that goes on without
the claim, and a lease that is over while its sync may still post, are together at
most the faults (`DebtInv`); every step leaves the debts, exchanges one for
another, or is a fault (`WhatIsOwed`). It rests on the holder of the claim having
read the row as it is (`LeaseInv`). While there is no fault, only one sync works,
and a row that counts as synced tells the truth (`FaultlessInv`).
`EvidenceSoundness`: no step unmakes a commit or replaces a record, and unless
somebody rewrites a file, what was written stays as it was (`EvidenceGrows`).
Therefore a start, a manifest and a receipt that fit what there is keep fitting
(`StartFits`, `ManifestFits`, `ReceiptFits`), those that a recorder has made ready
and not yet written included; the history is closed under ancestors, with every
merge in the branch (`HistoryHolds`); and the only run of a todo has read all the
records there are (`RunFits`). Faults are in it: a manifest of a fault need not be
of its commit any more, but it still is of its start. `RecordedWorkComplies` has
four exceptions: the three that the recorder lets through, above, and a start
before what the todo depends on was integrated, since the recorder checks no
dependency.

Also in `OperationsProofs`: `ActivationOrder` (whoever was told it is active was
told the truth; an open write holds the shared lock that activation waits for, so
that one of the old contract under way after it looked at the marker in a snapshot
from before); `SweepSafety` (`LeasesInv`: a PATCH under way is known to the command;
`ClaimsInv`: a claim is its holder's as long as the revision is; `FaceInv`: what
the channel shows); `IndexesSafety` (`LockInv`: whoever is past the lock is alone;
`FoundInv`: what the runner has passed is valid unless an operator interfered).

`AccountsKept` follows from what a login carries between its two
transactions (`LoginsInv`), what every session was opened as (`HeldInv`), that no
number belongs to two people (`NumbersInv`), and that a policy in force was applied
from its own preview (`PolicyInv`).

`WebClientProofs`, the administrators' part. `BulkSoundness`: the notes of a
request are exactly what it signed in the books (`NotesAreTrue`), and the dialog's
preview is of the ids it would execute (`BoxIsTrue`), whatever list has been read
since. `SheetSoundness`: a save under way that carries an edit nothing else was
beside is stored later than anything the sheet was told (`SentIsTrue`), and the
saves that are not stored yet bound how new the stored value can still become.
`DeskSoundness`: a draft's reason is its own student's, an answer that is newer
than the details has asked for them again (`OwnDeedsAreShown`), and at most one
order is prompted (`OneDialog`). `ListsSoundness`: an answer holds every row of
its query between its cursor and its end that has not changed since
(`AnswerIsWhole`); the newest request continues the page that is shown unless a
refresh crossed it (`NewestIsTrue`); and the page an answer is added to holds the
rows of both (`PageIsWhole`), which is a lemma about the merge alone. The order of
the query on any finite set of places exists: a smallest set without one would
have a last place to take away. `LinksSoundness`: what the bar names is being
looked up or could not be read (`BarIsSought`), by reads that this console asked
for (`ReadsAreOurs`); a link that is being read has not opened its dialog yet
(`PromptsAreOwed`); and a dialog stands in its section with a reason typed for
what it shows (`DialogStands`).

The student's part. `PanelsSoundness`: nobody logs in before the page knows that
the former student is gone, a profile read since the account last changed hides a
ban as it must, and the answer to the newest request of the bell holds no fewer
notices than are shown. `PageSoundness`: the latest request for periods is of the
session of the browser (`CallBelongs`), an operation is sent in the session it was
begun in (`ActIsOwn`), and whatever the refresh after it is answered tells what it
has done (`AfterIsTrue`). The latter assumes that the sign for nobody is no
student.

Its requests. `TokensAndRatesHold`: a tab that lost its token
saw as many newer ones issued as are kept (`CsrfInv`). A rate limit counts in
fixed windows; a request may come late into a row that the purge has deleted and
begin it anew, so that what was admitted in one length of time lies in at most
three windows, each within the limit (`RatesInv`, `RuleInv`): the bound is three
times the limit, and TLC finds runs with more than twice.

`DiscordInteractionJobsProofs`: `HandshakeHolds`, `EffectsHold` and
`DrainedHolds` share the invariant `ButtonsInv`. A claim carries the number of the
attempt it is, and the row counts attempts, so that at most one run holds the last
claim of a job (`ClaimsInv`) and writes its outcome. That attempts stay bounded
although cron claims a job again after each lapse is an account again
(`AttemptsInv`): every claim beyond the last retry is paid for by a fault, and a
job in process that no intact run holds has a fault to spare. What a request was
told is kept although its deadline and its pipeline race (`AnswersInv`): a request
that was told no and still comes to activate finds its job no longer staged,
because the answer waited for the settlement of the job; and a handler whose
deadline passed before it staged settles and does not activate. An effect comes
with its receipt in one transaction, and a recorded success rests on a question
that stays decided (`RecordsInv`). The interactions are assumed finitely many, so
that those of a single claim can be counted.

`DiscordAdminCommandsProofs`: `CommandsHonesty`. Commands have no receipts, so the
invariant (`CommandsInv`) is again an account: every claim of a command beyond its
last retry is paid for by a fault (`Paid`), and as long as there was none the
claims, the results and what they report agree exactly (`FaultlessRun`,
`FaultlessRow`). A claim's number is at most the row's, so that a stale run writes
nothing; and only what the route acknowledged leaves `STAGED`.

Only model-checked: liveness, which is out of the prover's reach
(`EveryRequestIsAnswered`, `MessagesSettle`, `CommandsEnd`, `BoardCatchesUp`,
`KnownMessagesGo`, `NoListSlipsAway`, `WorkEnds`).

## Not modelled

- Stores for development and tests (`*-memory*.ts`, mocks): a single process, never
  deployed. Smoke tests that only observe.
- Cron's batches of twenty and the mapping of rate limits to waits in the outbox;
  rows of its former contract (`SENDING`, `SYNCING`).
- The clean-up of sessions, tokens, old reservations, sanctions and audit rows in
  maintenance, apart from what AccountSessions and RateLimits say of it.
- Statistics, exports and every other read that changes nothing; presentation; the
  service worker.
- The school's portal, Discord and PostgreSQL themselves: what they may answer is
  a choice of the model, marked external where it has a definition.

## Plan

1. Models: the retention of old reservations with the sanctions that name them;
   the outbox's batches.
2. Proofs: every safety property that a run checks is a theorem; those of new
   models follow the same way.
