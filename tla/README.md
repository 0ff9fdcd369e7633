# Verification of UTM-Data

TLA+ models of the UTM dashboard (Go, `src/`), the TLC runs that check them on
small instances and the theorems TLAPS proves about them for every instance.
`PROJECT.json` lists components, runs, mutants, hazards, findings and theorems,
and maps each definition to the lines of source it is translated from.

## 1. The system

One process serves a web page, polls УТМ devices over HTTP and sends Telegram
alerts before their certificates expire. Everything it knows is in one SQLite
file, reached over a single connection (`internal/db/db.go`), so each SQL
statement is atomic and nothing longer is: there are no transactions.

| component | state | operations | talks to |
|---|---|---|---|
| scheduler, polls (`internal/scheduler`) | one goroutine per poll or cycle | `RunCycle`, `PollOne`, `PollOneAsync` | store, device client |
| scheduler, alerts | locals of a run: lines per chat, alerts to mark | `CheckAndNotify`, `dueThresholds` | store, notifier |
| scheduler, time | `lastRunDate` (memory) | `Run`, `tick` | settings; starts `RunCycle` in a goroutine |
| store (`internal/store`, `db/schema.sql`) | tables `utms`, `telegram_chats`, `notifications_sent`, `settings` | one method per statement | SQLite |
| device client (`internal/utmclient`) | none | `FetchInfo`: 1 to 2 requests with fallbacks | devices |
| notifier (`internal/notifier`) | none; takes the settings it is given | `Send` | Bot API, proxy or relay |
| web (`internal/web`) | none | handlers that create, edit, delete, poll, import, export, save settings | store, scheduler, auth |
| sessions (`internal/auth`) | map of tokens (memory) | `Login`, `Logout`, `Authenticated` | web |
| migration (`internal/db`) | columns of the tables | `Open`, `migrate` | SQLite, before the server starts |
| process (`main.go`) | the context that SIGTERM cancels | start, stop | all |

What is hard here:

- **Read, wait, write back.** `PollOne` gets a copy of a row, waits for the
  device for up to a minute and writes every column back. Other polls and the
  edit form write the same row meanwhile.
- **Check, send, mark.** A run decides what is due, sends and only then records
  it. Runs overlap, fail and are cut short between any two of these steps.
- **Memory against the clock.** A daily slot runs if a tick sees its minute; what
  ran is remembered in memory and per slot.
- **Ids and references.** Rows are deleted while goroutines hold their ids.

What makes each part correct:

- polls: a row stores only what a device at its own address reported; a poll
  overwrites only what it determined; the failure streak counts failures in a
  row; whoever is added gets polled.
- alerts: scoped to their recipients, recorded only after being passed to the
  notifier, sent once, sent in the end if due, and within their window.
- schedule: a cycle per slot and day, no more and no fewer.
- lists of devices: a list is worked through whole although what is known is
  read once, what is added gets its first poll, a backup restores what it can.
- device client: what is determined belongs to the owner it is stored with, and
  only a poll that determined nothing is an error.
- sessions: exactly the current ones are let in, and nothing changes without one.
- migration: whichever version left the database and wherever a start was cut
  short, a server that answers has every column, and saved settings stay.

All hazards are in `PROJECT.json`, each at its line, with the properties that
cover it or the reason why none does.

## 2. Modules

| module | models | source |
|---|---|---|
| `Polling` | polls, cycles and the handlers on table `utms` | `scheduler.go` 93-178, `store.go` 42-184, `handlers.go` 87-281 |
| `Notification` | alerts and the handlers on the other tables | `scheduler.go` 180-293, `store.go` 233-298, `telegram.go` 35-77, `handlers.go` 309-350 and 450-491 |
| `AlertLedger` | the promise `Notification` implements | the same code, without its steps |
| `UtmTable` | the promise `Polling` implements | `schema.sql` 1-23, `store.go` 42-75 |
| `Schedule` | ticks, slots, poll times | `scheduler.go` 41-89, `handlers.go` 309-350 and 538-541 |
| `Registry` | lists of devices, import, export | `handlers.go` 87-281, 352-448, 530-536 |
| `Auth` | sessions | `auth.go` |
| `Migration` | the start on an old database | `schema.sql`, `db.go` 20-71 |
| `Dashboard` | `Registry`, `Auth` and `Migration` composed | `server.go` 92-104 and the handlers it wraps |
| `UtmClient` | one poll, request by request | `client.go` 91-342 |
| `DeviceAnswer` | the promise `UtmClient` implements | the same code, without its requests |
| `MCPolling`, `MCNotification`, `MCRegistry`, `MCDashboard`, `MCUtmClient` | symmetry, views and inputs for TLC | |
| `PollingProofs`, `NotificationProofs`, `AlertsOnceProofs`, `LedgerProofs`, `ScheduleProofs`, `RegistryProofs`, `DashboardProofs`, `UtmClientProofs` | theorems | |

The models meet where the code does. `Dashboard` composes three of them by
conjoining their actions: a request passes `requireAuth` before its handler runs,
and nothing is served before the migration is over. The others are joined by what
one takes for granted of the other:

- `Schedule` says when `RunCycle` starts; in `Polling` it may start at any time,
  also while another cycle runs.
- `CheckAndNotify`, the last call of `RunCycle`, is the first action of
  `Notification`, which may start it at any time for the same reason.
- `Notification!SetExpiry` is what the polls and the edit form of `Polling` do to
  the only columns alerts look at.
- `Polling!FetchInfo` takes any answer of which some columns are determined, or
  none and an error; that the requests of a poll come to one such answer is
  `KeepsAnswer` of `UtmClient`.
- `Polling` and `Registry` look at table `utms` from two sides: one has the
  columns a poll writes, the other the texts of addresses and the lists they come
  from.
- The first poll that `Registry!PollAdded` starts is `Polling!PollCreated`;
  `Registry` only asks whether it is started, `Polling` what it does.

### Polling

A goroutine (`pollers[p]`) is idle, has created a row and not read it back
(`created`), waits for a device (`fetch`) or for the UPDATE (`save`). It carries
`u`, the copy of the row it was started with, and `queue`, the rest of the list
a cycle has read (`ListUTMs` reads all rows at once). One action is one SQL
statement or one answer of a device:

- `CreateUTM`, `PollCreated`: `handleUTMCreate`, and each line of the bulk add and
  the import. The INSERT, and then `GetUTM` and `PollOneAsync`.
- `handleUTMPollNow`, `handleUTMUpdate`, `handleUTMDelete`: the other handlers.
- `RunCycle`, `FetchInfo`, `SaveUTMPollResult`, `SaveFails`: a poll, step by step.
  `Merge` is `PollOne`'s choice between the copy and the answer, `Polled` the
  UPDATE, whose streak columns are computed by SQL from the row itself.
- `Shutdown`, `Restart`, `Tick`: SIGTERM, the end of the process, the clock.
  A cycle may still be started while stopping: `select` picks any ready case.

Abstractions. `fsrar_id` is represented by the address of the device that
reported it, so that "whose answer is this" can be asked. The ten columns that
polls and the edit form both write follow one rule, and `Fields` stands for them.
The devices of a cycle are polled in any order (`ListUTMs` sorts them by expiry).
Labels, raw responses and error texts are left out. `hadAddr` is a history
variable: the addresses a row ever had.

`Copies(r)` are the copies of rows a goroutine holds. `PollsApart` (no two
goroutines hold a copy of one row) and `EditsApart` (no form is saved for a row
that one of them holds) are not properties of the code: they are what has to be
so for the promise of `PollOne`'s comment to hold, and the hypotheses of a
theorem. `KeepsTable` is the specification of `UtmTable`, of whose `utms` each
row is the address.

### UtmTable

Rows are inserted under the next id, at an address no other row has; a row moves
to another port of its host; a row is deleted. This is what `schema.sql` and the
UPDATE of `UpdateUTMMeta`, which has no column for the IP, promise to those who
hold an id while others change the table.

### Notification

A run (`runs[c]`) has read the settings (`list`) or is under way (`run`): `left`
are the devices it has yet to look at, `to` the recipients of the current one,
`todo` its alerts not yet looked up, `lines` the pairs of chat and alert
collected (`linesByChat`), `marks` is `toMark`. Each lookup, each digest and each
mark is a step. `failed` is the error path of a statement; `arrives` whether a
digest was delivered, which the code does not look at. `RowOf` maps an alert,
which has the time of the expiry, to the row, which has its date.
`handleUTMDelete` includes ON DELETE CASCADE.

`delivered`, `repeated`, `attempted`, `refused` and `hadScope` are history
variables, and so is `past` of a run: the record as it was when the run listed
the devices. A digest passed to `Send` is in `attempted` once a request was made
for it, and in `refused` if `buildRequest` returned an error before any was
(`telegram.go:42-45`); `PassedToSend` is both.
`NoOverlap` says that at most one run is under way; it is the hypothesis of two
theorems, since the code does not see to it. A
`Route` is the delivery mode and the address of the proxy or relay; `Refused` are
those `buildRequest` returns an error for before anything is sent. Time
is in units of which `DAY` make a day, so that expiries and clocks within a day
differ. `DaysLeft` truncates toward zero, as the conversion to `int` does. The
state after the last step of a run is folded into that step (`Settle`).
The wording of a digest, and errors of `GetSettings` and `ListUTMs` (the run does
not happen, as if it had not started) are left out.

### Schedule

`tick` compares both slots with the clock. A poll time is a minute and whether it
is written with the leading zero `time.Format` writes. `ticked` says whether a
tick was handled in this minute: `NextMinute` does not wait for it. `since` is
history: the minute of today from which on a slot had its value in a process that
was up and missed no tick. `NextTick`, the minute of the first tick that sees a
change made now, is bookkeeping for it and translates no code. Days are 24 hours:
changes of the local time zone are left out.

### AlertLedger

The life of an alert without runs, statements or digests in progress: announced
to chats, then put on record, then not announced again; its record goes only with
its device. `Notification!Ledger` instantiates it: a device whose id is above the
sequence is new, one whose row is gone is gone; `PassedToSend`, `delivered`,
`repeated` and `sent` are the four sets. `KeepsLedger` is its specification.

### Registry

A request (`requests[r]`) has been let in (`admitted`), is at a line of its list
(`lines`) or has inserted a row and not polled it yet (`poll`). It carries
`known`, the addresses read before the first line (none for the form, which
relies on UNIQUE alone), to which it adds what it inserts.

- `handleUTMCreate`, `handleUTMBulkAdd`, `handleUTMImport`: the list is taken and
  `ListUTMs` read. The form is a list of one line.
- `SkipLine`, `CreateUTM`, `InsertFails`, `PollAdded`, `Reply`: a line is passed
  over, inserted, refused; the new row is polled; the page is shown.
- `handleUTMUpdate`, `handleUTMDelete`, `handleUTMExport`: one statement each.
- `RegistryRestart`: the process ends in the middle of a list.

`PollAdded` is `GetUTM` and `PollOneAsync`. With `StoreErrors`, `GetUTM` may fail on
a row that is there: then no poll is started and the request goes on, as it does
when the row is gone. `polled` are the rows whose first poll was started,
`forgone` those of which it was not, because `GetUTM` failed or the process ended
in between; `RegistryRestart` puts a row into `forgone`, never into `polled`.

A line is the text of an address and of a port. `Accepted` is what each handler
makes of it, `PortOf` is `parsePortOrDefault`, `LineOf` the line an export writes,
`Header` the first one. `seen`, `lost`, `source`, `polled` and `forgone` are
history. What a request may be missing is `Excused`: nothing, or, with
`StoreErrors`, addresses whose INSERT failed. Labels are left out, and so are
lines that the CSV reader cannot split.

### Auth, Migration and Dashboard

`Auth` is `auth.Manager`: the map of tokens with the time each ends at, which a
request that presents an expired token takes out (`Present`). A restart empties
the map and may bring another password, or none, which lets everybody in.

`Migration` runs the statements of `schema.sql` and of `migrate` one by one
(`boot` counts them). `Columns`, what has to be there in the end, is written down
from `schema.sql` and not from the statements of `migrate`, so that one of them
that was forgotten would be missed. A database is new or has the first so many
of the columns that were added since; the row of settings is the default or a saved one.
`CREATE TABLE IF NOT EXISTS` gives a new table all columns of today; the error of
a column that is there is swallowed.

`Dashboard` puts the handlers of `Registry` and `handleSettingsSave` behind
`requireAuth`, which looks at a session once, when its request arrives. `Restart`
ends requests, sessions and the start at once.

### UtmClient

`FetchInfo` asks `/api/info/list`, then `/api/rsa` when the owner is known and
`/diagnosis` when it is not. Each request is a step that answers or fails, and
`Relicense` changes the owner between any two. What belongs together is told
apart by the owner: `Expiry` is the date of each owner's certificate, and
`info.org` the owner whose organisation was taken. `Instant` tells seconds,
milliseconds and microseconds by the size of a number; `Kilo` and `Limit` stand
for 1000 and 10^11. A row of `/api/rsa` names an owner in `pass` (pass_owner_id),
in `own` (Owner_ID), in both, which need not agree, or in none; its organisation
is that of its pass_owner_id, as `src/README.md:74-76` has it. `findRSARow` is the
choice of a row.

`DeviceAnswer` is the same poll without requests: it starts from nothing, the
owner and the date of that owner are determined in one piece, the organisation
after them, nothing is taken back, and the poll ends with an error and nothing,
or with an owner. `KeepsAnswer` is its specification.

The four dates follow one rule and are one date; INN, KPP, name and address come
from one row and are one field. Raw responses and error texts are left out.

## 3. Runs

| run | instance | what it shows |
|---|---|---|
| `polling_overlap` | 2 goroutines, 2 ids, 2 addresses, failing UPDATEs | `TypeOK`, `OnlyOwnDevice`, `StreakConsistent`, `StreakUnbroken`, and the refinement `KeepsTable` |
| `polling_sequential` | 1 goroutine, 2 ids, edits between polls, SIGTERM, 1 restart, fairness | `KeepsUndetermined`, `EventuallyPolled` |
| `polling_erases` | 2 goroutines, 1 id | violates `NeverErases` |
| `notification_overlap` | 2 runs, 2 ids, 1 chat, a relay without an address, failing statements, 1 restart | `TypeOK`, `RefIntegrity`, `ScopeRespected`, `MarkedWasAttempted`, `RecordEndsIt` |
| `notification_single` | 1 run at a time, 2 thresholds, 2 expiries on one date, a clock from a day and a half before the last to a day past the first, 1 restart, fairness | `OnceUnlessCutShort`, `AlertWindow`, `DueIsAttempted`, and the refinement `KeepsLedger` |
| `notification_repeat` | 2 runs | violates `OnlyOnce` |
| `notification_failed_send` | 1 run, a relay without an address | violates `SentMeansDelivered` |
| `schedule_cycles` | 3 minutes a day, 3 days, 1 restart a day | `TypeOK`, `OncePerDay`, `DailyCycle` |
| `schedule_unpadded` | the same | violates `AcceptedTimeRuns` |
| `registry` | 2 requests, 3 lists, 2 ids, an IP address and a host name, 2 ports, failing statements | `RegistryTypeOK`, `ListRegistered`, `AddedArePolled`, `RestoresIPs` |
| `dashboard` | 2 requests, 2 tokens, clock to 2, sessions of 1, 1 restart, failing statements, databases of every age | `TypeOK`, `SessionExact`, `ServesComplete`, `SettingsSurvive`, `NothingUnlessAdmitted` |
| `device_client` | 2 owners, up to 2 rows, every unit | `TypeOK`, `ErrorMeansNothing`, `DatesOfOwner`, `OrgOfOwner`, and the refinement `KeepsAnswer` |

Why the bounds are enough. Two goroutines are the fewest that overlap, and no
action involves more than one and the tables. Two ids let a row be deleted and
another created in its place; the mutant `NextFreeId` shows that the reuse of an
id would be seen. Two ports on one address let a device move and another take
its place. In `polling_sequential` two ids give a cycle something left after its
first device (mutant `ResumeOne`). Two expiries on one date and two units a day
are what the lookup by date needs (mutant `AlreadySentByExpiry`); they lie a day
and more after the clock starts, so that an alert can come too early
(`ReachedADayEarly`) as well as too late (`ReachedForEver`). Three days let
the memory of one day disturb the next (mutant `TriggeredEver`).

In `registry` the three lists are a host name, two ports of one address, and a
port that is no number before the default port written out; two requests work
through them at the same time, and an export may be imported. An INSERT and
`GetUTM` may fail at any line (`StoreErrors = TRUE`); that nothing is excused
when they do not is what the theorems say for `StoreErrors = FALSE`. In
`dashboard` the clock outlives a session, a second token is issued after the
first, and the restart may fall between any two statements of a start; its 0.8
million states leave room for one address only, which the properties of the whole
do not look at. In `device_client` the owners' dates are the first and the last
one whose unit can be told, so that every comparison is made at its edge, with
`Kilo` = 10; two rows are the fewest of which a first one is chosen, and of which
one names the owner in one field and the next in the other. Where a proof exists
the instance only serves to check the model before proving.

`notification_overlap`, `registry` and `dashboard` compare states by a `VIEW`, which
leaves out history that can make no property of the run false any more; whether a
property is false already is part of the view. In `dashboard` that is all history
of `Registry`, which only `registry` asks about. In `notification_overlap`, `repeated` is
read by no property; `delivered` and `sent` get only alerts that a run carries,
so that of `hadScope`, `PassedToSend` and `past`, which say of each alert whether it
may be delivered, recorded and collected, the alerts that some run carries or
may still collect are enough; and only those of registered devices, since an id
does not return and `RefIntegrity` keeps the others off the record. In
`registry`, a request asks of what was known, seen and lost only about the lines
it has yet to do and the file it imports.

`notification_overlap` and `notification_single` change no settings once a bot
token is saved, and the former takes back no expiry once set
(`ACTION_CONSTRAINT`): a run looks at them only when it starts and when it lists
the devices. Handlers are not fair, so that no action is cut off that fairness
asks for; the theorems have no such restriction. Where a run
allows it, goroutines, runs, requests, ports and chats are symmetric. No run
turns the deadlock check off: a handler, a repeated tick or the return of a poll
is always possible.

Fairness. `Polling!Fairness`: a goroutine that can go on does, because each
request ends by its timeout and each statement returns; a process told to stop
stops; and cycles start again and again (strong fairness, since the goroutine a
cycle runs in may be busy in the model, where their number is bounded, and is
never refused by Go). What starts them is `tick`, and so `EventuallyPolled` and
`DueIsAttempted` presume a slot that runs. `schema.sql` sets one by `DEFAULT`,
and `DailyCycle` says of it that no day passes without its cycle; but the
settings page also takes times that never run (finding 4), and with such a time
in the first slot and none in the second no cycle runs any more. `Notification!Fairness`: a run that can go on does, and runs are started
again and again. Handlers, the clock, crashes and SIGTERM are not fair: nobody
has to click. `DueIsAttempted` assumes that statements do not fail for ever
(`StoreErrors = FALSE`).

`QuietSpec` is the part of `Polling` where the rows are edited between polls
only. It is what `PollOne`'s comment takes for granted; `polling_erases` shows
what happens otherwise.

`Schedule`, `Registry`, `Auth`, `Migration` and `UtmClient` have safety
properties only. `DailyCycle` says what would be a liveness property of a clock
that cannot be stopped: no day ends without the cycle.

Operators marked `faulty` in the modules are not used by the specifications. Each
is a definition changed the way a slip in the code would change it, and stands in
for that definition in a mutant of `PROJECT.json`: the run must then find its
property violated, which shows that the property can fail on these instances.

## 4. Findings

Each violation run shows one disagreement of the code with its own words:

1. `NeverErases`: overlapping polls of one device, or an edit during a poll, and
   the stale copy erases what was stored (`scheduler.go:121-122` promises not).
2. `OnlyOnce`: two overlapping runs, or a crash before the marks, send an alert
   twice (`scheduler.go:265-266`). With the second slot at the same time as the
   first, runs overlap every day. Alerts on devices deleted during a run are
   excepted: their record goes with them.
3. `SentMeansDelivered`: a digest that failed is recorded as sent and never sent
   again (`store.go:273-274`).
4. `AcceptedTimeRuns`: the settings page accepts `9:00`, which no clock is ever
   formatted to; the slot silently never runs.

Disagreements with a document that the models contain and no run of their own
shows; the properties that touch them name them:

- Alerts are promised before the expiry (`src/README.md:7-8`, `:36`). Up to a day
  after it 0 days are left, and alerts are still sent: `AlertWindow` allows that
  day and would be false without it.
- The row of `/api/rsa` whose `pass_owner_id` is the owner is to be taken
  (`src/README.md:76-78`), and `Owner_ID` is a fallback (`client.go:241-242`).
  `findRSARow` takes the first row that matches in either field: `OrgOfOwner`
  exempts the row that names the owner in `Owner_ID` only, and would be false
  without the exemption.

And disagreements in words only, about code the models follow:

- `src/README.md:105-109` and `store.go:62` describe a search for dates on the
  device's `/home` page; `client.go` makes no such request.
- `scheduler.go:90-92` has `RunCycle` used by the button and after a device was
  added; both use `PollOneAsync`, which does not check alerts either.
- `models.go:49` lets an empty `PollTime1` disable its slot; the settings page
  refuses it (`handlers.go:322-325`), so only the second slot can be disabled.

Met on the way, and part of the models rather than findings, since no document
clearly promises otherwise:

- A stopping process stores its cancelled polls as failures of the devices.
- A time set after the slot ran today is skipped today; `DailyCycle` says what
  remains.
- An import drops the host names a backup has, which the form takes.
- When `/api/rsa` fails after a device changed hands, the new owner is stored
  next to the old organisation, as `client.go:56-58` leaves it to its callers.

## 5. Theorems

Assumptions: only those named in the modules (`PollingAssumption`,
`NotificationAssumption`, `ScheduleAssumption`, `RegistryAssumption`,
`AuthAssumption`, `MigrationAssumption`, `ClientAssumption`), which say that
bounds are numbers, that NULL, "no row" and the like differ from data, and, of
`UtmClient`, that a date lies where its unit can be told. TLC evaluates them in
the runs. A further hypothesis is part of the theorem that needs it. Every
theorem holds for any number of devices, goroutines, chats, requests, restarts.

`PollingProofs`:

- `TypeCorrect`: `TypeOK` is inductive.
- `PollsStayHome`: `OnlyOwnDevice`. Not inductive alone: what is written comes
  from goroutines. `Provenance` adds that every copy a goroutine holds has an id
  handed out before (`lastId`) and an address that row had, that its `fsrar` is
  of that row, and so is every answer waiting to be saved. AUTOINCREMENT is what
  makes it work: a new row gets an id no copy has.
- `BadgeConsistent`: `StreakConsistent`. `Streak` adds that no time in a row is
  later than the clock, without which the start of a streak could come after it.
- `StreaksUnbroken`: the action property `StreakUnbroken`, from `TypeOK` and
  `Streak`: SQL computes the streak from the row, not from the copy, so that
  overlap does no harm.
- `PollsApartKeep`: `KeepsUndetermined` in every behaviour of `Spec` that keeps
  `PollsApart` and `EditsApart`, with any number of goroutines that poll
  different devices at the same time. The invariant `Fresh`: the copies a
  goroutine holds are of different devices and say what their rows say, for a
  poll writes its own row only, and nobody else writes a row one holds a copy
  of. `polling_erases` violates the promise without the hypotheses.
- `TableKept`: `KeepsTable`, with no hypothesis. A saved poll, the step one would
  worry about, does not touch the address (`SaveTable`); an id that is inserted
  is new because it is the next one of the sequence.

`NotificationProofs`:

- `TypeCorrect`: `TypeOK` is inductive.
- `ReferencesHold`: `RefIntegrity`, inductive with `TypeOK`: the foreign key
  refuses the mark of a device that is gone, the cascade takes the rest.
- `ScopesHold`: `ScopeRespected`. `Scoped` adds that each chat's scope is one it
  had, and that lines collected, and pairs of recipient and alert still to come,
  are for chats that had the scope.
- `RecordsAreEarned`: `MarkedWasAttempted`. `Attempted` adds that each alert to
  mark was passed to `Send` or is in a line still to be sent, for which
  alerts must only be collected for devices with recipients.
- `RecordsLeftTheProcess`: if operators save no route that `buildRequest` refuses,
  a request was made for every alert on record. `notification_failed_send` shows
  that the hypothesis is needed.
- `AlertsInWindow`: `AlertWindow`. `Timely` adds the window to the alerts still to
  be looked up; `Quotient` and `DaysLeftWindow` are the arithmetic of a quotient
  that is truncated toward zero, for every length of a day.

`AlertsOnceProofs`:

- `AlertsOnce`: `OnceUnlessCutShort` in every behaviour in which at most one run
  is under way (`[]NoOverlap`), if no statement fails. The invariant says that
  what a chat received is on record, or is still to be marked by the run under
  way and no longer in its lines; that a run looks at a device once, so that two
  of its alerts have different rows; and that what it has collected is not on
  record before it marks. The hypotheses are needed: `notification_repeat`
  violates the same property without the first; and a mark that fails leaves no
  record of an alert that was delivered.

`LedgerProofs`:

- `RecordsEndIt`: `RecordEndsIt`, with no hypothesis: what the code does
  guarantee when runs overlap. `Remembers` adds that what was on record when a
  run began still is, unless its device is gone; that what the run carries is
  about ids handed out, so that no new device can be meant by it; and that none
  of the alerts it is to mark was on record then.
- `LedgerKept`: `KeepsLedger`, the refinement, in every behaviour that keeps
  `NoOverlap`; statements may fail and restarts may cut runs short. `Alone` says
  that until a run has sent its last digest nothing is on record that was not
  there when it began, so that with `Remembers` no digest repeats what is on
  record. Each action is then a step of the ledger or none; that a mark is
  announced before it is recorded is `RecordsAreEarned`. `LedgerKeptByOne` is
  the case `notification_single` checks, one goroutine.

`ScheduleProofs`: `TypeCorrect`; `CyclesBounded` (`OncePerDay`) from `Remembered`:
a slot ran no more often than the process was started, and less often as long as
the process of now has not triggered it; `CyclesHappen` (`DailyCycle`) from
`RanWhenReached`: a slot whose minute was reached since it had its value ran.

`RegistryProofs`: `RegistryTypeCorrect`, `ListsRegistered`, `AddedPolled`,
`BackupRestores`, from one invariant: what is registered is known to a request at
work or was seen by it (`RegisteredSeen`), the row about to be polled is of a known
line (`PolledKnown`), and a file has a line for each address it was made of
(`FilesHold`). `RoundTrip` is the lemma that a line written by the export is read
back as the address it was made of, the default port included. What these
except is part of the properties: addresses whose INSERT failed and rows `GetUTM`
failed on, neither of which there is with `StoreErrors = FALSE`, and rows whose
request the end of the process cut off before their first poll.

`DashboardProofs`:

- `RegistryOfDashboard`, `MigrationOfDashboard`, `AuthOfDashboard`: the whole
  implements each of its parts, so that what is proved of a part holds of it.
  `DevicesKept` states it of the list of devices: the whole has the three
  invariants of `Registry`.
- `TypeCorrect`; `SessionsExact` from `Entries` (an entry of the map is of a
  token that is not closed and ends `TTL` after it was issued; a token without an
  entry is closed or its time is over);
  `OnlyAdmittedChange`, an action property; `ServesWhole` from `Begun` (what the
  statements done so far leave behind, whatever was there before);
  `SettingsKept`. `ColumnsAre` is the lemma that the statements of `migrate` add
  exactly the columns of `schema.sql` that older versions lacked.

`UtmClientProofs`: `UnitsTold` (the unit of a number is told right for every
`Kilo`, `Limit` and date between them), `TypeCorrect`, `ErrorsMeanNothing`,
`DatesBelong`, `OrganisationsBelong`, from `Progress`: what is determined when
each request is waited for; `RowFound` says which rows `findRSARow` returns.
`AnswerKept` is `KeepsAnswer`, the refinement, from
the same invariant: the answer of `/api/info/list` or of `/diagnosis` is the one
step that determines an owner, and a request that fails while the poll goes on
is no step of `DeviceAnswer`.

Only model-checked: `EventuallyPolled` and `DueIsAttempted`, since liveness under
fairness is out of the prover's reach. Of the four properties that are violated,
what holds in their place is `PollsApartKeep` for `NeverErases`, `RecordsEndIt`
and `AlertsOnce` for `OnlyOnce`, `RecordsAreEarned` for `SentMeansDelivered`, and
`CyclesHappen`, which is about times written HH:MM, for `AcceptedTimeRuns`.

## 6. Plan

Done: the modules above, each with its proofs, in the order `Polling`,
`Notification`, `Schedule`, `Registry`, `UtmClient`, `Auth`, `Migration`,
`Dashboard`, `AlertLedger`, `UtmTable`, `DeviceAnswer`.

What could come next: a composition of `Schedule` with the starts of `Polling`
and `Notification`, in which the overlap of cycles follows from the poll times
instead of being allowed at any time; and `AlertsOnce` with failing statements,
of which only a failing lookup and a failing mark differ.

## 7. Not modelled

- Presentation: templates, static pages, flash messages, the wording of digests,
  `PrettyOrgName`, labels of devices and chats, raw responses kept for display.
- Configuration: read once from the environment, before anything starts.
- The inside of the notifier: URLs, JSON, proxy dialers. `SendToAll`, which only
  the test message uses, changes no state.
- Sessions: the comparison of passwords and the attributes of the cookie.
- Lists: addresses in IPv6 notation and the split of a line at its last colon; no
  such device could be polled, as `client.go:111` writes the address into the URL
  without brackets.
- Reads: the index page, the settings page and the forms.
- Changes of the local time zone, and a clock that is set back.
