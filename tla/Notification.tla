----------------------------- MODULE Notification -----------------------------
(***************************************************************************)
(* Expiry alerts: CheckAndNotify, the last step of every polling cycle.    *)
(*                                                                         *)
(* A run reads the settings, the rows of the devices, then for each device *)
(* its recipients and, for each alert that is due, whether it was sent     *)
(* already; it sends one digest per recipient and only then records what   *)
(* it alerted about.  Each of these is a statement of its own on the one   *)
(* connection to the database, or a call of the Bot API; nothing else      *)
(* keeps two runs, or a run and the handlers of the settings page, apart.  *)
(* The two daily slots and every tick start RunCycle in a goroutine of its *)
(* own, so runs may overlap.                                               *)
(*                                                                         *)
(* Time is counted in units of which DAY make a day.                       *)
(***************************************************************************)
EXTENDS Integers

CONSTANTS
    Certs,         \* the kinds of certificates (models.CertType)
    Thresholds,    \* models.NotificationThresholds, in days
    DAY,           \* units of time in a day
    Expiries,      \* expiry times a poll or the edit form may store
    ChatIds,       \* Telegram chats
    Routes,        \* delivery settings operators may save
    Runs,          \* goroutines in CheckAndNotify at a time (a bound)
    Absent,        \* NULL
    NoRow,         \* no row with this key
    MaxId,         \* bound on the ids AUTOINCREMENT hands out
    MaxNow,        \* bound on the clock
    MaxRestarts,   \* bound on the restarts of the process
    StoreErrors    \* TRUE: a statement of a run may fail

Ids == 1..MaxId
Scopes == Ids \cup {Absent}       \* telegram_chats.utm_id; NULL: all devices
\* telegram_mode and the address of the proxy or the relay.
Route == [mode: {"direct", "socks5", "relay"}, address: {"none", "malformed", "good"}]

Settings == [token: BOOLEAN, route: Routes]

\* A row of table utms, as far as alerts go: when its certificates expire.
Row == [Certs -> Expiries \cup {Absent}]

ASSUME NotificationAssumption ==
    /\ Thresholds \subseteq Nat
    /\ Expiries \subseteq Nat
    /\ DAY \in Nat \ {0}
    /\ MaxId \in Nat /\ MaxNow \in Nat /\ MaxRestarts \in Nat
    /\ Routes \subseteq Route
    /\ StoreErrors \in BOOLEAN
    /\ Absent \notin Int
    /\ NoRow \notin Row \cup Scopes

\* sentKey: what a run means to alert about.
Alert == [utm: Ids, cert: Certs, expiry: Expiries, threshold: Thresholds]

\* A row of table notifications_sent, which stores the date of the expiry.
SentRow == [utm: Ids, cert: Certs, date: Nat, threshold: Thresholds]
RowOf(a) == [utm |-> a.utm, cert |-> a.cert,
             date |-> a.expiry \div DAY, threshold |-> a.threshold]

VARIABLES
    utms,        \* table utms: the row of each id, or NoRow
    lastId,      \* the AUTOINCREMENT sequence of table utms
    chats,       \* table telegram_chats: the scope of each chat, or NoRow
    sent,        \* table notifications_sent
    settings,    \* table settings
    now,         \* the wall clock
    runs,        \* where each goroutine is in CheckAndNotify
    restarts,    \* restarts so far
    delivered,   \* history: <<chat, row>> of every alert a chat received
    repeated,    \* history: those a chat received more than once
    attempted,   \* history: alerts of the digests a request was made for
    refused,     \* history: alerts of the digests buildRequest refused
    hadScope     \* history: every scope a chat ever had

tables == <<utms, lastId, chats, sent, settings>>
history == <<delivered, repeated, attempted, refused, hadScope>>
vars == <<tables, now, runs, restarts, history>>

\* Alerts of the digests a run has called Send with.
PassedToSend == attempted \cup refused

-----------------------------------------------------------------------------
(* A run: settings is read first; left are the devices still to look at,   *)
(* to and todo the recipients of the current one and its alerts still to   *)
(* check, lines the lines collected for each chat, marks toMark; past is   *)
(* history: what was on record when the run listed the devices.            *)

Idle == [pc |-> "idle"]
Listing(st) == [pc |-> "list", settings |-> st]

Run == [pc: {"run"}, settings: Settings, now: Nat,
        left: SUBSET [id: Ids, row: Row],
        to: SUBSET ChatIds, todo: SUBSET Alert,
        lines: SUBSET (ChatIds \X Alert), marks: SUBSET Alert,
        past: SUBSET SentRow]

Goroutine == [pc: {"idle"}] \cup [pc: {"list"}, settings: Settings] \cup Run

Live == {id \in Ids : utms[id] # NoRow}

\* A run with nothing left to do is over.
Settle(r) ==
    IF r.left = {} /\ r.todo = {} /\ r.lines = {} /\ r.marks = {} THEN Idle ELSE r

TypeOK ==
    /\ utms \in [Ids -> Row \cup {NoRow}]
    /\ lastId \in 0..MaxId
    /\ chats \in [ChatIds -> Scopes \cup {NoRow}]
    /\ sent \subseteq SentRow
    /\ settings \in Settings
    /\ now \in Nat
    /\ runs \in [Runs -> Goroutine]
    /\ restarts \in Nat
    /\ delivered \subseteq ChatIds \X SentRow
    /\ repeated \subseteq delivered
    /\ attempted \subseteq SentRow /\ refused \subseteq SentRow
    /\ hadScope \in [ChatIds -> SUBSET Scopes]

Init ==
    /\ utms = [id \in Ids |-> NoRow] /\ lastId = 0
    /\ chats = [c \in ChatIds |-> NoRow]
    /\ sent = {}
    /\ settings \in [token: {FALSE}, route: {x \in Routes : x.mode = "direct"}]
    /\ now = 0
    /\ runs = [c \in Runs |-> Idle]
    /\ restarts = 0
    /\ delivered = {} /\ repeated = {} /\ attempted = {} /\ refused = {}
    /\ hadScope = [c \in ChatIds |-> {}]

-----------------------------------------------------------------------------
(* What the handlers and the polls do to the tables a run reads.           *)

CreateUTM ==
    /\ lastId < MaxId
    /\ lastId' = lastId + 1
    /\ utms' = [utms EXCEPT ![lastId'] = [c \in Certs |-> Absent]]
    /\ UNCHANGED <<chats, sent, settings, now, runs, restarts, history>>

\* The expiry a poll (SaveUTMPollResult) or the edit form (UpdateUTMMeta) saves.
SetExpiry(id, cert, expiry) ==
    /\ id \in Live
    /\ utms' = [utms EXCEPT ![id][cert] = expiry]
    /\ UNCHANGED <<lastId, chats, sent, settings, now, runs, restarts, history>>

DeleteWithoutCascade(id) ==   \* faulty: foreign_keys(1) is not set
    /\ id \in Live
    /\ utms' = [utms EXCEPT ![id] = NoRow]
    /\ UNCHANGED <<lastId, chats, sent, settings, now, runs, restarts, history>>

\* ON DELETE CASCADE takes the rows of the other tables that name the device.
handleUTMDelete(id) ==
    /\ id \in Live
    /\ utms' = [utms EXCEPT ![id] = NoRow]
    /\ chats' = [c \in ChatIds |-> IF chats[c] = id THEN NoRow ELSE chats[c]]
    /\ sent' = {s \in sent : s.utm # id}
    /\ UNCHANGED <<lastId, settings, now, runs, restarts, history>>

\* INSERT OR IGNORE: a chat that is in the table keeps the scope it has.  A
\* device that does not exist is refused by the foreign key.
handleTelegramChatAdd(c, scope) ==
    /\ chats[c] = NoRow
    /\ scope \in Live \cup {Absent}
    /\ chats' = [chats EXCEPT ![c] = scope]
    /\ hadScope' = [hadScope EXCEPT ![c] = @ \cup {scope}]
    /\ UNCHANGED <<utms, lastId, sent, settings, now, runs, restarts,
                   delivered, repeated, attempted, refused>>

handleTelegramChatDelete(c) ==
    /\ chats[c] # NoRow
    /\ chats' = [chats EXCEPT ![c] = NoRow]
    /\ UNCHANGED <<utms, lastId, sent, settings, now, runs, restarts, history>>

handleSettingsSave(st) ==
    /\ settings' = st
    /\ UNCHANGED <<utms, lastId, chats, sent, now, runs, restarts, history>>

-----------------------------------------------------------------------------
(* The steps of a run.                                                     *)

\* GetSettings; without a bot token the run is over at once.
CheckAndNotify(c) ==
    /\ runs[c] = Idle
    /\ settings.token
    /\ runs' = [runs EXCEPT ![c] = Listing(settings)]
    /\ UNCHANGED <<tables, now, restarts, history>>

\* ListUTMs and time.Now.
ListUTMs(c) ==
    /\ runs[c].pc = "list"
    /\ runs' = [runs EXCEPT ![c] =
                  Settle([pc |-> "run", settings |-> runs[c].settings, now |-> now,
                          left |-> {[id |-> id, row |-> utms[id]] : id \in Live},
                          to |-> {}, todo |-> {}, lines |-> {}, marks |-> {},
                          past |-> sent])]
    /\ UNCHANGED <<tables, now, restarts, history>>

EveryRecipient(id) == {c \in ChatIds : chats[c] # NoRow}   \* faulty: no WHERE

\* ListTelegramChatsForUTM.
Recipients(id) == {c \in ChatIds : chats[c] \in {Absent, id}}

\* int(expiry.Sub(now).Hours() / 24): the conversion drops the fraction, so
\* the day after the expiry counts as 0 like the day before it.
DaysLeft(expiry, t) ==
    IF expiry >= t THEN (expiry - t) \div DAY ELSE -((t - expiry) \div DAY)

ReachedBefore(id, cert, expiry, t) ==   \* faulty: < for <=
    {[utm |-> id, cert |-> cert, expiry |-> expiry, threshold |-> days] :
        days \in {d \in Thresholds : DaysLeft(expiry, t) \in 0..(d - 1)}}

ReachedADayEarly(id, cert, expiry, t) ==   \* faulty: one day too many
    {[utm |-> id, cert |-> cert, expiry |-> expiry, threshold |-> days] :
        days \in {d \in Thresholds : DaysLeft(expiry, t) \in 0..(d + 1)}}

ReachedForEver(id, cert, expiry, t) ==   \* faulty: daysLeft < 0 is not looked at
    {[utm |-> id, cert |-> cert, expiry |-> expiry, threshold |-> days] :
        days \in {d \in Thresholds : DaysLeft(expiry, t) <= d}}

\* dueThresholds up to the query: the thresholds reached at time t.
Reached(id, cert, expiry, t) ==
    {[utm |-> id, cert |-> cert, expiry |-> expiry, threshold |-> days] :
        days \in {d \in Thresholds : DaysLeft(expiry, t) \in 0..d}}

Candidates(u, t) ==
    UNION {IF u.row[cert] = Absent THEN {} ELSE Reached(u.id, cert, u.row[cert], t) :
              cert \in Certs}

\* The next device of the list (taken in any order) and its recipients; it is
\* skipped when it has none, or when they cannot be read.
ListTelegramChatsForUTM(c) ==
    /\ runs[c].pc = "run" /\ runs[c].todo = {}
    /\ \E u \in runs[c].left, failed \in BOOLEAN :
          /\ failed => StoreErrors
          /\ LET r  == runs[c]
                 to == IF failed THEN {} ELSE Recipients(u.id) IN
             runs' = [runs EXCEPT ![c] =
                        Settle([r EXCEPT
                          !.left = @ \ {u},
                          !.to = to,
                          !.todo = IF to = {} THEN {} ELSE Candidates(u, r.now)])]
    /\ UNCHANGED <<tables, now, restarts, history>>

AlreadySentByExpiry(a) == a \in sent   \* faulty: compares times with dates

AlreadySent(a) == RowOf(a) \in sent

\* An alert that was sent already, or of which that cannot be told, is
\* skipped; any other is a line for every recipient and will be marked.
NotificationAlreadySent(c) ==
    /\ runs[c].pc = "run"
    /\ \E a \in runs[c].todo, failed \in BOOLEAN :
          /\ failed => StoreErrors
          /\ LET r == [runs[c] EXCEPT !.todo = @ \ {a}] IN
             runs' = [runs EXCEPT ![c] =
                        Settle(IF failed \/ AlreadySent(a) THEN r
                               ELSE [r EXCEPT !.lines = @ \cup (r.to \X {a}),
                                              !.marks = @ \cup {a}])]
    /\ UNCHANGED <<tables, now, restarts, history>>

Collected(r) == r.pc = "run" /\ r.left = {} /\ r.todo = {}

\* buildRequest needs an address to go through a proxy or a relay.
Refused(route) == route.mode # "direct" /\ route.address # "good"

\* The digest of one chat: a route that is refused ends Send before a request
\* is made; a request may be delivered, and whether it was is not looked at.
Send(c, chat, arrives) ==
    LET r      == runs[c]
        digest == {l \in r.lines : l[1] = chat}
        rows   == {<<chat, RowOf(l[2])>> : l \in digest} IN
    /\ Collected(r)
    /\ digest # {}
    /\ arrives => ~Refused(r.settings.route)
    /\ runs' = [runs EXCEPT ![c].lines = @ \ digest]
    /\ IF Refused(r.settings.route)
       THEN refused' = refused \cup {l[2] : l \in rows} /\ UNCHANGED attempted
       ELSE attempted' = attempted \cup {l[2] : l \in rows} /\ UNCHANGED refused
    /\ IF arrives
       THEN /\ delivered' = delivered \cup rows
            /\ repeated' = repeated \cup (rows \cap delivered)
       ELSE UNCHANGED <<delivered, repeated>>
    /\ UNCHANGED <<tables, now, restarts, hadScope>>

MarkTime(a) == sent \cup {a}   \* faulty: the time of the expiry, not its date

\* INSERT OR IGNORE; a device that is gone violates the foreign key.
Marked(a) == IF a.utm \in Live THEN sent \cup {RowOf(a)} ELSE sent

AllCollected(r) == Collected(r)   \* faulty: marks before it sends

AllSent(r) == Collected(r) /\ r.lines = {}

\* toMark once every digest was sent; an error is logged.
MarkNotificationSent(c) ==
    /\ AllSent(runs[c])
    /\ \E a \in runs[c].marks, failed \in BOOLEAN :
          /\ failed => StoreErrors
          /\ sent' = IF failed THEN sent ELSE Marked(a)
          /\ runs' = [runs EXCEPT ![c] = Settle([runs[c] EXCEPT !.marks = @ \ {a}])]
    /\ UNCHANGED <<utms, lastId, chats, settings, now, restarts, history>>

-----------------------------------------------------------------------------
Restart ==
    /\ restarts < MaxRestarts
    /\ restarts' = restarts + 1
    /\ runs' = [c \in Runs |-> Idle]
    /\ UNCHANGED <<tables, now, history>>

Tick ==
    /\ now < MaxNow
    /\ now' = now + 1
    /\ UNCHANGED <<tables, runs, restarts, history>>

Step(c) ==
    \/ ListUTMs(c) \/ ListTelegramChatsForUTM(c) \/ NotificationAlreadySent(c)
    \/ \E chat \in ChatIds, arrives \in BOOLEAN : Send(c, chat, arrives)
    \/ MarkNotificationSent(c)

Web ==
    \/ CreateUTM
    \/ \E id \in Ids, cert \in Certs, expiry \in Expiries \cup {Absent} :
          SetExpiry(id, cert, expiry)
    \/ \E id \in Ids : handleUTMDelete(id)
    \/ \E c \in ChatIds, scope \in Scopes : handleTelegramChatAdd(c, scope)
    \/ \E c \in ChatIds : handleTelegramChatDelete(c)
    \/ \E st \in Settings : handleSettingsSave(st)

Next ==
    \/ \E c \in Runs : CheckAndNotify(c) \/ Step(c)
    \/ Web
    \/ Restart \/ Tick

Spec == Init /\ [][Next]_vars

\* Every call a run makes returns (HTTP and SQLite have timeouts), and polling
\* cycles come again and again (module Schedule).
Fairness == \A c \in Runs : WF_vars(CheckAndNotify(c)) /\ WF_vars(Step(c))

FairSpec == Spec /\ Fairness

-----------------------------------------------------------------------------
(* The abstract specification: ids above the sequence are still to come.   *)

Ledger == INSTANCE AlertLedger WITH
    Devices   <- Ids,
    Chats     <- ChatIds,
    Alerts    <- {RowOf(a) : a \in Alert},
    device    <- [id \in Ids |-> IF id > lastId THEN "new"
                                 ELSE IF id \in Live THEN "live" ELSE "gone"],
    announced <- PassedToSend,
    told      <- delivered,
    retold    <- repeated,
    recorded  <- sent

-----------------------------------------------------------------------------
(* Properties.                                                             *)

\* At most one run has listed the devices and is not over.
NoOverlap ==
    \A c, e \in Runs : runs[c].pc = "run" /\ runs[e].pc = "run" => c = e

\* Runs that do not overlap keep the ledger of alerts: also when a restart, a
\* failing statement or the deletion of a device cuts one short, what is on
\* record was passed to Send before and is never passed to it again ("each still
\* only once", comment of dueThresholds, scheduler.go:262-266).
KeepsLedger == Ledger!Spec

\* Whatever runs and handlers do to each other, chats and alerts on record
\* name a device that is registered, and no run resurrects a deleted one.
RefIntegrity ==
    /\ \A s \in sent : s.utm \in Live
    /\ \A c \in ChatIds : chats[c] \in Live \cup {Absent, NoRow}

\* "Different clients' contacts never see each other's alerts" (comment of
\* CheckAndNotify): a chat is told of a device only if it was registered for
\* it, or for all, at some time, however the tables change during the run.
ScopeRespected ==
    \A d \in delivered : hadScope[d[1]] \cap {Absent, d[2].utm} # {}

\* No crash, failing statement, overlapping run or deleted device puts an alert
\* on record that no run sent: each alert on record was in a digest for which a
\* request was made, or which buildRequest refused under the settings its run
\* had read.  The second case is the only one in which an alert on record never
\* left the process; that it is recorded at all is a finding
\* (SentMeansDelivered).
MarkedWasAttempted == sent \subseteq PassedToSend

\* "All missed thresholds ... are sent (each still only once)" (comment of
\* dueThresholds, scheduler.go:262-266), as long as the device is registered:
\* its deletion takes the record of what was sent with it, which a run that
\* has listed the device before may notice.
OnlyOnce == \A d \in repeated : d[2].utm \notin Live

\* That much holds of runs that do not overlap, as long as none is cut short
\* and none of its statements fails: also when a poll moves the expiry within
\* its date, or moves it away and back.
OnceUnlessCutShort == restarts = 0 => OnlyOnce

\* "Was not already sent" (comment of CheckAndNotify, scheduler.go:180-182),
\* whatever else happens: an alert that was on record when a run began is not
\* in its digests, although other runs overlap with it, statements fail, the
\* process is restarted, and devices come and go.  A repetition is therefore
\* the work of two runs that overlap, or follows a run that was cut short.
RecordEndsIt ==
    \A c \in Runs : runs[c].pc = "run" =>
        \A l \in runs[c].lines : l[2].utm \in Live => RowOf(l[2]) \notin runs[c].past

\* "Was already sent" (comment of NotificationAlreadySent, store.go:273-276):
\* what is on record as sent was received by someone.
SentMeansDelivered == \A s \in sent : \E c \in ChatIds : <<c, s>> \in delivered

\* Alerts are sent once 30, 10, 5, 2 and 1 days are left (models.go:79-81): a
\* run prepares none before the last day of its threshold, and none for a
\* certificate that expired a day ago or earlier.  README.md:7-8 and :36 promise
\* more, that all alerts come before the expiry; the code does not keep that: a
\* certificate that expired less than a day ago still has 0 days left (DaysLeft)
\* and is alerted about.
AlertWindow ==
    \A c \in Runs : runs[c].pc = "run" =>
        \A a \in runs[c].marks :
           /\ a.expiry < runs[c].now + (a.threshold + 1) * DAY
           /\ runs[c].now < a.expiry + DAY

\* An alert that should be sent and was not.
Due(a) ==
    /\ a.utm \in Live /\ utms[a.utm][a.cert] = a.expiry
    /\ DaysLeft(a.expiry, now) \in 0..a.threshold
    /\ Recipients(a.utm) # {}
    /\ settings.token
    /\ RowOf(a) \notin sent

\* An alert that is due and stays so is passed to Send and put on record in the
\* end (MarkedWasAttempted: in this order), also when runs are cut short by a
\* restart.  That cycles come again, which this rests on, takes a slot that runs
\* (AcceptedTimeRuns in Schedule).
DueIsAttempted == \A a \in Alert : Due(a) ~> ~Due(a)

=============================================================================
