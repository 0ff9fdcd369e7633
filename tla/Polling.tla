------------------------------- MODULE Polling -------------------------------
(***************************************************************************)
(* Polling of the registered UTM devices and the rows of table utms.       *)
(*                                                                         *)
(* Every poll reads a row, talks to the device for up to 20 seconds with   *)
(* no lock held, and then writes the whole row back.  Polls run in         *)
(* goroutines of their own (PollOneAsync, one per request) or one after    *)
(* the other inside a polling cycle (RunCycle), next to the handlers that  *)
(* create, edit and delete the same rows.  The store has one connection    *)
(* (internal/db/db.go), so a single SQL statement is atomic and anything   *)
(* longer is not: each action below is one statement or one answer of a    *)
(* device, with the computation that follows it up to the next statement.  *)
(*                                                                         *)
(* fsrar_id is the column only a poll writes; it is represented by the     *)
(* address of the device that reported it.  Fields stands for the columns  *)
(* (INN, KPP, organisation, installation address, certificate dates) that  *)
(* both a poll and the edit form write, all of them by the same rule.      *)
(***************************************************************************)
EXTENDS Integers

CONSTANTS
    IPs, Ports,    \* what operators may enter as the address of a device
    Fields, Vals,  \* operator-editable columns and their non-empty values
    FormData,      \* what operators may submit for Fields with the edit form
    Absent,        \* NULL, or "": the column is not known
    NoRow,         \* no row with this id
    Pollers,       \* goroutines available for requests and cycles (a bound)
    MaxId,         \* bound on the ids AUTOINCREMENT hands out
    MaxNow,        \* bound on the clock
    MaxFailures,   \* bound on the failing answers of a device in a row
    MaxRestarts,   \* bound on the restarts of the process
    StoreErrors    \* TRUE: the UPDATE that saves a poll may fail

Addrs == IPs \X Ports
Ids == 1..MaxId
Data == [Fields -> Vals \cup {Absent}]

VARIABLES
    utms,       \* table utms: the row of each id, or NoRow
    lastId,     \* the AUTOINCREMENT sequence of table utms
    pollers,    \* the state of each goroutine
    now,        \* the wall clock
    stopping,   \* SIGTERM was received: the context of main is cancelled
    restarts,   \* restarts so far
    hadAddr     \* history: every address the row of an id ever had

vars == <<utms, lastId, pollers, now, stopping, restarts, hadAddr>>

-----------------------------------------------------------------------------
(* Rows, what a poll reads of a row, what it learns, and the goroutines.   *)

NoData == [f \in Fields |-> Absent]
Times == Nat \cup {Absent}
Identities == Addrs \cup {Absent}

Row == [addr: Addrs, fsrar: Identities, data: Data,
        polledAt: Times, ok: BOOLEAN, failures: Nat, failingSince: Times]

ASSUME PollingAssumption ==
    /\ Absent \notin Vals \cup Addrs \cup Nat
    /\ NoRow \notin Row \cup Addrs
    /\ MaxId \in Nat /\ MaxNow \in Nat
    /\ MaxFailures \in Nat /\ MaxRestarts \in Nat
    /\ FormData \subseteq Data
    /\ StoreErrors \in BOOLEAN

\* models.UTM as PollOne uses it: a copy of the row, taken before the poll.
UTM == [id: Ids, addr: Addrs, fsrar: Identities, data: Data]

\* utmclient.Info; canceled tells the error "context canceled" from others.
Info == [fsrar: Identities, data: Data, canceled: BOOLEAN]

Idle == [pc |-> "idle"]
Created(id) == [pc |-> "created", id |-> id]
Fetching(kind, u, queue) ==
    [pc |-> "fetch", kind |-> kind, u |-> u, queue |-> queue]
Saving(kind, u, queue, info) ==
    [pc |-> "save", kind |-> kind, u |-> u, queue |-> queue, info |-> info]

Poller ==
    [pc: {"idle"}] \cup [pc: {"created"}, id: Ids]
      \cup [pc: {"fetch"}, kind: {"async", "cycle"}, u: UTM, queue: SUBSET UTM]
      \cup [pc: {"save"}, kind: {"async", "cycle"}, u: UTM, queue: SUBSET UTM,
            info: Info]

Live == {id \in Ids : utms[id] # NoRow}
Taken(addr) == \E id \in Live : utms[id].addr = addr

Snapshot(id) == [id |-> id, addr |-> utms[id].addr,
                 fsrar |-> utms[id].fsrar, data |-> utms[id].data]

ResumeOne(kind, queue) ==   \* faulty: a cycle stops after one device
    IF queue = {} THEN {Idle} ELSE {Fetching(kind, u, {}) : u \in queue}

\* Where a goroutine stands once it has queue left to poll.  ListUTMs sorts
\* by expiry; the model takes the devices of a cycle in any order.
Resume(kind, queue) ==
    IF queue = {} THEN {Idle}
    ELSE {Fetching(kind, u, queue \ {u}) : u \in queue}

TypeOK ==
    /\ utms \in [Ids -> Row \cup {NoRow}]
    /\ lastId \in 0..MaxId
    /\ pollers \in [Pollers -> Poller]
    /\ now \in Nat
    /\ stopping \in BOOLEAN
    /\ restarts \in Nat
    /\ hadAddr \in [Ids -> SUBSET Addrs]

Init ==
    /\ utms = [id \in Ids |-> NoRow]
    /\ lastId = 0
    /\ pollers = [p \in Pollers |-> Idle]
    /\ now = 0
    /\ stopping = FALSE
    /\ restarts = 0
    /\ hadAddr = [id \in Ids |-> {}]

-----------------------------------------------------------------------------
(* The handlers of the web interface.                                      *)

NextFreeId ==   \* faulty: INTEGER PRIMARY KEY without AUTOINCREMENT
    1 + (IF Live = {} THEN 0 ELSE CHOOSE id \in Live : \A x \in Live : x <= id)

\* AUTOINCREMENT (schema.sql): an id is never handed out twice.
NextId == lastId + 1

\* The INSERT of handleUTMCreate, handleUTMBulkAdd and handleUTMImport.
\* UNIQUE (ip_address, port) refuses a second row with the address.
CreateUTM(p, addr) ==
    LET id == NextId IN
    /\ pollers[p] = Idle
    /\ id \in Ids
    /\ ~Taken(addr)
    /\ utms' = [utms EXCEPT ![id] =
                  [addr |-> addr, fsrar |-> Absent, data |-> NoData,
                   polledAt |-> Absent, ok |-> FALSE,
                   failures |-> 0, failingSince |-> Absent]]
    /\ lastId' = id
    /\ pollers' = [pollers EXCEPT ![p] = Created(id)]
    /\ hadAddr' = [hadAddr EXCEPT ![id] = {addr}]
    /\ UNCHANGED <<now, stopping, restarts>>

\* GetUTM and PollOneAsync after the INSERT; nothing is polled when the row
\* is gone already.
PollCreated(p) ==
    /\ pollers[p].pc = "created"
    /\ LET id == pollers[p].id IN
       pollers' = [pollers EXCEPT ![p] =
                     IF id \in Live THEN Fetching("async", Snapshot(id), {})
                     ELSE Idle]
    /\ UNCHANGED <<utms, lastId, now, stopping, restarts, hadAddr>>

handleUTMPollNow(p, id) ==
    /\ pollers[p] = Idle
    /\ id \in Live
    /\ pollers' = [pollers EXCEPT ![p] = Fetching("async", Snapshot(id), {})]
    /\ UNCHANGED <<utms, lastId, now, stopping, restarts, hadAddr>>

\* The form posts every editable column and the port; the IP is read-only.
handleUTMUpdate(id, port, data) ==
    /\ id \in Live
    /\ LET addr == <<utms[id].addr[1], port>> IN
       /\ addr # utms[id].addr => ~Taken(addr)
       /\ utms' = [utms EXCEPT ![id].addr = addr, ![id].data = data]
       /\ hadAddr' = [hadAddr EXCEPT ![id] = @ \cup {addr}]
    /\ UNCHANGED <<lastId, pollers, now, stopping, restarts>>

handleUTMDelete(id) ==
    /\ id \in Live
    /\ utms' = [utms EXCEPT ![id] = NoRow]
    /\ UNCHANGED <<lastId, pollers, now, stopping, restarts, hadAddr>>

-----------------------------------------------------------------------------
(* The polls.                                                              *)

\* RunCycle reads all rows at once and polls them one after the other.  Its
\* last step, CheckAndNotify, is module Notification.  It may still be started
\* when the process is stopping: a tick and the cancellation can be ready
\* together.
RunCycle(p) ==
    /\ pollers[p] = Idle
    /\ \E next \in Resume("cycle", {Snapshot(id) : id \in Live}) :
          pollers' = [pollers EXCEPT ![p] = next]
    /\ UNCHANGED <<utms, lastId, now, stopping, restarts, hadAddr>>

\* What FetchInfo may return for the device at an address: an error with
\* nothing determined, or the FSRAR_ID and any part of the other columns.
FetchOutcomes(addr) ==
    {[fsrar |-> Absent, data |-> NoData, canceled |-> FALSE]}
      \cup [fsrar: {addr}, data: Data, canceled: {FALSE}]

\* Only a cycle runs under the context that SIGTERM cancels; an answer may
\* still have come just before.
CanceledOutcomes(kind) ==
    IF stopping /\ kind = "cycle"
    THEN {[fsrar |-> Absent, data |-> NoData, canceled |-> TRUE]} ELSE {}

FetchInfo(p) ==
    /\ pollers[p].pc = "fetch"
    /\ LET r == pollers[p] IN
       \E info \in FetchOutcomes(r.u.addr) \cup CanceledOutcomes(r.kind) :
          /\ (info.fsrar = Absent /\ r.u.id \in Live)
                => utms[r.u.id].failures < MaxFailures
          /\ pollers' = [pollers EXCEPT ![p] =
                           Saving(r.kind, r.u, r.queue, info)]
    /\ UNCHANGED <<utms, lastId, now, stopping, restarts, hadAddr>>

DeterminedAll(new, old) == new   \* faulty: what was not determined is erased

\* PollOne starts from the copy it was given and replaces what was determined.
Determined(new, old) == IF new # Absent THEN new ELSE old
Merge(u, info) ==
    [fsrar |-> Determined(info.fsrar, u.fsrar),
     data |-> [f \in Fields |-> Determined(info.data[f], u.data[f])]]

PolledCountsDown(row, result, ok) ==   \* faulty: a success takes off one failure
    [row EXCEPT !.fsrar = result.fsrar, !.data = result.data,
                !.polledAt = now, !.ok = ok,
                !.failures = IF ok THEN @ - 1 ELSE @ + 1,
                !.failingSince = IF ok THEN Absent
                                 ELSE IF @ = Absent THEN now ELSE @]

PolledKeepsSince(row, result, ok) ==   \* faulty: failing_since is not cleared
    [row EXCEPT !.fsrar = result.fsrar, !.data = result.data,
                !.polledAt = now, !.ok = ok,
                !.failures = IF ok THEN 0 ELSE @ + 1,
                !.failingSince = IF ~ok /\ @ = Absent THEN now ELSE @]

PolledMovesSince(row, result, ok) ==   \* faulty: every failure moves the start
    [row EXCEPT !.fsrar = result.fsrar, !.data = result.data,
                !.polledAt = now, !.ok = ok,
                !.failures = IF ok THEN 0 ELSE @ + 1,
                !.failingSince = IF ok THEN Absent ELSE now]

\* The UPDATE: failures and failing_since are computed from the row itself.
Polled(row, result, ok) ==
    [row EXCEPT !.fsrar = result.fsrar, !.data = result.data,
                !.polledAt = now, !.ok = ok,
                !.failures = IF ok THEN 0 ELSE @ + 1,
                !.failingSince = IF ok THEN Absent
                                 ELSE IF @ = Absent THEN now ELSE @]

SaveUTMPollResult(p) ==
    /\ pollers[p].pc = "save"
    /\ LET r == pollers[p] IN
       /\ utms' = IF r.u.id \in Live
                  THEN [utms EXCEPT ![r.u.id] =
                          Polled(@, Merge(r.u, r.info), r.info.fsrar # Absent)]
                  ELSE utms
       /\ \E next \in Resume(r.kind, r.queue) :
             pollers' = [pollers EXCEPT ![p] = next]
    /\ UNCHANGED <<lastId, now, stopping, restarts, hadAddr>>

\* PollOne logs the error of the UPDATE and goes on.
SaveFails(p) ==
    /\ StoreErrors
    /\ pollers[p].pc = "save"
    /\ \E next \in Resume(pollers[p].kind, pollers[p].queue) :
          pollers' = [pollers EXCEPT ![p] = next]
    /\ UNCHANGED <<utms, lastId, now, stopping, restarts, hadAddr>>

-----------------------------------------------------------------------------
(* The process and its environment.                                        *)

Shutdown ==
    /\ ~stopping
    /\ restarts < MaxRestarts
    /\ stopping' = TRUE
    /\ UNCHANGED <<utms, lastId, pollers, now, restarts, hadAddr>>

\* The process ends, by a crash or because main returned, and is started
\* again: its goroutines are gone, the database is as it was.
Restart ==
    /\ restarts < MaxRestarts
    /\ restarts' = restarts + 1
    /\ stopping' = FALSE
    /\ pollers' = [p \in Pollers |-> Idle]
    /\ UNCHANGED <<utms, lastId, now, hadAddr>>

Tick ==
    /\ now < MaxNow
    /\ now' = now + 1
    /\ UNCHANGED <<utms, lastId, pollers, stopping, restarts, hadAddr>>

Web(p) ==
    \/ \E addr \in Addrs : CreateUTM(p, addr)
    \/ PollCreated(p)
    \/ \E id \in Ids : handleUTMPollNow(p, id)

Edit ==
    \/ \E id \in Ids, port \in Ports, data \in FormData :
          handleUTMUpdate(id, port, data)
    \/ \E id \in Ids : handleUTMDelete(id)

Poll(p) == RunCycle(p) \/ FetchInfo(p) \/ SaveUTMPollResult(p) \/ SaveFails(p)

Next ==
    \/ \E p \in Pollers : Web(p) \/ Poll(p)
    \/ Edit
    \/ Shutdown \/ Restart \/ Tick

Spec == Init /\ [][Next]_vars

\* Goroutines keep running and every request to a device ends by its timeout
\* (config.PollHTTPTimeout); the process that was told to stop stops; and the
\* scheduler starts a cycle again and again, the goroutine for it is never
\* refused (SF: the bound on Pollers is the model's, not the program's).
Fairness ==
    /\ \A p \in Pollers :
          /\ WF_vars(PollCreated(p))
          /\ WF_vars(FetchInfo(p))
          /\ WF_vars(SaveUTMPollResult(p))
    /\ WF_vars(stopping /\ Restart)
    /\ SF_vars(\E p \in Pollers : RunCycle(p))

-----------------------------------------------------------------------------
(* Polls and edits that do not meet.  A goroutine has copies of the rows it   *)
(* polls and is going to poll.                                                *)

Copies(r) == IF r.pc \in {"fetch", "save"} THEN {r.u} \cup r.queue ELSE {}

\* No two goroutines have a copy of the same row.
PollsApart ==
    \A p, q \in Pollers : \A u \in Copies(pollers[p]), v \in Copies(pollers[q]) :
        u.id = v.id => p = q

Unheld == \A p \in Pollers : \A u \in Copies(pollers[p]) :
             \A port \in Ports, data \in FormData : ~handleUTMUpdate(u.id, port, data)

\* No form is saved for a row while a goroutine has a copy of it.
EditsApart == [][Unheld]_vars

-----------------------------------------------------------------------------
(* Polls that do not overlap: with one poller, the rows are edited only while *)
(* no poll is in flight.                                                      *)

Quiet == \A p \in Pollers : pollers[p] = Idle

QuietNext ==
    \/ \E p \in Pollers : Web(p) \/ Poll(p)
    \/ Quiet /\ Edit
    \/ Shutdown \/ Restart \/ Tick

QuietSpec == Init /\ [][QuietNext]_vars /\ Fairness

-----------------------------------------------------------------------------
(* The abstract specification: of a row, the address.                      *)

Table == INSTANCE UtmTable WITH
    utms <- [id \in Ids |-> IF id \in Live THEN utms[id].addr ELSE NoRow]

-----------------------------------------------------------------------------
(* Properties.                                                             *)

\* However polls, cycles and restarts interleave with the handlers, an id means
\* one device for good: no poll that ends late brings a row back or moves it,
\* and no id is handed out twice (schema.sql:2 and :22).
KeepsTable == Table!Spec

\* What is stored about a device was reported by a device at an address the
\* row itself had: no poll that is in flight while its row is deleted, and
\* others are created, writes into another row (ids are never reused).
OnlyOwnDevice ==
    \A id \in Live :
        utms[id].fsrar # Absent => utms[id].fsrar \in hadAddr[id]

\* The columns the index page shows about the last poll agree with each other
\* however polls overlap: a row that answered last has no failure streak, a
\* row that did not has one, and it started no later than the last poll.
StreakConsistent ==
    \A id \in Live :
        LET r == utms[id] IN
        /\ r.ok <=> (r.polledAt # Absent /\ r.failures = 0)
        /\ (r.failures = 0) <=> (r.failingSince = Absent)
        /\ r.failures > 0 => /\ r.polledAt # Absent
                             /\ r.failingSince <= r.polledAt

Saves(p) ==
    /\ pollers[p].pc = "save"
    /\ pollers[p].u.id \in Live
    /\ SaveUTMPollResult(p)

\* A poll that got no answer prolongs the failure streak of its row by one and
\* leaves its start where it is, one that got an answer ends it, whatever the
\* other polls of the row did since this one read it (comment of
\* SaveUTMPollResult, store.go:162-166).
StreakUnbroken ==
    [][\A p \in Pollers : Saves(p) =>
          LET id  == pollers[p].u.id
              old == utms[id]
              new == utms'[id] IN
          IF pollers[p].info.fsrar # Absent
          THEN new.failingSince = Absent /\ new.failures = 0
          ELSE /\ new.failures = old.failures + 1
               /\ IF old.failures = 0 THEN new.failingSince = now
                  ELSE new.failingSince = old.failingSince]_vars

\* "only fields this poll actually determined are overwritten" (comment of
\* PollOne, scheduler.go:121-124).
KeepsUndetermined ==
    [][\A p \in Pollers : Saves(p) =>
          LET id == pollers[p].u.id IN
          \A f \in Fields :
             pollers[p].info.data[f] = Absent =>
                utms'[id].data[f] = utms[id].data[f]]_vars

\* "A partial or failed poll never erases previously known good data" (same
\* comment): what is known of a row stays known until the edit form clears it.
NeverErases ==
    [][\A p \in Pollers : Saves(p) =>
          LET id == pollers[p].u.id IN
          \A f \in Fields :
             utms[id].data[f] # Absent => utms'[id].data[f] # Absent]_vars

\* A UTM that was added is polled, at once or by a later cycle, whatever
\* happens to the process in between.  It presumes that cycles recur (Fairness),
\* which takes a slot with a time that runs: see AcceptedTimeRuns in Schedule.
EventuallyPolled ==
    \A id \in Ids :
        (utms[id] # NoRow /\ utms[id].polledAt = Absent)
           ~> (utms[id] = NoRow \/ utms[id].polledAt # Absent)

=============================================================================
