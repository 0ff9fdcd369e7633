------------------------------- MODULE Registry -------------------------------
(***************************************************************************)
(* The list of devices and the requests that fill, change and copy it: the *)
(* form for one device, the pasted list, the import and export of a CSV    *)
(* file, the edit form and the removal.                                    *)
(*                                                                         *)
(* A list is worked through line by line.  What is known already is read   *)
(* once, before the first line; then each line is an INSERT of its own,    *)
(* followed by the read of the new row that starts its first poll.  The    *)
(* requests of a second administrator fall between any two of these.       *)
(*                                                                         *)
(* A line is the text of an address and the text of a port.  What a poll   *)
(* does to a row is module Polling; labels are left out.                   *)
(***************************************************************************)
EXTENDS Integers, Sequences, FiniteSets

CONSTANTS
    IPs,           \* texts that net.ParseIP takes
    Hosts,         \* other texts: host names, the words "ip", "ip_address"
    HeaderWord,    \* "ip_address", the first field of an exported file
    Blank,         \* the empty text
    Ports,         \* port numbers that are in use
    DefaultPort,   \* 8080
    NoPort,        \* no port, or an empty field
    BadPort,       \* a text that is no port number
    Lists,         \* what administrators enter: sequences of lines
    Requests,      \* requests in progress at a time (a bound)
    MaxId,         \* bound on the ids AUTOINCREMENT hands out
    NoRow,         \* no row with this id
    StoreErrors    \* TRUE: an INSERT may fail for another reason than UNIQUE,
                   \* and GetUTM for another than a missing row

Ids == 1..MaxId
Addrs == (IPs \cup Hosts) \X Ports
Line == [name: IPs \cup Hosts \cup {Blank}, port: Ports \cup {NoPort, BadPort}]

ASSUME RegistryAssumption ==
    /\ IPs \cap Hosts = {} /\ Blank \notin IPs \cup Hosts
    /\ HeaderWord \in Hosts
    /\ DefaultPort \in Ports
    /\ NoPort \notin Ports /\ BadPort \notin Ports /\ NoPort # BadPort
    /\ Lists \subseteq Seq(Line)
    /\ MaxId \in Nat
    /\ NoRow \notin Addrs
    /\ StoreErrors \in BOOLEAN

VARIABLES
    utms,          \* table utms: the address of each id, or NoRow
    lastId,        \* the AUTOINCREMENT sequence of table utms
    requests,      \* where each request is
    backup,        \* the file last exported, and the addresses it was made of
    polled,        \* history: rows whose first poll was started
    forgone,       \* history: rows of which it was not, since GetUTM failed or
                   \* the process ended before
    seen,          \* history: addresses registered since a request read what
                   \* is known, and not known to it
    lost           \* history: addresses whose INSERT failed in a request

registryVars == <<utms, lastId, requests, backup, polled, forgone, seen, lost>>

-----------------------------------------------------------------------------
(* A request that was let in has its handler still to run.  One with a     *)
(* list has read known, and is at line number at; source is history: the   *)
(* addresses the file it imports was exported from.                        *)

Idle == [pc |-> "idle"]
Admitted == [pc |-> "admitted"]

Kinds == {"create", "bulk", "import"}

Adding == [pc: {"lines"}, kind: Kinds, lines: Seq(Line), at: Nat \ {0},
           known: SUBSET Addrs, source: SUBSET Addrs]
Polls  == [pc: {"poll"}, kind: Kinds, lines: Seq(Line), at: Nat \ {0},
           known: SUBSET Addrs, source: SUBSET Addrs, id: Ids]

Live == {id \in Ids : utms[id] # NoRow}
Registered == {utms[id] : id \in Live}

Working(r) == requests[r].pc \in {"lines", "poll"}
AtLine(r) == requests[r].pc = "lines" /\ requests[r].at <= Len(requests[r].lines)
Done(r) == requests[r].pc = "lines" /\ requests[r].at > Len(requests[r].lines)

RegistryTypeOK ==
    /\ utms \in [Ids -> Addrs \cup {NoRow}]
    /\ lastId \in 0..MaxId
    /\ requests \in [Requests -> {Idle, Admitted} \cup Adding \cup Polls]
    /\ backup \in [lines: Seq(Line), source: SUBSET Addrs]
    /\ polled \subseteq Ids /\ forgone \subseteq Ids
    /\ seen \in [Requests -> SUBSET Addrs]
    /\ lost \in [Requests -> SUBSET Addrs]

RegistryInit ==
    /\ utms = [id \in Ids |-> NoRow]
    /\ lastId = 0
    /\ requests = [r \in Requests |-> Idle]
    /\ backup = [lines |-> <<>>, source |-> {}]
    /\ polled = {} /\ forgone = {}
    /\ seen = [r \in Requests |-> {}]
    /\ lost = [r \in Requests |-> {}]

-----------------------------------------------------------------------------
(* How a line is read.                                                     *)

PortAsTyped(port) == port   \* faulty: the range is not checked

\* parsePortOrDefault
PortOf(port) == IF port \in Ports THEN port ELSE DefaultPort

AddrOf(line) == <<line.name, PortOf(line.port)>>

\* The form takes any text as the address; the import takes IP addresses only,
\* which the header row and blank lines are not; the pasted list does too, and
\* with a port that is no number the whole line is no IP address.
Accepted(kind, line) ==
    CASE kind = "create" -> line.name # Blank
      [] kind = "import" -> line.name \in IPs
      [] kind = "bulk"   -> line.name \in IPs /\ line.port # BadPort

LineWithoutPort(addr) == [name |-> addr[1], port |-> NoPort]   \* faulty

\* The line handleUTMExport writes for a row.
LineOf(addr) ==
    [name |-> addr[1], port |-> IF addr[2] = DefaultPort THEN NoPort ELSE addr[2]]

Header == [name |-> HeaderWord, port |-> BadPort]

-----------------------------------------------------------------------------
(* The requests.  Every change of the table is seen by all of them.        *)

Observe(addr) ==
    seen' = [x \in Requests |->
               IF Working(x) THEN seen[x] \cup ({addr} \ requests[x].known) ELSE seen[x]]

Admit(r) ==
    /\ requests[r] = Idle
    /\ requests' = [requests EXCEPT ![r] = Admitted]
    /\ UNCHANGED <<utms, lastId, backup, polled, forgone, seen, lost>>

\* ListUTMs, unless it is the form for one device.
StartAdding(r, kind, lines, source) ==
    /\ requests[r] = Admitted
    /\ requests' = [requests EXCEPT ![r] =
                      [pc |-> "lines", kind |-> kind, lines |-> lines, at |-> 1,
                       known |-> IF kind = "create" THEN {} ELSE Registered,
                       source |-> source]]
    /\ seen' = [seen EXCEPT ![r] = IF kind = "create" THEN Registered ELSE {}]
    /\ UNCHANGED <<utms, lastId, backup, polled, forgone, lost>>

handleUTMCreate(r) ==
    \E list \in Lists : Len(list) = 1 /\ StartAdding(r, "create", list, {})
handleUTMBulkAdd(r) ==
    \E list \in Lists : StartAdding(r, "bulk", list, {})
handleUTMImport(r) ==
    \/ \E list \in Lists : StartAdding(r, "import", list, {})
    \/ StartAdding(r, "import", backup.lines, backup.source)

NextLine(q) == [pc |-> "lines", kind |-> q.kind, lines |-> q.lines, at |-> q.at + 1,
                known |-> q.known, source |-> q.source]

KnownHost(q, addr) == \E a \in q.known : a[1] = addr[1]   \* faulty: any port

Known(q, addr) == addr \in q.known

\* A line that is not accepted, or known, is passed over.
SkipLine(r) ==
    /\ AtLine(r)
    /\ LET q    == requests[r]
           line == q.lines[q.at] IN
       /\ Accepted(q.kind, line) => Known(q, AddrOf(line))
       /\ requests' = [requests EXCEPT ![r] = NextLine(q)]
    /\ UNCHANGED <<utms, lastId, backup, polled, forgone, seen, lost>>

\* The INSERT, when the line is new.
CreateUTM(r) ==
    LET q    == requests[r]
        addr == AddrOf(q.lines[q.at])
        id   == lastId + 1 IN
    /\ AtLine(r)
    /\ Accepted(q.kind, q.lines[q.at]) /\ ~Known(q, addr)
    /\ addr \notin Registered
    /\ id \in Ids
    /\ utms' = [utms EXCEPT ![id] = addr]
    /\ lastId' = id
    /\ requests' = [requests EXCEPT ![r] =
                      [pc |-> "poll", kind |-> q.kind, lines |-> q.lines, at |-> q.at,
                       known |-> q.known \cup {addr}, source |-> q.source, id |-> id]]
    /\ Observe(addr)
    /\ UNCHANGED <<backup, polled, forgone, lost>>

\* UNIQUE refuses it, or the statement fails: the line counts as skipped.
InsertFails(r) ==
    LET q    == requests[r]
        addr == AddrOf(q.lines[q.at]) IN
    /\ AtLine(r)
    /\ Accepted(q.kind, q.lines[q.at]) /\ ~Known(q, addr)
    /\ addr \in Registered \/ StoreErrors
    /\ requests' = [requests EXCEPT ![r] = NextLine(q)]
    /\ lost' = [lost EXCEPT ![r] = IF addr \in Registered THEN @ ELSE @ \cup {addr}]
    /\ UNCHANGED <<utms, lastId, backup, polled, forgone, seen>>

NewestRow(q) == lastId   \* faulty: polls the last row of the table

OwnRow(q) == q.id

\* GetUTM and PollOneAsync.  When GetUTM fails, be it that the row is gone or
\* not, no poll is started and the request goes on.
PollAdded(r) ==
    /\ requests[r].pc = "poll"
    /\ LET q == requests[r] IN
       /\ \/ /\ polled' = polled \cup ({OwnRow(q)} \cap Live)
             /\ UNCHANGED forgone
          \/ /\ StoreErrors
             /\ forgone' = forgone \cup ({OwnRow(q)} \cap Live)
             /\ UNCHANGED polled
       /\ requests' = [requests EXCEPT ![r] = NextLine(q)]
    /\ UNCHANGED <<utms, lastId, backup, seen, lost>>

Over(r) ==
    /\ requests' = [requests EXCEPT ![r] = Idle]
    /\ lost' = [lost EXCEPT ![r] = {}]

\* The request is answered: it is through with its list, or there was nothing
\* to change (a page to show, an error before the first statement).
Reply(r) ==
    /\ requests[r] = Admitted \/ Done(r)
    /\ Over(r)
    /\ seen' = [seen EXCEPT ![r] = {}]
    /\ UNCHANGED <<utms, lastId, backup, polled, forgone>>

\* The form has the port; the address itself is read-only.
Moved(addr, port) == <<addr[1], PortOf(port)>>

handleUTMUpdate(r, id, port) ==
    /\ requests[r] = Admitted /\ id \in Live
    /\ LET addr == Moved(utms[id], port) IN
       /\ addr # utms[id] => addr \notin Registered
       /\ utms' = [utms EXCEPT ![id] = addr]
       /\ Observe(addr)
    /\ Over(r)
    /\ UNCHANGED <<lastId, backup, polled, forgone>>

handleUTMDelete(r, id) ==
    /\ requests[r] = Admitted /\ id \in Live
    /\ utms' = [utms EXCEPT ![id] = NoRow]
    /\ polled' = polled \ {id} /\ forgone' = forgone \ {id}
    /\ Over(r)
    /\ UNCHANGED <<lastId, backup, seen>>

\* ListUTMs sorts by expiry; the model takes the rows in any order.
handleUTMExport(r) ==
    /\ requests[r] = Admitted
    /\ \E rows \in [1..Cardinality(Registered) -> Registered] :
          /\ \A addr \in Registered : \E i \in DOMAIN rows : rows[i] = addr
          /\ backup' = [lines  |-> <<Header>> \o [i \in DOMAIN rows |-> LineOf(rows[i])],
                        source |-> Registered]
    /\ Over(r)
    /\ UNCHANGED <<utms, lastId, polled, forgone, seen>>

\* The process ends: requests are gone, and with them the first poll of a row
\* that one of them has just inserted.
RegistryRestart ==
    /\ requests' = [r \in Requests |-> Idle]
    /\ seen' = [r \in Requests |-> {}]
    /\ lost' = [r \in Requests |-> {}]
    /\ forgone' = forgone \cup
          {id \in Live : \E r \in Requests : requests[r].pc = "poll" /\ requests[r].id = id}
    /\ UNCHANGED <<utms, lastId, backup, polled>>

Handle(r) ==
    \/ handleUTMCreate(r) \/ handleUTMBulkAdd(r) \/ handleUTMImport(r)
    \/ SkipLine(r) \/ CreateUTM(r) \/ InsertFails(r) \/ PollAdded(r) \/ Reply(r)
    \/ \E id \in Ids, port \in Ports \cup {NoPort} : handleUTMUpdate(r, id, port)
    \/ \E id \in Ids : handleUTMDelete(r, id)
    \/ handleUTMExport(r)

RegistryNext ==
    \/ \E r \in Requests : Admit(r) \/ Handle(r)
    \/ RegistryRestart

RegistrySpec == RegistryInit /\ [][RegistryNext]_registryVars

-----------------------------------------------------------------------------
(* Properties.                                                             *)

\* Addresses that were registered at some time during a request.
WasThere(r) == requests[r].known \cup seen[r]

\* What may be missing all the same: an address whose INSERT failed.
Excused(r) == IF StoreErrors THEN lost[r] ELSE {}

\* "Adds whichever aren't already registered" (comment of handleUTMBulkAdd,
\* handlers.go:122-126): whatever is added, moved and deleted next to it, and
\* although known is read only once, each address of the lines a request is
\* through with was registered at some time during the request, or its INSERT
\* failed, which it only does when statements of the database may.
ListRegistered ==
    \A r \in Requests : Working(r) =>
        LET q == requests[r] IN
        \A i \in 1..(q.at - 1) :
           Accepted(q.kind, q.lines[i]) => AddrOf(q.lines[i]) \in WasThere(r) \cup Excused(r)

\* "Every newly added UTM is polled immediately" (same comment), but for two
\* exceptions the code has: a request is never past a device it added and did
\* not start to poll, also when others add devices at the same time, unless
\* GetUTM failed on that very row or the process ended just before.  (What a
\* restart leaves is polled by a later cycle: EventuallyPolled in Polling.)
AddedArePolled ==
    \A id \in Live :
        \/ id \in polled \cup forgone
        \/ \E r \in Requests : requests[r].pc = "poll" /\ requests[r].id = id

\* "A simple backup so the list can be restored" (comment of handleUTMExport,
\* handlers.go:352-356): once an exported file was imported, each IP address
\* that had been exported was registered at some time during the import, or its
\* INSERT failed.  The import takes no other addresses.
RestoresIPs ==
    \A r \in Requests :
        Done(r) /\ requests[r].kind = "import"
           => requests[r].source \cap (IPs \X Ports) \subseteq WasThere(r) \cup Excused(r)

=============================================================================
