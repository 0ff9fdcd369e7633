---------------------------- MODULE PollingProofs ----------------------------
(***************************************************************************)
(* Proofs about Polling, for any number of devices, goroutines, restarts   *)
(* and any clock.                                                          *)
(***************************************************************************)
EXTENDS Polling, TLAPS

\* What the proofs use of the assumptions on the constants.
LEMMA Constants ==
    /\ MaxId \in Nat
    /\ Absent \notin Nat
    /\ Absent \notin Addrs
    /\ FormData \subseteq Data
    /\ NoRow \notin Row /\ NoRow \notin Addrs
  BY PollingAssumption

-----------------------------------------------------------------------------
(* What the operators of the model return.                                 *)

LEMMA SnapshotType ==
    ASSUME TypeOK, NEW id \in Live
    PROVE  Snapshot(id) \in UTM
  BY DEF TypeOK, Live, Snapshot, UTM, Row

LEMMA ResumeType ==
    ASSUME NEW kind \in {"async", "cycle"}, NEW queue \in SUBSET UTM,
           NEW next \in Resume(kind, queue)
    PROVE  next \in Poller
  BY DEF Resume, Idle, Fetching, Poller

LEMMA NoAnswerType ==
    ASSUME NEW b \in BOOLEAN
    PROVE  [fsrar |-> Absent, data |-> NoData, canceled |-> b] \in Info
<1>1. NoData \in Data
  BY DEF NoData, Data
<1> QED
  BY <1>1 DEF Info, Identities

LEMMA InfoType ==
    ASSUME NEW addr \in Addrs, NEW kind,
           NEW info \in FetchOutcomes(addr) \cup CanceledOutcomes(kind)
    PROVE  info \in Info
<1>1. CASE info \in [fsrar: {addr}, data: Data, canceled: {FALSE}]
  BY <1>1 DEF Info, Identities
<1>2. CASE info = [fsrar |-> Absent, data |-> NoData, canceled |-> FALSE]
  BY <1>2, NoAnswerType, Zenon
<1>3. CASE info = [fsrar |-> Absent, data |-> NoData, canceled |-> TRUE]
  BY <1>3, NoAnswerType, Zenon
<1> QED
  BY <1>1, <1>2, <1>3, Zenon DEF FetchOutcomes, CanceledOutcomes

\* A device that answers reports an FSRAR_ID of its own.
LEMMA OutcomeOrigin ==
    ASSUME NEW addr, NEW kind,
           NEW info \in FetchOutcomes(addr) \cup CanceledOutcomes(kind)
    PROVE  info.fsrar \in {Absent, addr}
<1>1. CASE info \in [fsrar: {addr}, data: Data, canceled: {FALSE}]
  BY <1>1
<1>2. CASE info = [fsrar |-> Absent, data |-> NoData, canceled |-> FALSE]
  BY <1>2
<1>3. CASE info = [fsrar |-> Absent, data |-> NoData, canceled |-> TRUE]
  BY <1>3
<1> QED
  BY <1>1, <1>2, <1>3, Zenon DEF FetchOutcomes, CanceledOutcomes

LEMMA MergeType ==
    ASSUME NEW u \in UTM, NEW info \in Info
    PROVE  Merge(u, info) \in [fsrar: Identities, data: Data]
  BY DEF Merge, Determined, UTM, Info, Data

LEMMA PolledType ==
    ASSUME now \in Nat, NEW row \in Row, NEW ok \in BOOLEAN,
           NEW result \in [fsrar: Identities, data: Data]
    PROVE  Polled(row, result, ok) \in Row
<1> DEFINE failures == IF ok THEN 0 ELSE row.failures + 1
           since == IF ok THEN Absent
                    ELSE IF row.failingSince = Absent THEN now ELSE row.failingSince
<1>1. failures \in Nat
  BY DEF Row
<1>2. since \in Times
  BY DEF Row, Times
<1>3. now \in Times
  BY DEF Times
<1> HIDE DEF failures, since
<1>4. [row EXCEPT !.fsrar = result.fsrar, !.data = result.data, !.polledAt = now,
                  !.ok = ok, !.failures = failures, !.failingSince = since] \in Row
  BY <1>1, <1>2, <1>3 DEF Row
<1> QED
  BY <1>4 DEF Polled, failures, since

LEMMA FetchType ==
    ASSUME NEW r \in Poller, r.pc = "fetch"
    PROVE  /\ r.kind \in {"async", "cycle"}
           /\ r.u \in UTM
           /\ r.queue \in SUBSET UTM
  BY DEF Poller

LEMMA SaveType ==
    ASSUME NEW r \in Poller, r.pc = "save"
    PROVE  /\ r.kind \in {"async", "cycle"}
           /\ r.u \in UTM
           /\ r.queue \in SUBSET UTM
           /\ r.info \in Info
  BY DEF Poller

-----------------------------------------------------------------------------
(* Type correctness.                                                       *)

LEMMA InitTypeOK == Init => TypeOK
<1> SUFFICES ASSUME Init PROVE TypeOK
  OBVIOUS
<1>1. [id \in Ids |-> NoRow] \in [Ids -> Row \cup {NoRow}]
  OBVIOUS
<1>2. [p \in Pollers |-> Idle] \in [Pollers -> Poller]
  BY DEF Idle, Poller
<1>3. 0 \in 0..MaxId
  BY Constants
<1> QED
  BY <1>1, <1>2, <1>3 DEF Init, TypeOK

\* A step that gives one goroutine a new state and changes no row.
LEMMA PollersType ==
    ASSUME TypeOK, NEW p \in Pollers, NEW next \in Poller,
           pollers' = [pollers EXCEPT ![p] = next],
           UNCHANGED <<utms, lastId, now, stopping, restarts, hadAddr>>
    PROVE  TypeOK'
  BY DEF TypeOK

LEMMA CreateType ==
    ASSUME TypeOK, NEW p \in Pollers, NEW addr \in Addrs, CreateUTM(p, addr)
    PROVE  TypeOK'
<1>1. NextId \in Ids
  BY DEF CreateUTM
<1> DEFINE row == [addr |-> addr, fsrar |-> Absent, data |-> NoData,
                   polledAt |-> Absent, ok |-> FALSE,
                   failures |-> 0, failingSince |-> Absent]
<1>2. NoData \in Data
  BY DEF NoData, Data
<1>3. row \in Row
  BY <1>2 DEF Row, Identities, Times
<1> HIDE DEF row
<1>4. utms' \in [Ids -> Row \cup {NoRow}]
  <2>1. utms' = [utms EXCEPT ![NextId] = row]
    BY DEF CreateUTM, row
  <2> QED
    BY <1>3, <2>1 DEF TypeOK
<1>5. lastId' \in 0..MaxId
  BY <1>1, Constants DEF CreateUTM, Ids
<1>6. Created(NextId) \in Poller
  BY <1>1 DEF Created, Poller
<1>7. pollers' \in [Pollers -> Poller]
  <2>1. pollers' = [pollers EXCEPT ![p] = Created(NextId)]
    BY DEF CreateUTM
  <2> QED
    BY <1>6, <2>1 DEF TypeOK
<1>8. hadAddr' \in [Ids -> SUBSET Addrs]
  BY <1>1 DEF CreateUTM, TypeOK
<1> QED
  BY <1>4, <1>5, <1>7, <1>8 DEF CreateUTM, TypeOK

LEMMA PollCreatedType ==
    ASSUME TypeOK, NEW p \in Pollers, PollCreated(p)
    PROVE  TypeOK'
<1> DEFINE id == pollers[p].id
           next == IF id \in Live THEN Fetching("async", Snapshot(id), {}) ELSE Idle
<1>1. next \in Poller
  <2>1. CASE id \in Live
    BY <2>1, SnapshotType DEF Fetching, Poller
  <2>2. CASE id \notin Live
    BY <2>2 DEF Idle, Poller
  <2> QED
    BY <2>1, <2>2
<1>2. pollers' = [pollers EXCEPT ![p] = next]
  BY DEF PollCreated
<1> HIDE DEF next
<1> QED
  BY <1>1, <1>2, PollersType DEF PollCreated

LEMMA PollNowType ==
    ASSUME TypeOK, NEW p \in Pollers, NEW id \in Ids, handleUTMPollNow(p, id)
    PROVE  TypeOK'
<1>1. Fetching("async", Snapshot(id), {}) \in Poller
  BY SnapshotType DEF handleUTMPollNow, Fetching, Poller
<1> QED
  BY <1>1, PollersType DEF handleUTMPollNow

LEMMA RunCycleType ==
    ASSUME TypeOK, NEW p \in Pollers, RunCycle(p)
    PROVE  TypeOK'
<1> DEFINE all == {Snapshot(id) : id \in Live}
<1>1. all \in SUBSET UTM
  BY SnapshotType
<1> HIDE DEF all
<1>2. PICK next \in Resume("cycle", all) : pollers' = [pollers EXCEPT ![p] = next]
  BY DEF RunCycle, all
<1>3. next \in Poller
  BY <1>1, ResumeType
<1> QED
  BY <1>2, <1>3, PollersType DEF RunCycle

LEMMA FetchInfoType ==
    ASSUME TypeOK, NEW p \in Pollers, FetchInfo(p)
    PROVE  TypeOK'
<1> DEFINE r == pollers[p]
<1>1. r \in Poller /\ r.pc = "fetch"
  BY DEF TypeOK, FetchInfo
<1> HIDE DEF r
<1>2. /\ r.kind \in {"async", "cycle"}
      /\ r.u \in UTM
      /\ r.queue \in SUBSET UTM
  BY <1>1, FetchType
<1>3. r.u.addr \in Addrs
  BY <1>2 DEF UTM
<1>4. PICK info \in FetchOutcomes(r.u.addr) \cup CanceledOutcomes(r.kind) :
         pollers' = [pollers EXCEPT ![p] = Saving(r.kind, r.u, r.queue, info)]
  BY DEF FetchInfo, r
<1>5. info \in Info
  BY <1>3, InfoType
<1>6. Saving(r.kind, r.u, r.queue, info) \in Poller
  BY <1>2, <1>5 DEF Saving, Poller
<1> QED
  BY <1>4, <1>6, PollersType DEF FetchInfo

LEMMA SaveResultType ==
    ASSUME TypeOK, NEW p \in Pollers, SaveUTMPollResult(p)
    PROVE  TypeOK'
<1> DEFINE r == pollers[p]
<1>1. r \in Poller /\ r.pc = "save"
  BY DEF TypeOK, SaveUTMPollResult
<1> HIDE DEF r
<1>2. /\ r.kind \in {"async", "cycle"}
      /\ r.u \in UTM
      /\ r.queue \in SUBSET UTM
      /\ r.info \in Info
  BY <1>1, SaveType
<1>3. PICK next \in Resume(r.kind, r.queue) : pollers' = [pollers EXCEPT ![p] = next]
  BY DEF SaveUTMPollResult, r
<1>4. pollers' \in [Pollers -> Poller]
  BY <1>2, <1>3, ResumeType DEF TypeOK
<1>5. utms' \in [Ids -> Row \cup {NoRow}]
  <2>1. CASE r.u.id \in Live
    <3> DEFINE row == Polled(utms[r.u.id], Merge(r.u, r.info), r.info.fsrar # Absent)
    <3>1. utms[r.u.id] \in Row
      BY <2>1 DEF TypeOK, Live
    <3>2. Merge(r.u, r.info) \in [fsrar: Identities, data: Data]
      BY <1>2, MergeType
    <3>3. (r.info.fsrar # Absent) \in BOOLEAN
      BY Zenon
    <3>4. row \in Row
      BY <3>1, <3>2, <3>3, PolledType DEF TypeOK
    <3>5. utms' = [utms EXCEPT ![r.u.id] = row]
      BY <2>1 DEF SaveUTMPollResult, r
    <3> HIDE DEF row
    <3> QED
      BY <3>4, <3>5 DEF TypeOK
  <2>2. CASE r.u.id \notin Live
    BY <2>2 DEF SaveUTMPollResult, r, TypeOK
  <2> QED
    BY <2>1, <2>2
<1> QED
  BY <1>4, <1>5 DEF SaveUTMPollResult, TypeOK

LEMMA SaveFailsType ==
    ASSUME TypeOK, NEW p \in Pollers, SaveFails(p)
    PROVE  TypeOK'
<1> DEFINE r == pollers[p]
<1>1. r \in Poller /\ r.pc = "save"
  BY DEF TypeOK, SaveFails
<1> HIDE DEF r
<1>2. r.kind \in {"async", "cycle"} /\ r.queue \in SUBSET UTM
  BY <1>1, SaveType
<1>3. PICK next \in Resume(r.kind, r.queue) : pollers' = [pollers EXCEPT ![p] = next]
  BY DEF SaveFails, r
<1>4. next \in Poller
  BY <1>2, ResumeType
<1> QED
  BY <1>3, <1>4, PollersType DEF SaveFails

LEMMA UpdateType ==
    ASSUME TypeOK, NEW id \in Ids, NEW port \in Ports, NEW data \in FormData,
           handleUTMUpdate(id, port, data)
    PROVE  TypeOK'
<1> DEFINE addr == <<utms[id].addr[1], port>>
<1>1. utms[id] \in Row
  BY DEF handleUTMUpdate, Live, TypeOK
<1>2. addr \in Addrs
  BY <1>1 DEF Row, Addrs
<1>3. data \in Data
  BY Constants
<1> HIDE DEF addr
<1>4. utms' = [utms EXCEPT ![id] = [utms[id] EXCEPT !.addr = addr, !.data = data]]
  BY DEF handleUTMUpdate, addr, TypeOK
<1>5. [utms[id] EXCEPT !.addr = addr, !.data = data] \in Row
  BY <1>1, <1>2, <1>3 DEF Row
<1>6. utms' \in [Ids -> Row \cup {NoRow}]
  BY <1>4, <1>5 DEF TypeOK
<1>7. hadAddr' = [hadAddr EXCEPT ![id] = @ \cup {addr}]
  BY DEF handleUTMUpdate, addr
<1>8. hadAddr' \in [Ids -> SUBSET Addrs]
  BY <1>2, <1>7 DEF TypeOK
<1> QED
  BY <1>6, <1>8 DEF handleUTMUpdate, TypeOK

\* What is left of Next: the steps that change no row but to NoRow.
LEMMA OtherType ==
    ASSUME TypeOK,
           (\E id \in Ids : handleUTMDelete(id)) \/ Shutdown \/ Restart \/ Tick
    PROVE  TypeOK'
<1>1. CASE \E id \in Ids : handleUTMDelete(id)
  BY <1>1 DEF handleUTMDelete, TypeOK
<1>2. CASE Shutdown
  BY <1>2 DEF Shutdown, TypeOK
<1>3. CASE Restart
  <2>1. Idle \in Poller
    BY DEF Idle, Poller
  <2>2. pollers' \in [Pollers -> Poller]
    BY <1>3, <2>1 DEF Restart
  <2>3. restarts' = restarts + 1 /\ stopping' = FALSE
    BY <1>3, Zenon DEF Restart
  <2>4. restarts' \in Nat
    BY <2>3 DEF TypeOK
  <2>5. stopping' \in BOOLEAN
    BY <2>3, Zenon
  <2>6. UNCHANGED <<utms, lastId, now, hadAddr>>
    BY <1>3 DEF Restart
  <2> QED
    BY <2>2, <2>4, <2>5, <2>6 DEF TypeOK
<1>4. CASE Tick
  BY <1>4 DEF Tick, TypeOK
<1> QED
  BY <1>1, <1>2, <1>3, <1>4

LEMMA NextTypeOK == TypeOK /\ [Next]_vars => TypeOK'
<1> SUFFICES ASSUME TypeOK, [Next]_vars PROVE TypeOK'
  OBVIOUS
<1>1. ASSUME NEW p \in Pollers, Web(p) PROVE TypeOK'
  BY <1>1, CreateType, PollCreatedType, PollNowType DEF Web
<1>2. ASSUME NEW p \in Pollers, Poll(p) PROVE TypeOK'
  BY <1>2, RunCycleType, FetchInfoType, SaveResultType, SaveFailsType DEF Poll
<1>3. CASE Edit
  BY <1>3, UpdateType, OtherType DEF Edit
<1>4. CASE Shutdown \/ Restart \/ Tick
  BY <1>4, OtherType
<1>5. CASE UNCHANGED vars
  BY <1>5 DEF vars, TypeOK
<1> QED
  BY <1>1, <1>2, <1>3, <1>4, <1>5 DEF Next

\* Every variable keeps its type: in particular a column of a row is only ever
\* given a value of that column.
THEOREM TypeCorrect == Spec => []TypeOK
  BY InitTypeOK, NextTypeOK, PTL DEF Spec

-----------------------------------------------------------------------------
(* OnlyOwnDevice.  It is not inductive: a poll writes what it copied from   *)
(* the row when it began, or what a device answered it, into the row that   *)
(* has the id now.  The invariant says of these copies and answers what the *)
(* property says of the rows, and that a new row gets an id nobody refers   *)
(* to: every id in a row or a copy was issued already.                      *)

Own(fsrar, id) == fsrar = Absent \/ fsrar \in hadAddr[id]

RowsOwn ==
    \A id \in Live : /\ id <= lastId
                     /\ utms[id].addr \in hadAddr[id]
                     /\ Own(utms[id].fsrar, id)

CopiesOwn ==
    \A p \in Pollers : \A u \in Copies(pollers[p]) :
        /\ u.id <= lastId
        /\ u.addr \in hadAddr[u.id]
        /\ Own(u.fsrar, u.id)

AnswersOwn ==
    \A p \in Pollers : pollers[p].pc = "save" =>
        Own(pollers[p].info.fsrar, pollers[p].u.id)

Provenance == RowsOwn /\ CopiesOwn /\ AnswersOwn

LEMMA CopiesType ==
    ASSUME NEW r \in Poller
    PROVE  Copies(r) \in SUBSET UTM
  BY DEF Copies, Poller

\* A goroutine that moves on holds no more copies than it held.
LEMMA ResumeCopies ==
    ASSUME NEW kind, NEW queue, NEW next \in Resume(kind, queue)
    PROVE  Copies(next) \subseteq queue /\ next.pc # "save"
  BY DEF Resume, Idle, Fetching, Copies

\* A step that gives one goroutine a new state and changes nothing else.
LEMMA PollersOwn ==
    ASSUME TypeOK, Provenance, NEW p \in Pollers, NEW next,
           pollers' = [pollers EXCEPT ![p] = next],
           UNCHANGED <<utms, lastId, hadAddr>>,
           \A u \in Copies(next) : /\ u.id <= lastId
                                   /\ u.addr \in hadAddr[u.id]
                                   /\ Own(u.fsrar, u.id),
           next.pc = "save" => Own(next.info.fsrar, next.u.id)
    PROVE  Provenance'
<1>1. pollers'[p] = next /\ \A q \in Pollers \ {p} : pollers'[q] = pollers[q]
  BY DEF TypeOK
<1>2. RowsOwn'
  BY DEF Provenance, RowsOwn, Live, Own
<1>3. CopiesOwn'
  BY <1>1 DEF Provenance, CopiesOwn, Own
<1>4. AnswersOwn'
  BY <1>1 DEF Provenance, AnswersOwn, Own
<1> QED
  BY <1>2, <1>3, <1>4 DEF Provenance

\* The copy a poll takes of a row.
LEMMA SnapshotOwn ==
    ASSUME Provenance, NEW id \in Live
    PROVE  LET u == Snapshot(id) IN
           u.id <= lastId /\ u.addr \in hadAddr[u.id] /\ Own(u.fsrar, u.id)
  BY DEF Provenance, RowsOwn, Snapshot, Own

LEMMA InitProvenance == Init => Provenance
  BY DEF Init, Provenance, RowsOwn, CopiesOwn, AnswersOwn, Live, Copies, Idle

LEMMA CreateProvenance ==
    ASSUME TypeOK, Provenance, NEW p \in Pollers, NEW addr \in Addrs,
           CreateUTM(p, addr)
    PROVE  Provenance'
<1> DEFINE new == lastId + 1
<1>1. new \in Ids /\ lastId' = new /\ lastId \in Nat
  BY Constants DEF CreateUTM, NextId, TypeOK
<1>2. /\ utms'[new].addr = addr /\ utms'[new].fsrar = Absent
      /\ \A id \in Ids \ {new} : utms'[id] = utms[id]
  BY <1>1 DEF CreateUTM, NextId, TypeOK
<1>3. /\ hadAddr'[new] = {addr}
      /\ \A id \in Ids \ {new} : hadAddr'[id] = hadAddr[id]
  BY <1>1 DEF CreateUTM, NextId, TypeOK
<1>4. /\ pollers'[p] = Created(new)
      /\ \A q \in Pollers \ {p} : pollers'[q] = pollers[q]
  BY DEF CreateUTM, NextId, TypeOK
<1> HIDE DEF new
<1>5. \A id \in Ids : id <= lastId => id # new /\ id <= new
  BY <1>1 DEF new, Ids
<1>6. RowsOwn'
  <2> SUFFICES ASSUME NEW id \in Live'
               PROVE  id <= new /\ utms'[id].addr \in hadAddr'[id] /\ Own(utms[id].fsrar, id)'
    BY <1>1 DEF RowsOwn
  <2>1. CASE id = new
    BY <1>1, <1>2, <1>3, <2>1 DEF Own, Ids
  <2>2. CASE id # new
    <3>1. id \in Live /\ utms'[id] = utms[id] /\ hadAddr'[id] = hadAddr[id]
      BY <1>2, <1>3, <2>2 DEF Live
    <3>2. id <= lastId /\ utms[id].addr \in hadAddr[id] /\ Own(utms[id].fsrar, id)
      BY <3>1 DEF Provenance, RowsOwn
    <3> QED
      BY <1>5, <3>1, <3>2 DEF Own, Live
  <2> QED
    BY <2>1, <2>2
<1>7. CopiesOwn'
  <2> SUFFICES ASSUME NEW q \in Pollers, NEW u \in Copies(pollers'[q])
               PROVE  /\ u.id <= new /\ u.addr \in hadAddr'[u.id]
                      /\ u.fsrar = Absent \/ u.fsrar \in hadAddr'[u.id]
    BY <1>1 DEF CopiesOwn, Own
  <2>1. q # p
    BY <1>4 DEF Created, Copies
  <2>2. u \in Copies(pollers[q]) /\ u \in UTM
    BY <1>4, <2>1, CopiesType DEF TypeOK
  <2>3. u.id \in Ids /\ u.id <= lastId
    BY <2>2 DEF Provenance, CopiesOwn, UTM
  <2>4. hadAddr'[u.id] = hadAddr[u.id]
    BY <1>3, <1>5, <2>3
  <2> QED
    BY <1>5, <2>2, <2>3, <2>4 DEF Provenance, CopiesOwn, Own
<1>8. AnswersOwn'
  <2> SUFFICES ASSUME NEW q \in Pollers, pollers'[q].pc = "save"
               PROVE  \/ pollers'[q].info.fsrar = Absent
                      \/ pollers'[q].info.fsrar \in hadAddr'[pollers'[q].u.id]
    BY DEF AnswersOwn, Own
  <2>1. q # p
    BY <1>4 DEF Created
  <2>2. pollers[q] \in Poller /\ pollers[q].pc = "save" /\ pollers'[q] = pollers[q]
    BY <1>4, <2>1 DEF TypeOK
  <2>3. pollers[q].u \in Copies(pollers[q]) /\ pollers[q].u \in UTM
    BY <2>2, SaveType DEF Copies
  <2>4. pollers[q].u.id \in Ids /\ pollers[q].u.id <= lastId
    BY <2>3 DEF Provenance, CopiesOwn, UTM
  <2>5. hadAddr'[pollers[q].u.id] = hadAddr[pollers[q].u.id]
    BY <1>3, <1>5, <2>4
  <2> QED
    BY <2>2, <2>5 DEF Provenance, AnswersOwn, Own
<1> QED
  BY <1>6, <1>7, <1>8 DEF Provenance

LEMMA PollCreatedProvenance ==
    ASSUME TypeOK, Provenance, NEW p \in Pollers, PollCreated(p)
    PROVE  Provenance'
<1> DEFINE id == pollers[p].id
           next == IF id \in Live THEN Fetching("async", Snapshot(id), {}) ELSE Idle
<1>1. pollers' = [pollers EXCEPT ![p] = next]
  BY DEF PollCreated
<1>2. next.pc # "save"
  BY DEF Fetching, Idle
<1>3. Copies(next) = IF id \in Live THEN {Snapshot(id)} ELSE {}
  BY DEF Copies, Fetching, Idle
<1> HIDE DEF next, id
<1> QED
  BY <1>1, <1>2, <1>3, SnapshotOwn, PollersOwn DEF PollCreated

LEMMA PollNowProvenance ==
    ASSUME TypeOK, Provenance, NEW p \in Pollers, NEW id \in Ids,
           handleUTMPollNow(p, id)
    PROVE  Provenance'
<1> DEFINE next == Fetching("async", Snapshot(id), {})
<1>1. pollers' = [pollers EXCEPT ![p] = next] /\ id \in Live
  BY DEF handleUTMPollNow
<1>2. next.pc # "save" /\ Copies(next) = {Snapshot(id)}
  BY DEF Fetching, Copies
<1> HIDE DEF next
<1> QED
  BY <1>1, <1>2, SnapshotOwn, PollersOwn DEF handleUTMPollNow

LEMMA RunCycleProvenance ==
    ASSUME TypeOK, Provenance, NEW p \in Pollers, RunCycle(p)
    PROVE  Provenance'
<1> DEFINE all == {Snapshot(id) : id \in Live}
<1>1. PICK next \in Resume("cycle", all) : pollers' = [pollers EXCEPT ![p] = next]
  BY DEF RunCycle
<1>2. \A u \in all : /\ u.id <= lastId
                     /\ u.addr \in hadAddr[u.id]
                     /\ Own(u.fsrar, u.id)
  BY SnapshotOwn
<1> HIDE DEF all
<1>3. Copies(next) \subseteq all /\ next.pc # "save"
  BY ResumeCopies
<1> QED
  BY <1>1, <1>2, <1>3, PollersOwn DEF RunCycle

LEMMA FetchInfoProvenance ==
    ASSUME TypeOK, Provenance, NEW p \in Pollers, FetchInfo(p)
    PROVE  Provenance'
<1> DEFINE r == pollers[p]
<1>1. r \in Poller /\ r.pc = "fetch"
  BY DEF TypeOK, FetchInfo
<1>2. PICK info \in FetchOutcomes(r.u.addr) \cup CanceledOutcomes(r.kind) :
         pollers' = [pollers EXCEPT ![p] = Saving(r.kind, r.u, r.queue, info)]
  BY DEF FetchInfo
<1> DEFINE next == Saving(r.kind, r.u, r.queue, info)
<1>3. info.fsrar \in {Absent, r.u.addr}
  BY OutcomeOrigin
<1>4. Copies(r) = {r.u} \cup r.queue
  BY <1>1 DEF Copies
<1>5. \A u \in Copies(r) : /\ u.id <= lastId
                           /\ u.addr \in hadAddr[u.id]
                           /\ Own(u.fsrar, u.id)
  BY DEF Provenance, CopiesOwn
<1>6. Copies(next) = Copies(r)
  BY <1>4 DEF Copies, Saving
<1>7. Own(next.info.fsrar, next.u.id)
  BY <1>3, <1>4, <1>5 DEF Saving, Own
<1> HIDE DEF next, r
<1> QED
  BY <1>2, <1>5, <1>6, <1>7, PollersOwn DEF FetchInfo, next

LEMMA SaveFailsProvenance ==
    ASSUME TypeOK, Provenance, NEW p \in Pollers, SaveFails(p)
    PROVE  Provenance'
<1> DEFINE r == pollers[p]
<1>1. PICK next \in Resume(r.kind, r.queue) : pollers' = [pollers EXCEPT ![p] = next]
  BY DEF SaveFails
<1>2. r.queue \subseteq Copies(r)
  BY DEF SaveFails, Copies
<1>3. Copies(next) \subseteq Copies(r) /\ next.pc # "save"
  BY <1>2, ResumeCopies
<1>4. \A u \in Copies(r) : /\ u.id <= lastId
                           /\ u.addr \in hadAddr[u.id]
                           /\ Own(u.fsrar, u.id)
  BY DEF Provenance, CopiesOwn
<1> HIDE DEF r
<1> QED
  BY <1>1, <1>3, <1>4, PollersOwn DEF SaveFails

\* The step the property is about: the row has the id of the copy, so what the
\* copy and the answer hold is this row's own.
LEMMA SaveResultProvenance ==
    ASSUME TypeOK, Provenance, NEW p \in Pollers, SaveUTMPollResult(p)
    PROVE  Provenance'
<1> DEFINE r == pollers[p]
           id == r.u.id
<1>1. r \in Poller /\ r.pc = "save"
  BY DEF TypeOK, SaveUTMPollResult
<1>2. r.u \in UTM /\ r.info \in Info
  BY <1>1, SaveType
<1>3. PICK next \in Resume(r.kind, r.queue) : pollers' = [pollers EXCEPT ![p] = next]
  BY DEF SaveUTMPollResult
<1>4. r.u \in Copies(r) /\ r.queue \subseteq Copies(r)
  BY <1>1 DEF Copies
<1>5. Copies(next) \subseteq Copies(r) /\ next.pc # "save"
  BY <1>4, ResumeCopies
<1>6. UNCHANGED <<lastId, hadAddr>>
  BY DEF SaveUTMPollResult
<1>7. CopiesOwn'
  BY <1>3, <1>5, <1>6 DEF Provenance, CopiesOwn, Own, TypeOK
<1>8. AnswersOwn'
  BY <1>3, <1>5, <1>6 DEF Provenance, AnswersOwn, Own, TypeOK
<1>9. RowsOwn'
  <2>1. CASE id \in Live
    <3> DEFINE result == Merge(r.u, r.info)
               row == Polled(utms[id], result, r.info.fsrar # Absent)
    <3>1. utms' = [utms EXCEPT ![id] = row]
      BY <2>1 DEF SaveUTMPollResult
    <3>2. Own(result.fsrar, id)
      <4>1. Own(r.info.fsrar, id)
        BY <1>1 DEF Provenance, AnswersOwn
      <4>2. Own(r.u.fsrar, id)
        BY <1>4 DEF Provenance, CopiesOwn
      <4> QED
        BY <4>1, <4>2 DEF Merge, Determined
    <3>3. row.addr = utms[id].addr /\ row.fsrar = result.fsrar
      <4>1. utms[id] \in Row
        BY <2>1 DEF TypeOK, Live
      <4> QED
        BY <4>1 DEF Polled, Row
    <3> HIDE DEF row, result, r
    <3> QED
      BY <1>6, <2>1, <3>1, <3>2, <3>3 DEF Provenance, RowsOwn, Live, Own, TypeOK
  <2>2. CASE id \notin Live
    BY <1>6, <2>2 DEF SaveUTMPollResult, Provenance, RowsOwn, Live, Own
  <2> QED
    BY <2>1, <2>2
<1> QED
  BY <1>7, <1>8, <1>9 DEF Provenance

LEMMA UpdateProvenance ==
    ASSUME TypeOK, Provenance, NEW id \in Ids, NEW port \in Ports,
           NEW data \in FormData, handleUTMUpdate(id, port, data)
    PROVE  Provenance'
<1> DEFINE addr == <<utms[id].addr[1], port>>
<1>1. /\ utms' = [utms EXCEPT ![id] = [utms[id] EXCEPT !.addr = addr, !.data = data]]
      /\ hadAddr' = [hadAddr EXCEPT ![id] = @ \cup {addr}]
      /\ UNCHANGED <<lastId, pollers>>
  BY DEF handleUTMUpdate, TypeOK
<1>2. utms[id] \in Row /\ id \in Live
  BY DEF handleUTMUpdate, Live, TypeOK
<1> HIDE DEF addr
<1>3. \A i \in Ids : hadAddr[i] \subseteq hadAddr'[i]
  BY <1>1 DEF TypeOK
<1>4. CopiesOwn'
  <2>1. \A p \in Pollers : Copies(pollers[p]) \in SUBSET UTM
    BY CopiesType DEF TypeOK
  <2> QED
    BY <1>1, <1>3, <2>1 DEF Provenance, CopiesOwn, Own, UTM
<1>5. AnswersOwn'
  <2>1. \A p \in Pollers : pollers[p].pc = "save" => pollers[p].u \in UTM
    BY SaveType DEF TypeOK
  <2> QED
    BY <1>1, <1>3, <2>1 DEF Provenance, AnswersOwn, Own, UTM
<1>6. utms'[id].addr = addr /\ utms'[id].fsrar = utms[id].fsrar
  BY <1>1, <1>2 DEF TypeOK, Row
<1>7. addr \in hadAddr'[id]
  BY <1>1 DEF TypeOK
<1>8. RowsOwn'
  BY <1>1, <1>2, <1>3, <1>6, <1>7 DEF Provenance, RowsOwn, Own, Live, TypeOK
<1> QED
  BY <1>4, <1>5, <1>8 DEF Provenance

LEMMA OtherProvenance ==
    ASSUME TypeOK, Provenance,
           (\E id \in Ids : handleUTMDelete(id)) \/ Shutdown \/ Restart \/ Tick
    PROVE  Provenance'
<1>1. CASE \E id \in Ids : handleUTMDelete(id)
  BY <1>1 DEF handleUTMDelete, Provenance, RowsOwn, CopiesOwn, AnswersOwn, Own,
              Live, TypeOK
<1>2. CASE Restart
  BY <1>2 DEF Restart, Provenance, RowsOwn, CopiesOwn, AnswersOwn, Own, Live,
              Copies, Idle
<1>3. CASE Shutdown \/ Tick
  BY <1>3 DEF Shutdown, Tick, Provenance, RowsOwn, CopiesOwn, AnswersOwn, Own, Live
<1> QED
  BY <1>1, <1>2, <1>3

LEMMA NextProvenance == TypeOK /\ Provenance /\ [Next]_vars => Provenance'
<1> SUFFICES ASSUME TypeOK, Provenance, [Next]_vars PROVE Provenance'
  OBVIOUS
<1>1. ASSUME NEW p \in Pollers, Web(p) PROVE Provenance'
  BY <1>1, CreateProvenance, PollCreatedProvenance, PollNowProvenance DEF Web
<1>2. ASSUME NEW p \in Pollers, Poll(p) PROVE Provenance'
  BY <1>2, RunCycleProvenance, FetchInfoProvenance, SaveResultProvenance,
     SaveFailsProvenance DEF Poll
<1>3. CASE Edit
  BY <1>3, UpdateProvenance, OtherProvenance DEF Edit
<1>4. CASE Shutdown \/ Restart \/ Tick
  BY <1>4, OtherProvenance
<1>5. CASE UNCHANGED vars
  BY <1>5 DEF vars, Provenance, RowsOwn, CopiesOwn, AnswersOwn, Own, Live
<1> QED
  BY <1>1, <1>2, <1>3, <1>4, <1>5 DEF Next

\* No poll ever stores what another device reported, however polls, cycles and
\* restarts interleave with the creation, edition and deletion of devices: the
\* FSRAR_ID of a row comes from a device at an address this row had.
THEOREM PollsStayHome == Spec => []OnlyOwnDevice
<1>1. Provenance => OnlyOwnDevice
  BY DEF Provenance, RowsOwn, Own, OnlyOwnDevice
<1> QED
  BY <1>1, TypeCorrect, InitProvenance, NextProvenance, PTL DEF Spec

-----------------------------------------------------------------------------
(* The failure streak.  That it started no later than the last poll needs   *)
(* the clock: no row has a time later than now.                             *)

TimesPast ==
    \A id \in Live : /\ utms[id].polledAt \in Nat => utms[id].polledAt <= now
                     /\ utms[id].failingSince \in Nat => utms[id].failingSince <= now

Streak == StreakConsistent /\ TimesPast

\* What both say of a row, and that the UPDATE of a poll makes it true.
StreakOf(r, t) ==
    /\ r.ok <=> (r.polledAt # Absent /\ r.failures = 0)
    /\ (r.failures = 0) <=> (r.failingSince = Absent)
    /\ r.failures > 0 => /\ r.polledAt # Absent
                         /\ r.failingSince <= r.polledAt
    /\ r.polledAt \in Nat => r.polledAt <= t
    /\ r.failingSince \in Nat => r.failingSince <= t

LEMMA StreakByRow == Streak <=> \A id \in Live : StreakOf(utms[id], now)
  BY DEF Streak, StreakConsistent, TimesPast, StreakOf

LEMMA PolledStreak ==
    ASSUME now \in Nat, NEW row \in Row, StreakOf(row, now),
           NEW result, NEW ok \in BOOLEAN
    PROVE  StreakOf(Polled(row, result, ok), now)
<1> DEFINE new == Polled(row, result, ok)
<1>1. /\ new.polledAt = now
      /\ new.ok = ok
      /\ new.failures = IF ok THEN 0 ELSE row.failures + 1
      /\ new.failingSince = IF ok THEN Absent
                            ELSE IF row.failingSince = Absent THEN now
                            ELSE row.failingSince
  BY DEF Polled, Row
<1>2. row.failures \in Nat /\ row.failingSince \in Nat \cup {Absent}
  BY DEF Row, Times
<1> HIDE DEF new
<1>3. now # Absent
  BY Constants
<1>4. CASE ok
  <2>1. new.failures = 0 /\ new.failingSince = Absent
    BY <1>1, <1>4
  <2>2. new.ok <=> (new.polledAt # Absent /\ new.failures = 0)
    BY <1>1, <1>3, <1>4, <2>1, Zenon
  <2>3. new.failingSince \notin Nat /\ new.polledAt <= now
    BY <1>1, <2>1, Constants
  <2>4. ~(new.failures > 0)
    BY <2>1
  <2> QED
    BY <2>1, <2>2, <2>3, <2>4, Zenon DEF StreakOf, new
<1>5. CASE ~ok
  <2>1. /\ new.failures = row.failures + 1
        /\ new.failures # 0
        /\ new.failingSince \in Nat /\ new.failingSince <= now
    BY <1>1, <1>2, <1>5 DEF StreakOf
  <2>2. new.ok <=> (new.polledAt # Absent /\ new.failures = 0)
    BY <1>1, <1>5, <2>1, Zenon
  <2>3. new.failingSince # Absent
    BY <2>1, Constants
  <2>4. new.polledAt # Absent /\ new.failingSince <= new.polledAt /\ new.polledAt <= now
    BY <1>1, <1>3, <2>1
  <2> QED
    BY <2>1, <2>2, <2>3, <2>4, Zenon DEF StreakOf, new
<1> QED
  BY <1>4, <1>5

\* A step that leaves the polling columns of the rows that stay alone.
LEMMA StreakKept ==
    ASSUME TypeOK, Streak, now' \in Nat, now <= now',
           \A id \in Live' : /\ id \in Live
                             /\ utms'[id].ok = utms[id].ok
                             /\ utms'[id].polledAt = utms[id].polledAt
                             /\ utms'[id].failures = utms[id].failures
                             /\ utms'[id].failingSince = utms[id].failingSince
    PROVE  Streak'
<1> SUFFICES ASSUME NEW id \in Live' PROVE StreakOf(utms'[id], now')
  BY StreakByRow DEF Streak, StreakConsistent, TimesPast, StreakOf
<1>1. StreakOf(utms[id], now)
  BY StreakByRow
<1>2. now \in Nat
  BY DEF TypeOK
<1> QED
  BY <1>1, <1>2 DEF StreakOf

LEMMA CreateStreak ==
    ASSUME TypeOK, Streak, NEW p \in Pollers, NEW addr \in Addrs,
           CreateUTM(p, addr)
    PROVE  Streak'
<1> DEFINE new == NextId
<1>1. /\ new \in Ids
      /\ utms'[new].polledAt = Absent /\ utms'[new].ok = FALSE
      /\ utms'[new].failures = 0 /\ utms'[new].failingSince = Absent
      /\ \A id \in Ids \ {new} : utms'[id] = utms[id]
  BY DEF CreateUTM, TypeOK
<1>2. now' = now
  BY DEF CreateUTM
<1> HIDE DEF new
<1> SUFFICES ASSUME NEW id \in Live' PROVE StreakOf(utms'[id], now)
  BY <1>2 DEF Streak, StreakConsistent, TimesPast, StreakOf
<1>3. CASE id = new
  BY <1>1, <1>3, Constants DEF StreakOf
<1>4. CASE id # new
  <2>1. id \in Live /\ utms'[id] = utms[id]
    BY <1>1, <1>4 DEF Live
  <2> QED
    BY <2>1, StreakByRow
<1> QED
  BY <1>3, <1>4

LEMMA SaveResultStreak ==
    ASSUME TypeOK, Streak, NEW p \in Pollers, SaveUTMPollResult(p)
    PROVE  Streak'
<1> DEFINE id == pollers[p].u.id
           ok == pollers[p].info.fsrar # Absent
           result == Merge(pollers[p].u, pollers[p].info)
<1>1. utms' = IF id \in Live
              THEN [utms EXCEPT ![id] = Polled(utms[id], result, ok)] ELSE utms
  BY DEF SaveUTMPollResult
<1>2. now' = now /\ now \in Nat
  BY DEF SaveUTMPollResult, TypeOK
<1>3. ok \in BOOLEAN
  BY Zenon
<1> HIDE DEF id, ok, result
<1> SUFFICES ASSUME NEW i \in Live' PROVE StreakOf(utms'[i], now)
  BY <1>2 DEF Streak, StreakConsistent, TimesPast, StreakOf
<1>4. i \in Live
  BY <1>1 DEF Live, TypeOK
<1>5. StreakOf(utms[i], now) /\ utms[i] \in Row
  BY <1>4, StreakByRow DEF Live, TypeOK
<1>6. StreakOf(Polled(utms[i], result, ok), now)
  BY <1>2, <1>3, <1>5, PolledStreak
<1>7. utms'[i] = utms[i] \/ utms'[i] = Polled(utms[i], result, ok)
  BY <1>1, <1>4 DEF Live, TypeOK
<1> QED
  BY <1>5, <1>6, <1>7

LEMMA NextStreak == TypeOK /\ Streak /\ [Next]_vars => Streak'
<1> SUFFICES ASSUME TypeOK, Streak, [Next]_vars PROVE Streak'
  OBVIOUS
<1>1. ASSUME UNCHANGED <<utms, now>> PROVE Streak'
  BY <1>1 DEF Streak, StreakConsistent, TimesPast, Live
<1>2. ASSUME NEW p \in Pollers, Web(p) PROVE Streak'
  BY <1>1, <1>2, CreateStreak DEF Web, PollCreated, handleUTMPollNow
<1>3. ASSUME NEW p \in Pollers, Poll(p) PROVE Streak'
  BY <1>1, <1>3, SaveResultStreak DEF Poll, RunCycle, FetchInfo, SaveFails
<1>4. ASSUME NEW id \in Ids, NEW port \in Ports, NEW data \in FormData,
             handleUTMUpdate(id, port, data)
      PROVE  Streak'
  <2>1. /\ now' = now /\ now \in Nat
        /\ utms[id] \in Row /\ id \in Live
        /\ utms' = [utms EXCEPT ![id] = [utms[id] EXCEPT
                      !.addr = <<utms[id].addr[1], port>>, !.data = data]]
    BY <1>4 DEF handleUTMUpdate, Live, TypeOK
  <2>2. \A i \in Live' : i \in Live /\ (i # id => utms'[i] = utms[i])
    BY <2>1 DEF Live, TypeOK
  <2>3. /\ utms'[id].ok = utms[id].ok
        /\ utms'[id].polledAt = utms[id].polledAt
        /\ utms'[id].failures = utms[id].failures
        /\ utms'[id].failingSince = utms[id].failingSince
    BY <2>1 DEF TypeOK, Row
  <2> QED
    BY <2>1, <2>2, <2>3, StreakKept
<1>5. ASSUME NEW id \in Ids, handleUTMDelete(id) PROVE Streak'
  <2>1. now' = now /\ now \in Nat
    BY <1>5 DEF handleUTMDelete, TypeOK
  <2>2. \A i \in Live' : i \in Live /\ utms'[i] = utms[i]
    BY <1>5 DEF handleUTMDelete, Live, TypeOK
  <2> QED
    BY <2>1, <2>2, StreakKept
<1>6. ASSUME Tick PROVE Streak'
  <2>1. now' \in Nat /\ now <= now' /\ utms' = utms
    BY <1>6 DEF Tick, TypeOK
  <2> QED
    BY <2>1, StreakKept DEF Live
<1>7. CASE Shutdown \/ Restart
  BY <1>1, <1>7 DEF Shutdown, Restart
<1>8. CASE UNCHANGED vars
  BY <1>1, <1>8 DEF vars
<1> QED
  BY <1>2, <1>3, <1>4, <1>5, <1>6, <1>7, <1>8 DEF Next, Edit

LEMMA InitStreak == Init => Streak
  BY DEF Init, Streak, StreakConsistent, TimesPast, Live

\* The badge of the index page never contradicts itself: a row that answered
\* its last poll has no failure streak, any other polled row has one, which
\* began no later than that poll.
THEOREM BadgeConsistent == Spec => []StreakConsistent
<1>1. Streak => StreakConsistent
  BY DEF Streak
<1> QED
  BY <1>1, TypeCorrect, InitStreak, NextStreak, PTL DEF Spec

\* Overlapping polls of a row each count once and never move the start of its
\* streak: the UPDATE computes both from the row, not from the poll's copy.
THEOREM StreaksUnbroken == Spec => StreakUnbroken
<1> DEFINE Counted(p) ==
      LET id  == pollers[p].u.id
          old == utms[id]
          new == utms'[id] IN
      IF pollers[p].info.fsrar # Absent
      THEN new.failingSince = Absent /\ new.failures = 0
      ELSE /\ new.failures = old.failures + 1
           /\ IF old.failures = 0 THEN new.failingSince = now
              ELSE new.failingSince = old.failingSince
<1>1. ASSUME TypeOK, Streak, NEW p \in Pollers, Saves(p) PROVE Counted(p)
  <2> DEFINE id == pollers[p].u.id
             ok == pollers[p].info.fsrar # Absent
             result == Merge(pollers[p].u, pollers[p].info)
  <2>1. id \in Live /\ utms' = [utms EXCEPT ![id] = Polled(utms[id], result, ok)]
    BY <1>1 DEF Saves, SaveUTMPollResult
  <2>2. utms[id] \in Row /\ utms'[id] = Polled(utms[id], result, ok)
    BY <1>1, <2>1 DEF Live, TypeOK
  <2>3. (utms[id].failures = 0) <=> (utms[id].failingSince = Absent)
    BY <1>1, <2>1 DEF Streak, StreakConsistent
  <2>4. /\ utms'[id].failures = IF ok THEN 0 ELSE utms[id].failures + 1
        /\ utms'[id].failingSince =
             IF ok THEN Absent
             ELSE IF utms[id].failingSince = Absent THEN now
             ELSE utms[id].failingSince
    BY <2>2 DEF Polled, Row
  <2> QED
    BY <2>3, <2>4
<1>2. TypeOK /\ Streak =>
        [\A p \in Pollers : Saves(p) => Counted(p)]_vars
  BY <1>1
<1> QED
  BY <1>2, TypeCorrect, InitStreak, NextStreak, PTL DEF Spec, StreakUnbroken

-----------------------------------------------------------------------------
(* Polls that do not overlap keep what they did not determine.             *)

Current(u) == u.id \in Live => utms[u.id].data = u.data

\* One copy of each device, and each of them is what the row still says.
RunFresh(r) ==
    /\ r.pc \in {"fetch", "save"} => r.u \notin r.queue
    /\ \A u, v \in Copies(r) : u.id = v.id => u = v
    /\ \A u \in Copies(r) : Current(u)

Fresh == \A p \in Pollers : RunFresh(pollers[p])

LEMMA IdleFresh == RunFresh(Idle) /\ \A id : RunFresh(Created(id))
  BY DEF RunFresh, Copies, Idle, Created

\* Copies just read are fresh.
LEMMA SnapshotsFresh ==
    ASSUME TypeOK, NEW ids \in SUBSET Live
    PROVE  /\ \A u, v \in {Snapshot(id) : id \in ids} : u.id = v.id => u = v
           /\ \A u \in {Snapshot(id) : id \in ids} : Current(u)
  BY DEF Snapshot, Current

\* Going on to the next device of a list.
LEMMA ResumeFresh ==
    ASSUME NEW kind, NEW queue, NEW next \in Resume(kind, queue),
           \A u, v \in queue : u.id = v.id => u = v, \A u \in queue : Current(u)
    PROVE  RunFresh(next)
<1>1. CASE queue = {}
  BY <1>1, IdleFresh DEF Resume
<1>2. CASE queue # {}
  <2>1. PICK u \in queue : next = Fetching(kind, u, queue \ {u})
    BY <1>2 DEF Resume
  <2>2. next.pc = "fetch" /\ next.u = u /\ next.queue = queue \ {u}
    BY <2>1 DEF Fetching
  <2>3. Copies(next) = queue
    BY <2>2 DEF Copies
  <2> QED
    BY <2>2, <2>3 DEF RunFresh
<1> QED
  BY <1>1, <1>2

\* A goroutine moves on, and no row of which one has a copy changes its data.
LEMMA OneFresh ==
    ASSUME TypeOK, Fresh, NEW p \in Pollers, NEW next,
           RunFresh(next), pollers' = [pollers EXCEPT ![p] = next],
           \A q \in Pollers : q # p =>
              \A u \in Copies(pollers[q]) : Current(u) => Current(u)',
           \A u \in Copies(next) : Current(u) => Current(u)'
    PROVE  Fresh'
<1>1. pollers'[p] = next /\ \A q \in Pollers : q # p => pollers'[q] = pollers[q]
  BY DEF TypeOK
<1>2. RunFresh(next)'
  BY DEF RunFresh, Copies
<1>3. ASSUME NEW q \in Pollers, q # p PROVE RunFresh(pollers[q])'
  <2>1. pollers'[q] = pollers[q] /\ RunFresh(pollers[q])
    BY <1>1, <1>3 DEF Fresh
  <2> QED
    BY <1>3, <2>1 DEF RunFresh, Copies
<1> QED
  BY <1>1, <1>2, <1>3 DEF Fresh

\* A step that leaves the rows alone.
LEMMA RowsFresh ==
    ASSUME TypeOK, Fresh, NEW p \in Pollers, NEW next,
           RunFresh(next), pollers' = [pollers EXCEPT ![p] = next], utms' = utms
    PROVE  Fresh'
<1>1. \A u : Current(u)' <=> Current(u)
  BY DEF Current, Live
<1> QED
  BY <1>1, OneFresh

\* A new row has an id that no copy has.
LEMMA CreateFresh ==
    ASSUME TypeOK, Provenance, Fresh, NEW p \in Pollers, NEW addr \in Addrs,
           CreateUTM(p, addr)
    PROVE  Fresh'
<1>1. pollers' = [pollers EXCEPT ![p] = Created(NextId)]
  BY DEF CreateUTM
<1>2. Copies(Created(NextId)) = {}
  BY DEF Copies, Created
<1>3. ASSUME NEW q \in Pollers, NEW u \in Copies(pollers[q]), Current(u)
      PROVE  Current(u)'
  <2>1. u.id <= lastId /\ lastId \in Nat
    BY Constants DEF Provenance, CopiesOwn, TypeOK
  <2>2. u.id \in Ids
    BY CopiesType DEF TypeOK, UTM
  <2>3. u.id # NextId
    BY <2>1, <2>2, Constants DEF NextId, Ids
  <2>4. utms'[u.id] = utms[u.id]
    BY <2>2, <2>3 DEF CreateUTM, TypeOK
  <2> QED
    BY <1>3, <2>4 DEF Current, Live
<1> QED
  BY <1>1, <1>2, <1>3, IdleFresh, OneFresh

LEMMA WebFresh ==
    ASSUME TypeOK, Provenance, Fresh, NEW p \in Pollers, Web(p)
    PROVE  Fresh'
<1>1. ASSUME NEW id \in Live
      PROVE  RunFresh(Fetching("async", Snapshot(id), {}))
  <2> DEFINE u == Snapshot(id)
  <2>1. Current(u)
    BY DEF Snapshot, Current
  <2> HIDE DEF u
  <2> DEFINE next == Fetching("async", u, {})
  <2>2. next.pc = "fetch" /\ next.u = u /\ next.queue = {}
    BY DEF Fetching
  <2> HIDE DEF next
  <2>3. Copies(next) = {u}
    BY <2>2 DEF Copies
  <2>4. RunFresh(next)
    BY <2>1, <2>2, <2>3 DEF RunFresh
  <2> QED
    BY <2>4 DEF next, u
<1>2. CASE PollCreated(p)
  <2>1. CASE pollers[p].id \in Live
    BY <1>1, <1>2, <2>1, RowsFresh DEF PollCreated
  <2>2. CASE pollers[p].id \notin Live
    BY <1>2, <2>2, IdleFresh, RowsFresh DEF PollCreated
  <2> QED
    BY <2>1, <2>2
<1>3. ASSUME NEW id \in Ids, handleUTMPollNow(p, id)
      PROVE  Fresh'
  BY <1>1, <1>3, RowsFresh DEF handleUTMPollNow
<1> QED
  BY <1>2, <1>3, CreateFresh DEF Web

LEMMA CycleFresh ==
    ASSUME TypeOK, Fresh, NEW p \in Pollers, RunCycle(p)
    PROVE  Fresh'
<1> DEFINE queue == {Snapshot(id) : id \in Live}
<1>1. PICK next \in Resume("cycle", queue) : pollers' = [pollers EXCEPT ![p] = next]
  BY DEF RunCycle
<1>2. /\ \A u, v \in queue : u.id = v.id => u = v
      /\ \A u \in queue : Current(u)
  BY SnapshotsFresh
<1> HIDE DEF queue
<1>3. RunFresh(next)
  BY <1>2, ResumeFresh
<1> QED
  BY <1>1, <1>3, RowsFresh DEF RunCycle

LEMMA FetchFresh ==
    ASSUME TypeOK, Fresh, NEW p \in Pollers, FetchInfo(p)
    PROVE  Fresh'
<1> DEFINE r == pollers[p]
<1>1. r.pc = "fetch" /\ RunFresh(r)
  BY DEF FetchInfo, Fresh
<1>2. PICK info : pollers' = [pollers EXCEPT ![p] = Saving(r.kind, r.u, r.queue, info)]
  BY DEF FetchInfo
<1> HIDE DEF r
<1> DEFINE next == Saving(r.kind, r.u, r.queue, info)
<1>3. next.pc = "save" /\ next.u = r.u /\ next.queue = r.queue
  BY DEF Saving
<1>4. pollers' = [pollers EXCEPT ![p] = next]
  BY <1>2
<1> HIDE DEF next
<1>5. RunFresh(next)
  BY <1>1, <1>3 DEF RunFresh, Copies
<1> QED
  BY <1>4, <1>5, RowsFresh DEF FetchInfo

LEMMA SaveFresh ==
    ASSUME TypeOK, Fresh, PollsApart, NEW p \in Pollers,
           SaveUTMPollResult(p) \/ SaveFails(p)
    PROVE  Fresh'
<1> DEFINE r == pollers[p]
<1>1. r.pc = "save" /\ RunFresh(r)
  BY DEF SaveUTMPollResult, SaveFails, Fresh
<1>2. PICK next \in Resume(r.kind, r.queue) : pollers' = [pollers EXCEPT ![p] = next]
  BY DEF SaveUTMPollResult, SaveFails
<1>3. \A id \in Ids : id # r.u.id => utms'[id] = utms[id]
  BY DEF SaveUTMPollResult, SaveFails, TypeOK
<1>4. ASSUME NEW q \in Pollers, q # p, NEW u \in Copies(pollers[q]), Current(u)
      PROVE  Current(u)'
  <2>1. r.u \in Copies(pollers[p])
    BY <1>1 DEF Copies
  <2>2. u.id # r.u.id
    BY <1>4, <2>1 DEF PollsApart
  <2>3. u.id \in Ids
    BY CopiesType DEF TypeOK, UTM
  <2> QED
    BY <1>3, <1>4, <2>2, <2>3 DEF Current, Live
<1> HIDE DEF r
<1>5. /\ \A u, v \in r.queue : u.id = v.id => u = v
      /\ \A u \in r.queue : Current(u) /\ u.id # r.u.id
  BY <1>1 DEF RunFresh, Copies
<1>6. RunFresh(next)
  BY <1>5, ResumeFresh
<1>7. Copies(next) \subseteq r.queue
  <2>1. CASE r.queue = {}
    BY <1>2, <2>1 DEF Resume, Copies, Idle
  <2>2. CASE r.queue # {}
    BY <1>2, <2>2 DEF Resume, Copies, Fetching
  <2> QED
    BY <2>1, <2>2
<1>8. \A u \in Copies(next) : Current(u) => Current(u)'
  BY <1>3, <1>5, <1>7 DEF Current, Live
<1> QED
  BY <1>2, <1>6, <1>8, <1>4, OneFresh

LEMMA EditFresh ==
    ASSUME TypeOK, Fresh, Unheld, Edit
    PROVE  Fresh'
<1>1. PICK id \in Ids : /\ \A x \in Ids : x # id => utms'[x] = utms[x]
                       /\ \/ id \notin Live'
                          \/ \E port \in Ports, data \in FormData :
                                handleUTMUpdate(id, port, data)
  BY DEF Edit, handleUTMUpdate, handleUTMDelete, Live, TypeOK
<1>2. pollers' = pollers
  BY DEF Edit, handleUTMUpdate, handleUTMDelete
<1>3. ASSUME NEW p \in Pollers, NEW u \in Copies(pollers[p]), Current(u)
      PROVE  Current(u)'
  <2>1. u.id \in Ids
    BY CopiesType DEF TypeOK, UTM
  <2>2. u.id # id \/ id \notin Live'
    BY <1>1 DEF Unheld
  <2> QED
    BY <1>1, <1>3, <2>1, <2>2 DEF Current, Live
<1> QED
  BY <1>2, <1>3 DEF Fresh, RunFresh, Copies

LEMMA NextFresh ==
    ASSUME TypeOK, Provenance, Fresh, PollsApart, [Unheld]_vars, [Next]_vars
    PROVE  Fresh'
<1>1. ASSUME NEW p \in Pollers, Web(p) \/ Poll(p)
      PROVE  Fresh'
  BY <1>1, WebFresh, CycleFresh, FetchFresh, SaveFresh DEF Poll
<1>2. CASE Restart
  <2>1. \A p \in Pollers : pollers'[p] = Idle
    BY <1>2 DEF Restart
  <2>2. RunFresh(Idle)'
    BY DEF RunFresh, Copies, Idle
  <2> QED
    BY <2>1, <2>2 DEF Fresh
<1>3. CASE Shutdown \/ Tick \/ UNCHANGED vars
  <2>1. pollers' = pollers /\ utms' = utms
    BY <1>3 DEF Shutdown, Tick, vars
  <2> QED
    BY <2>1 DEF Fresh, RunFresh, Copies, Current, Live
<1> QED
  BY <1>1, <1>2, <1>3, EditFresh DEF Next

\* However many goroutines poll, and next to creation, deletion, restarts and
\* failing statements: a poll leaves alone what it did not determine, in every
\* behaviour in which no two goroutines have a copy of the same row and no form
\* is saved for a row while one has.  Nothing else makes a poll erase anything.
THEOREM PollsApartKeep == Spec /\ []PollsApart /\ EditsApart => KeepsUndetermined
<1> DEFINE Kept == \A p \in Pollers : Saves(p) =>
                      LET id == pollers[p].u.id IN
                      \A f \in Fields :
                         pollers[p].info.data[f] = Absent =>
                            utms'[id].data[f] = utms[id].data[f]
<1>1. Init => Fresh
  BY IdleFresh DEF Init, Fresh
<1>2. TypeOK /\ Fresh => [Kept]_vars
  <2> SUFFICES ASSUME TypeOK, Fresh, NEW p \in Pollers, Saves(p),
                      NEW f \in Fields, pollers[p].info.data[f] = Absent
               PROVE  utms'[pollers[p].u.id].data[f] = utms[pollers[p].u.id].data[f]
    OBVIOUS
  <2> DEFINE r == pollers[p]
             result == Merge(r.u, r.info)
  <2>1. /\ r.pc = "save" /\ r.u.id \in Live
        /\ utms' = [utms EXCEPT ![r.u.id] =
                      Polled(utms[r.u.id], result, r.info.fsrar # Absent)]
    BY DEF Saves, SaveUTMPollResult
  <2>2. r \in Poller /\ RunFresh(r)
    BY DEF TypeOK, Fresh
  <2>3. utms[r.u.id].data = r.u.data
    BY <2>1, <2>2 DEF RunFresh, Copies, Current
  <2>4. result.data[f] = r.u.data[f]
    BY DEF Merge, Determined
  <2>5. utms'[r.u.id] = Polled(utms[r.u.id], result, r.info.fsrar # Absent)
    BY <2>1 DEF TypeOK, Live
  <2>6. utms[r.u.id] \in Row
    BY <2>1 DEF TypeOK, Live
  <2> HIDE DEF r, result
  <2>7. Polled(utms[r.u.id], result, r.info.fsrar # Absent).data = result.data
    BY <2>6 DEF Polled, Row
  <2> QED
    BY <2>3, <2>4, <2>5, <2>7 DEF r
<1>3. KeepsUndetermined <=> [][Kept]_vars
  BY DEF KeepsUndetermined
<1>4. TypeOK /\ Provenance /\ Fresh /\ PollsApart /\ [Unheld]_vars /\ [Next]_vars
        => Fresh'
  BY NextFresh
<1> QED
  BY <1>1, <1>2, <1>3, <1>4, TypeCorrect, InitProvenance, NextProvenance, PTL
     DEF Spec, EditsApart

-----------------------------------------------------------------------------
(* Polling implements UtmTable.  No invariant but the types is needed: every *)
(* statement names its row by the id, and none but an INSERT makes a row.    *)

At == [id \in Ids |-> IF id \in Live THEN utms[id].addr ELSE NoRow]

LEMMA InitTable == Init => Table!Init
<1> SUFFICES ASSUME Init PROVE Table!Init
  OBVIOUS
<1>1. Live = {}
  BY DEF Init, Live
<1> QED
  BY <1>1 DEF Init, Table!Init

LEMMA CreateTable ==
    ASSUME TypeOK, NEW p \in Pollers, NEW addr \in Addrs, CreateUTM(p, addr)
    PROVE  Table!Insert(NextId, addr)
<1> DEFINE id == NextId
           row == [addr |-> addr, fsrar |-> Absent, data |-> NoData, polledAt |-> Absent,
                   ok |-> FALSE, failures |-> 0, failingSince |-> Absent]
<1>1. id \in Ids /\ id = lastId + 1 /\ lastId' = id /\ ~Taken(addr)
  BY DEF CreateUTM, NextId
<1>2. utms' = [utms EXCEPT ![id] = row]
  BY DEF CreateUTM
<1>3. row.addr = addr /\ row # NoRow
  <2>1. row \in Row
    BY DEF Row, NoData, Data, Times, Identities
  <2> QED
    BY <2>1, Constants
<1> HIDE DEF id, row
<1>4. Live' = Live \cup {id}
  BY <1>1, <1>2, <1>3 DEF Live, TypeOK
<1>5. utms'[id].addr = addr /\ \A x \in Ids \ {id} : utms'[x] = utms[x]
  BY <1>1, <1>2, <1>3 DEF TypeOK
<1>6. At' = [At EXCEPT ![id] = addr]
  BY <1>1, <1>4, <1>5 DEF At
<1>7. \A x \in Ids \ {id} : At[x] # addr
  BY <1>1, Constants DEF At, Taken
<1> QED
  BY <1>1, <1>6, <1>7 DEF Table!Insert, Table!Free, At, id

LEMMA UpdateTable ==
    ASSUME TypeOK, NEW id \in Ids, NEW port \in Ports, NEW data \in FormData,
           handleUTMUpdate(id, port, data)
    PROVE  UNCHANGED Table!vars \/ \E addr \in Addrs : Table!Move(id, addr)
<1> DEFINE new == <<utms[id].addr[1], port>>
<1>2. PICK addr : addr = new
  OBVIOUS
<1> DEFINE row == [utms[id] EXCEPT !.addr = addr, !.data = data]
<1>1. id \in Live /\ utms[id] \in Row
  BY DEF handleUTMUpdate, Live, TypeOK
<1>3. addr \in Addrs /\ addr[1] = utms[id].addr[1]
  BY <1>1, <1>2 DEF Row, Addrs
<1>4. utms' = [utms EXCEPT ![id] = row] /\ lastId' = lastId
  BY <1>2 DEF handleUTMUpdate, TypeOK
<1>5. addr # utms[id].addr => ~Taken(addr)
  BY <1>2 DEF handleUTMUpdate
<1>6. row.addr = addr /\ row # NoRow
  <2>1. row \in Row
    BY <1>1, <1>3, Constants DEF Row
  <2> QED
    BY <1>1, <2>1, Constants DEF Row
<1> HIDE DEF new, row
<1>7. Live' = Live
  BY <1>1, <1>4, <1>6 DEF Live, TypeOK
<1>8. utms'[id].addr = addr /\ \A x \in Ids \ {id} : utms'[x] = utms[x]
  BY <1>4, <1>6 DEF TypeOK
<1>9. At' = [At EXCEPT ![id] = addr]
  BY <1>1, <1>7, <1>8 DEF At
<1>10. CASE addr = utms[id].addr
  <2>1. At' = At
    BY <1>1, <1>9, <1>10 DEF At
  <2> QED
    BY <1>4, <2>1 DEF Table!vars, At
<1>11. CASE addr # utms[id].addr
  <2>1. \A x \in Ids \ {id} : At[x] # addr
    BY <1>3, <1>5, <1>11, Constants DEF At, Taken
  <2>2. At[id] # NoRow /\ addr[1] = At[id][1]
    BY <1>1, <1>3, Constants DEF At, Row
  <2>3. Table!Move(id, addr)
    BY <1>4, <1>9, <2>1, <2>2 DEF Table!Move, Table!Free, At
  <2> QED
    BY <1>3, <2>3
<1> QED
  BY <1>10, <1>11

LEMMA DeleteTable ==
    ASSUME TypeOK, NEW id \in Ids, handleUTMDelete(id)
    PROVE  Table!Delete(id)
<1>1. id \in Live /\ lastId' = lastId /\ utms' = [utms EXCEPT ![id] = NoRow]
  BY DEF handleUTMDelete
<1>2. Live' = Live \ {id} /\ \A x \in Ids \ {id} : utms'[x] = utms[x]
  BY <1>1 DEF Live, TypeOK
<1>3. At' = [At EXCEPT ![id] = NoRow]
  <2>1. \A x \in Ids : (IF x \in Live' THEN utms'[x].addr ELSE NoRow)
                       = IF x = id THEN NoRow ELSE IF x \in Live THEN utms[x].addr ELSE NoRow
    BY <1>2
  <2> QED
    BY <2>1 DEF At
<1>4. At[id] # NoRow
  BY <1>1, Constants DEF At, Live, TypeOK, Row
<1> QED
  BY <1>1, <1>3, <1>4 DEF Table!Delete, At

\* A poll that ends saves into the row that has the id, if there is one.
LEMMA SaveTable ==
    ASSUME TypeOK, NEW p \in Pollers, SaveUTMPollResult(p)
    PROVE  UNCHANGED Table!vars
<1> DEFINE r == pollers[p]
           row == Polled(utms[r.u.id], Merge(r.u, r.info), r.info.fsrar # Absent)
<1>1. r \in Poller /\ r.pc = "save" /\ lastId' = lastId
  BY DEF TypeOK, SaveUTMPollResult
<1>2. CASE r.u.id \in Live
  <2>1. utms' = [utms EXCEPT ![r.u.id] = row]
    BY <1>2 DEF SaveUTMPollResult
  <2>2. utms[r.u.id] \in Row
    BY <1>2 DEF Live, TypeOK
  <2>3. row \in Row
    <3>1. r.u \in UTM /\ r.info \in Info
      BY <1>1, SaveType
    <3>2. (r.info.fsrar # Absent) \in BOOLEAN
      BY Zenon
    <3> QED
      BY <2>2, <3>1, <3>2, MergeType, PolledType DEF TypeOK
  <2>4. row.addr = utms[r.u.id].addr
    BY <2>2 DEF Polled, Row
  <2> HIDE DEF row, r
  <2>5. Live' = Live /\ \A x \in Live : utms'[x].addr = utms[x].addr
    BY <1>2, <2>1, <2>3, <2>4, Constants DEF Live, TypeOK
  <2>6. At' = At
    BY <2>5 DEF At
  <2> QED
    BY <1>1, <2>6 DEF Table!vars, At
<1>3. CASE r.u.id \notin Live
  <2>1. utms' = utms
    BY <1>3 DEF SaveUTMPollResult
  <2> QED
    BY <1>1, <2>1 DEF Table!vars, Live
<1> QED
  BY <1>2, <1>3

LEMMA NextTable ==
    ASSUME TypeOK, [Next]_vars
    PROVE  [Table!Next]_(Table!vars)
<1>1. ASSUME UNCHANGED <<utms, lastId>> PROVE UNCHANGED Table!vars
  BY <1>1 DEF Table!vars, Live
<1>2. ASSUME NEW p \in Pollers, Web(p)
      PROVE  [Table!Next]_(Table!vars)
  <2>1. ASSUME NEW addr \in Addrs, CreateUTM(p, addr)
        PROVE  Table!Next
    <3>1. NextId \in Ids
      BY <2>1 DEF CreateUTM
    <3> QED
      BY <2>1, <3>1, CreateTable DEF Table!Next
  <2>2. ASSUME PollCreated(p) \/ \E id \in Ids : handleUTMPollNow(p, id)
        PROVE  UNCHANGED Table!vars
    BY <1>1, <2>2 DEF PollCreated, handleUTMPollNow
  <2> QED
    BY <1>2, <2>1, <2>2 DEF Web
<1>3. ASSUME NEW p \in Pollers, Poll(p)
      PROVE  UNCHANGED Table!vars
  <2>1. ASSUME RunCycle(p) \/ FetchInfo(p) \/ SaveFails(p)
        PROVE  UNCHANGED Table!vars
    BY <1>1, <2>1 DEF RunCycle, FetchInfo, SaveFails
  <2> QED
    BY <1>3, <2>1, SaveTable DEF Poll
<1>4. CASE Edit
  BY <1>4, UpdateTable, DeleteTable DEF Edit, Table!Next
<1>5. CASE Shutdown \/ Restart \/ Tick \/ UNCHANGED vars
  BY <1>1, <1>5 DEF Shutdown, Restart, Tick, vars
<1> QED
  BY <1>2, <1>3, <1>4, <1>5, Zenon DEF Next

\* Polls, cycles and restarts leave the table what it promises to be: an id
\* means one device for good, whoever still has a copy of its row.
THEOREM TableKept == Spec => KeepsTable
<1>1. TypeOK /\ [Next]_vars => [Table!Next]_(Table!vars)
  BY NextTable
<1> QED
  BY <1>1, InitTable, TypeCorrect, PTL DEF Spec, KeepsTable, Table!Spec

=============================================================================
