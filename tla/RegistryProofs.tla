---------------------------- MODULE RegistryProofs ----------------------------
(***************************************************************************)
(* Proofs about Registry: a list is worked through whole, next to whatever *)
(* else changes the table, and an exported file restores its devices.      *)
(***************************************************************************)
EXTENDS Registry, FiniteSetTheorems, TLAPS

\* What is registered is known to a request at work, or was seen by it.
RegisteredSeen ==
    \A r \in Requests : Working(r) => Registered \subseteq requests[r].known \cup seen[r]

\* The line whose row is about to be polled is known.
PolledKnown ==
    \A r \in Requests : requests[r].pc = "poll" =>
        /\ requests[r].at \in 1..Len(requests[r].lines)
        /\ AddrOf(requests[r].lines[requests[r].at]) \in requests[r].known

\* A file has a line for every address it was made of.
Holds(lines, source) ==
    \A addr \in source : \E i \in 1..Len(lines) : lines[i] = LineOf(addr)

FilesHold ==
    /\ Holds(backup.lines, backup.source)
    /\ \A r \in Requests : Working(r) => Holds(requests[r].lines, requests[r].source)

RegistryInv ==
    /\ RegistryTypeOK
    /\ RegisteredSeen
    /\ PolledKnown
    /\ ListRegistered
    /\ FilesHold
    /\ AddedArePolled

-----------------------------------------------------------------------------
(* How lines are read and written.                                         *)

\* Reading a line gives an address when it has a name.
LEMMA AddrOfType ==
    ASSUME NEW line \in Line, line.name # Blank
    PROVE  AddrOf(line) \in Addrs
  BY RegistryAssumption DEF AddrOf, PortOf, Addrs, Line

\* What is accepted has a name.
LEMMA AcceptedHasName ==
    ASSUME NEW kind \in Kinds, NEW line \in Line, Accepted(kind, line)
    PROVE  line.name # Blank
  BY RegistryAssumption DEF Accepted, Kinds, Line

\* The line written for an address is read as that address again.
LEMMA RoundTrip ==
    ASSUME NEW addr \in Addrs
    PROVE  LineOf(addr) \in Line /\ AddrOf(LineOf(addr)) = addr
<1>1. PICK name \in IPs \cup Hosts, port \in Ports : addr = <<name, port>>
  BY DEF Addrs
<1>2. addr[1] = name /\ addr[2] = port
  BY <1>1
<1>3. CASE port = DefaultPort
  <2>1. LineOf(addr) = [name |-> name, port |-> NoPort]
    BY <1>2, <1>3 DEF LineOf
  <2>2. NoPort \notin Ports
    BY RegistryAssumption
  <2> QED
    BY <1>1, <1>3, <2>1, <2>2 DEF AddrOf, PortOf, Line
<1>4. CASE port # DefaultPort
  <2>1. LineOf(addr) = [name |-> name, port |-> port]
    BY <1>2, <1>4 DEF LineOf
  <2> QED
    BY <1>1, <2>1 DEF AddrOf, PortOf, Line
<1> QED
  BY <1>3, <1>4

-----------------------------------------------------------------------------
(* Types.                                                                  *)

Fields(q) ==
    /\ q.kind \in Kinds /\ q.lines \in Seq(Line) /\ q.at \in Nat \ {0}
    /\ q.known \in SUBSET Addrs /\ q.source \in SUBSET Addrs

LEMMA WorkingType ==
    ASSUME RegistryTypeOK, NEW r \in Requests
    PROVE  /\ Working(r) => Fields(requests[r])
           /\ requests[r].pc = "poll" => requests[r].id \in Ids
           /\ requests[r] = Admitted => ~Working(r)
           /\ requests[r] = Idle => ~Working(r)
<1>1. requests[r] \in {Idle, Admitted} \cup Adding \cup Polls
  BY DEF RegistryTypeOK
<1> QED
  BY <1>1 DEF Idle, Admitted, Adding, Polls, Fields, Working

LEMMA AtLineType ==
    ASSUME RegistryTypeOK, NEW r \in Requests, AtLine(r)
    PROVE  requests[r].lines[requests[r].at] \in Line
<1>1. Fields(requests[r])
  BY WorkingType DEF AtLine, Working
<1> QED
  BY <1>1 DEF AtLine, Fields

LEMMA NextLineType ==
    ASSUME NEW q, Fields(q)
    PROVE  /\ NextLine(q) \in Adding
           /\ Fields(NextLine(q))
           /\ NextLine(q).pc = "lines" /\ NextLine(q).kind = q.kind
           /\ NextLine(q).lines = q.lines /\ NextLine(q).at = q.at + 1
           /\ NextLine(q).known = q.known /\ NextLine(q).source = q.source
  BY DEF NextLine, Fields, Adding

-----------------------------------------------------------------------------
(* Two kinds of steps: those that end a request or take none further, and  *)
(* those that take one a line further.                                     *)

\* Nothing is taken from what the requests other than r saw, and what is
\* registered was seen by them.
OthersKept(r) ==
    \A x \in Requests \ {r} : Working(x) =>
        /\ seen[x] \subseteq seen'[x] /\ lost'[x] = lost[x]
        /\ Registered' \subseteq requests[x].known \cup seen'[x]

LEMMA EndKeeps ==
    ASSUME RegistryInv, RegistryTypeOK', NEW r \in Requests, NEW v \in {Idle, Admitted},
           requests' = [requests EXCEPT ![r] = v], requests[r].pc # "poll",
           OthersKept(r), Live' \subseteq Live,
           Live' \cap (polled \cup forgone) \subseteq polled' \cup forgone',
           Holds(backup'.lines, backup'.source)
    PROVE  RegistryInv'
<1>1. /\ RegisteredSeen /\ PolledKnown /\ ListRegistered /\ FilesHold /\ AddedArePolled
      /\ requests \in [Requests -> {Idle, Admitted} \cup Adding \cup Polls]
  BY DEF RegistryInv, RegistryTypeOK
<1>2. ~Working(r)' /\ requests'[r].pc # "poll"
  BY <1>1 DEF Working, Idle, Admitted
<1>3. \A x \in Requests \ {r} : requests'[x] = requests[x]
  BY <1>1
<1>4. \A x \in Requests : Working(x)' => x # r /\ Working(x) /\ requests'[x] = requests[x]
  BY <1>2, <1>3 DEF Working
<1>5. RegisteredSeen'
  BY <1>4 DEF RegisteredSeen, OthersKept
<1>6. PolledKnown'
  BY <1>1, <1>2, <1>3 DEF PolledKnown
<1>7. ListRegistered'
  <2>1. \A x \in Requests \ {r} : Working(x) =>
           WasThere(x) \cup Excused(x) \subseteq WasThere(x)' \cup Excused(x)'
    BY <1>3 DEF OthersKept, WasThere, Excused
  <2> QED
    BY <1>1, <1>4, <2>1 DEF ListRegistered
<1>8. FilesHold'
  BY <1>1, <1>4 DEF FilesHold
<1>9. AddedArePolled'
  BY <1>1, <1>3 DEF AddedArePolled
<1> QED
  BY <1>5, <1>6, <1>7, <1>8, <1>9 DEF RegistryInv

LEMMA LineKeeps ==
    ASSUME RegistryInv, RegistryTypeOK', NEW r \in Requests, NEW q,
           Working(r), requests' = [requests EXCEPT ![r] = q], q.pc \in {"lines", "poll"},
           q.kind = requests[r].kind, q.lines = requests[r].lines,
           q.source = requests[r].source, requests[r].known \subseteq q.known,
           seen[r] \subseteq seen'[r], lost[r] \subseteq lost'[r],
           Registered' \subseteq q.known \cup seen'[r],
           OthersKept(r), backup' = backup,
           \/ /\ q.pc = "poll" /\ q.at = requests[r].at
              /\ q.at \in 1..Len(q.lines) /\ AddrOf(q.lines[q.at]) \in q.known
           \/ /\ q.pc = "lines" /\ q.at = requests[r].at + 1
              /\ Accepted(q.kind, q.lines[requests[r].at])
                    => AddrOf(q.lines[requests[r].at]) \in q.known \cup seen'[r] \cup Excused(r)',
           AddedArePolled'
    PROVE  RegistryInv'
<1>1. /\ RegisteredSeen /\ PolledKnown /\ ListRegistered /\ FilesHold /\ RegistryTypeOK
      /\ requests \in [Requests -> {Idle, Admitted} \cup Adding \cup Polls]
  BY DEF RegistryInv, RegistryTypeOK
<1>2. requests'[r] = q /\ \A x \in Requests \ {r} : requests'[x] = requests[x]
  BY <1>1
<1>3. \A x \in Requests \ {r} : Working(x)' => Working(x)
  BY <1>2 DEF Working
<1>4. RegisteredSeen'
  <2> SUFFICES ASSUME NEW x \in Requests, Working(x)'
               PROVE  Registered' \subseteq requests'[x].known \cup seen'[x]
    BY DEF RegisteredSeen
  <2>1. CASE x = r
    BY <1>2, <2>1
  <2>2. CASE x # r
    BY <1>2, <1>3, <2>2 DEF OthersKept
  <2> QED
    BY <2>1, <2>2
<1>5. PolledKnown'
  <2> SUFFICES ASSUME NEW x \in Requests, requests'[x].pc = "poll"
               PROVE  /\ requests'[x].at \in 1..Len(requests'[x].lines)
                      /\ AddrOf(requests'[x].lines[requests'[x].at]) \in requests'[x].known
    BY DEF PolledKnown
  <2>1. CASE x = r
    BY <1>2, <2>1
  <2>2. CASE x # r
    BY <1>1, <1>2, <2>2 DEF PolledKnown
  <2> QED
    BY <2>1, <2>2
<1>6. ListRegistered'
  <2> SUFFICES ASSUME NEW x \in Requests, Working(x)', NEW i \in 1..(requests'[x].at - 1),
                      Accepted(requests'[x].kind, requests'[x].lines[i])
               PROVE  AddrOf(requests'[x].lines[i]) \in WasThere(x)' \cup Excused(x)'
    BY DEF ListRegistered
  <2>1. CASE x # r
    <3>1. Working(x) /\ requests'[x] = requests[x]
      BY <1>2, <1>3, <2>1
    <3>2. AddrOf(requests[x].lines[i]) \in WasThere(x) \cup Excused(x)
      BY <1>1, <3>1 DEF ListRegistered
    <3> QED
      BY <2>1, <3>1, <3>2 DEF OthersKept, WasThere, Excused
  <2>2. CASE x = r
    <3>1. Fields(requests[r])
      BY <1>1, WorkingType
    <3>2. i \in 1..(requests[r].at - 1) \/ (q.pc = "lines" /\ i = requests[r].at)
      BY <1>2, <2>2, <3>1 DEF Fields
    <3>3. WasThere(r) \cup Excused(r) \subseteq WasThere(r)' \cup Excused(r)'
      BY <1>2 DEF WasThere, Excused
    <3>4. CASE i \in 1..(requests[r].at - 1)
      BY <1>1, <1>2, <2>2, <3>3, <3>4 DEF ListRegistered
    <3>5. CASE q.pc = "lines" /\ i = requests[r].at
      BY <1>2, <2>2, <3>5 DEF WasThere
    <3> QED
      BY <3>2, <3>4, <3>5
  <2> QED
    BY <2>1, <2>2
<1>7. FilesHold'
  <2> SUFFICES ASSUME NEW x \in Requests, Working(x)'
               PROVE  Holds(requests'[x].lines, requests'[x].source)
    BY <1>1 DEF FilesHold
  <2>1. CASE x = r
    BY <1>1, <1>2, <2>1 DEF FilesHold
  <2>2. CASE x # r
    BY <1>1, <1>2, <1>3, <2>2 DEF FilesHold
  <2> QED
    BY <2>1, <2>2
<1> QED
  BY <1>4, <1>5, <1>6, <1>7 DEF RegistryInv

-----------------------------------------------------------------------------
(* The actions.                                                            *)

\* What can be read off the type of a request that has no list.
LEMMA NotAtWork ==
    ASSUME RegistryTypeOK, NEW r \in Requests,
           requests[r] \in {Idle, Admitted} \/ Done(r)
    PROVE  requests[r].pc # "poll"
  BY DEF Idle, Admitted, Done

LEMMA RegisteredType ==
    ASSUME RegistryTypeOK
    PROVE  Registered \subseteq Addrs /\ \A id \in Live : utms[id] \in Addrs
  BY DEF RegistryTypeOK, Registered, Live

LEMMA AdmitKeeps ==
    ASSUME RegistryInv, NEW r \in Requests, Admit(r)
    PROVE  RegistryInv'
<1>1. /\ requests[r] = Idle /\ requests' = [requests EXCEPT ![r] = Admitted]
      /\ utms' = utms /\ lastId' = lastId /\ backup' = backup
      /\ polled' = polled /\ forgone' = forgone /\ seen' = seen /\ lost' = lost
  BY DEF Admit
<1>2. RegistryTypeOK /\ RegisteredSeen /\ FilesHold
  BY DEF RegistryInv
<1>3. RegistryTypeOK'
  BY <1>1, <1>2 DEF RegistryTypeOK
<1>4. requests[r].pc # "poll"
  BY <1>1, <1>2, NotAtWork
<1>5. Live' = Live /\ Registered' = Registered
  BY <1>1 DEF Live, Registered
<1>6. OthersKept(r)
  BY <1>1, <1>2, <1>5 DEF OthersKept, RegisteredSeen
<1> QED
  BY <1>1, <1>2, <1>3, <1>4, <1>5, <1>6, EndKeeps DEF FilesHold

LEMMA ReplyKeeps ==
    ASSUME RegistryInv, NEW r \in Requests, Reply(r)
    PROVE  RegistryInv'
<1>1. /\ requests[r] = Admitted \/ Done(r)
      /\ requests' = [requests EXCEPT ![r] = Idle]
      /\ lost' = [lost EXCEPT ![r] = {}] /\ seen' = [seen EXCEPT ![r] = {}]
      /\ utms' = utms /\ lastId' = lastId /\ backup' = backup
      /\ polled' = polled /\ forgone' = forgone
  BY DEF Reply, Over
<1>2. RegistryTypeOK /\ RegisteredSeen /\ FilesHold
  BY DEF RegistryInv
<1>3. RegistryTypeOK'
  BY <1>1, <1>2 DEF RegistryTypeOK
<1>4. requests[r].pc # "poll"
  BY <1>1, <1>2, NotAtWork
<1>5. Live' = Live /\ Registered' = Registered
  BY <1>1 DEF Live, Registered
<1>6. OthersKept(r)
  BY <1>1, <1>2, <1>5 DEF OthersKept, RegisteredSeen, RegistryTypeOK
<1> QED
  BY <1>1, <1>2, <1>3, <1>4, <1>5, <1>6, EndKeeps DEF FilesHold

\* Requests at work see a device that comes into the table.
LEMMA Observed ==
    ASSUME RegistryTypeOK, RegisteredSeen, NEW addr \in Addrs, Observe(addr),
           Registered' \subseteq Registered \cup {addr}
    PROVE  /\ seen' \in [Requests -> SUBSET Addrs]
           /\ \A x \in Requests : Working(x) =>
                 /\ seen[x] \subseteq seen'[x]
                 /\ Registered' \subseteq requests[x].known \cup seen'[x]
<1>1. \A x \in Requests : Working(x) => seen'[x] = seen[x] \cup ({addr} \ requests[x].known)
  BY DEF Observe
<1>2. seen' \in [Requests -> SUBSET Addrs]
  BY DEF Observe, RegistryTypeOK
<1> QED
  BY <1>1, <1>2 DEF RegisteredSeen

LEMMA UpdateKeeps ==
    ASSUME RegistryInv, NEW r \in Requests, NEW id \in Ids, NEW port \in Ports \cup {NoPort},
           handleUTMUpdate(r, id, port)
    PROVE  RegistryInv'
<1> DEFINE addr == <<utms[id][1], PortOf(port)>>
<1>1. /\ requests[r] = Admitted /\ id \in Live
      /\ requests' = [requests EXCEPT ![r] = Idle] /\ lost' = [lost EXCEPT ![r] = {}]
      /\ utms' = [utms EXCEPT ![id] = addr] /\ Observe(addr)
      /\ lastId' = lastId /\ backup' = backup /\ polled' = polled /\ forgone' = forgone
  BY DEF handleUTMUpdate, Moved, Over
<1>2. RegistryTypeOK /\ RegisteredSeen /\ FilesHold
  BY DEF RegistryInv
<1>3. addr \in Addrs
  <2>1. utms[id] \in Addrs
    BY <1>1, <1>2, RegisteredType
  <2> QED
    BY <2>1, RegistryAssumption DEF Addrs, PortOf
<1> HIDE DEF addr
<1>4. Live' = Live
  BY <1>1, <1>2, <1>3, RegistryAssumption DEF Live, RegistryTypeOK
<1>5. Registered' \subseteq Registered \cup {addr}
  BY <1>1, <1>2, <1>4 DEF Registered, Live, RegistryTypeOK
<1>6. /\ seen' \in [Requests -> SUBSET Addrs]
      /\ \A x \in Requests : Working(x) =>
            /\ seen[x] \subseteq seen'[x]
            /\ Registered' \subseteq requests[x].known \cup seen'[x]
  BY <1>1, <1>2, <1>3, <1>5, Observed
<1>7. RegistryTypeOK'
  BY <1>1, <1>2, <1>3, <1>6 DEF RegistryTypeOK
<1>8. requests[r].pc # "poll"
  BY <1>1, <1>2, NotAtWork
<1>9. OthersKept(r)
  BY <1>1, <1>2, <1>6 DEF OthersKept, RegistryTypeOK
<1> QED
  BY <1>1, <1>2, <1>4, <1>7, <1>8, <1>9, EndKeeps DEF FilesHold

LEMMA DeleteKeeps ==
    ASSUME RegistryInv, NEW r \in Requests, NEW id \in Ids, handleUTMDelete(r, id)
    PROVE  RegistryInv'
<1>1. /\ requests[r] = Admitted /\ id \in Live
      /\ requests' = [requests EXCEPT ![r] = Idle] /\ lost' = [lost EXCEPT ![r] = {}]
      /\ utms' = [utms EXCEPT ![id] = NoRow] /\ polled' = polled \ {id}
      /\ forgone' = forgone \ {id}
      /\ lastId' = lastId /\ backup' = backup /\ seen' = seen
  BY DEF handleUTMDelete, Over
<1>2. RegistryTypeOK /\ RegisteredSeen /\ FilesHold
  BY DEF RegistryInv
<1>3. RegistryTypeOK'
  BY <1>1, <1>2 DEF RegistryTypeOK
<1>4. requests[r].pc # "poll"
  BY <1>1, <1>2, NotAtWork
<1>5. Live' = Live \ {id} /\ \A x \in Live' : utms'[x] = utms[x]
  BY <1>1, <1>2 DEF Live, RegistryTypeOK
<1>6. Registered' \subseteq Registered
  BY <1>5 DEF Registered
<1>7. OthersKept(r)
  BY <1>1, <1>2, <1>6 DEF OthersKept, RegisteredSeen, RegistryTypeOK
<1> QED
  BY <1>1, <1>2, <1>3, <1>4, <1>5, <1>7, EndKeeps DEF FilesHold

\* An exported file has the line of every device, below its header.
LEMMA ExportKeeps ==
    ASSUME RegistryInv, NEW r \in Requests, handleUTMExport(r)
    PROVE  RegistryInv'
<1>1. PICK rows \in [1..Cardinality(Registered) -> Registered] :
         /\ \A addr \in Registered : \E i \in DOMAIN rows : rows[i] = addr
         /\ backup' = [lines  |-> <<Header>> \o [i \in DOMAIN rows |-> LineOf(rows[i])],
                       source |-> Registered]
  BY DEF handleUTMExport
<1>2. /\ requests[r] = Admitted
      /\ requests' = [requests EXCEPT ![r] = Idle] /\ lost' = [lost EXCEPT ![r] = {}]
      /\ utms' = utms /\ lastId' = lastId /\ seen' = seen
      /\ polled' = polled /\ forgone' = forgone
  BY DEF handleUTMExport, Over
<1>3. RegistryTypeOK /\ RegisteredSeen /\ FilesHold
  BY DEF RegistryInv
<1> DEFINE n == Cardinality(Registered)
           body == [i \in 1..n |-> LineOf(rows[i])]
<1>4. n \in Nat
  <2>1. IsFiniteSet(Ids)
    BY FS_Interval, RegistryAssumption DEF Ids
  <2>2. IsFiniteSet(Live)
    BY <2>1, FS_Subset DEF Live
  <2>3. [id \in Live |-> utms[id]] \in Surjection(Live, Registered)
    BY DEF Surjection, Registered
  <2>4. IsFiniteSet(Registered)
    BY <2>2, <2>3, FS_Surjection
  <2> QED
    BY <2>4, FS_CardinalityType
<1>5. \A i \in 1..n : rows[i] \in Addrs /\ LineOf(rows[i]) \in Line
  BY <1>1, <1>3, RegisteredType, RoundTrip
<1>6. body \in Seq(Line) /\ Len(body) = n
  <2>1. \A i \in 1..n : body[i] \in Line
    BY <1>5
  <2>2. body \in [1..n -> Line]
    BY <2>1
  <2> QED
    BY <1>4, <2>2
<1>7. <<Header>> \in Seq(Line)
  BY RegistryAssumption DEF Header, Line
<1>8. backup' = [lines |-> <<Header>> \o body, source |-> Registered]
  BY <1>1
<1>9. backup'.lines = <<Header>> \o body /\ backup'.source = Registered
  BY <1>8
<1>10. backup'.lines \in Seq(Line)
  <2> HIDE DEF body
  <2> QED
    BY <1>6, <1>7, <1>9
<1>11. Holds(backup'.lines, backup'.source)
  <2> SUFFICES ASSUME NEW addr \in Registered
               PROVE  \E i \in 1..Len(<<Header>> \o body) : (<<Header>> \o body)[i] = LineOf(addr)
    BY <1>9 DEF Holds
  <2>1. PICK i \in 1..n : rows[i] = addr
    BY <1>1
  <2>2. body[i] = LineOf(addr)
    BY <2>1
  <2> HIDE DEF body, n
  <2>3. /\ Len(<<Header>> \o body) = n + 1 /\ i + 1 \in 1..(n + 1)
        /\ (<<Header>> \o body)[i + 1] = body[i]
    BY <1>4, <1>6, <1>7, <2>1
  <2> QED
    BY <2>2, <2>3
<1>12. Registered \subseteq Addrs
  BY <1>3, RegisteredType
<1>13. backup' \in [lines: Seq(Line), source: SUBSET Addrs]
  BY <1>8, <1>9, <1>10, <1>12
<1>14. RegistryTypeOK'
  BY <1>2, <1>3, <1>13 DEF RegistryTypeOK
<1>15. requests[r].pc # "poll"
  BY <1>2, <1>3, NotAtWork
<1>16. Live' = Live /\ Registered' = Registered
  BY <1>2 DEF Live, Registered
<1>17. OthersKept(r)
  BY <1>2, <1>3, <1>16 DEF OthersKept, RegisteredSeen, RegistryTypeOK
<1> QED
  BY <1>2, <1>11, <1>14, <1>15, <1>16, <1>17, EndKeeps

LEMMA StartKeeps ==
    ASSUME RegistryInv, NEW r \in Requests, NEW kind \in Kinds, NEW lines \in Seq(Line),
           NEW source \in SUBSET Addrs, Holds(lines, source),
           StartAdding(r, kind, lines, source)
    PROVE  RegistryInv'
<1> DEFINE q == [pc |-> "lines", kind |-> kind, lines |-> lines, at |-> 1,
                 known |-> IF kind = "create" THEN {} ELSE Registered, source |-> source]
           sn == IF kind = "create" THEN Registered ELSE {}
<1>1. /\ requests[r] = Admitted /\ requests' = [requests EXCEPT ![r] = q]
      /\ seen' = [seen EXCEPT ![r] = sn]
      /\ utms' = utms /\ lastId' = lastId /\ backup' = backup
      /\ polled' = polled /\ forgone' = forgone /\ lost' = lost
  BY DEF StartAdding
<1>2. /\ RegistryTypeOK /\ RegisteredSeen /\ PolledKnown /\ ListRegistered
      /\ FilesHold /\ AddedArePolled
      /\ requests \in [Requests -> {Idle, Admitted} \cup Adding \cup Polls]
  BY DEF RegistryInv, RegistryTypeOK
<1>3. Registered \subseteq Addrs
  BY <1>2, RegisteredType
<1>4. /\ q \in Adding /\ q.pc = "lines" /\ q.at = 1 /\ q.lines = lines
      /\ q.source = source /\ Registered \subseteq q.known \cup sn /\ sn \subseteq Addrs
  BY <1>3 DEF Adding
<1> HIDE DEF q, sn
<1>5. RegistryTypeOK'
  BY <1>1, <1>2, <1>4 DEF RegistryTypeOK
<1>6. /\ requests'[r] = q /\ seen'[r] = sn
      /\ \A x \in Requests \ {r} : requests'[x] = requests[x] /\ seen'[x] = seen[x]
  BY <1>1, <1>2 DEF RegistryTypeOK
<1>7. Live' = Live /\ Registered' = Registered
  BY <1>1 DEF Live, Registered
<1>8. \A x \in Requests \ {r} : Working(x)' => Working(x)
  BY <1>6 DEF Working
<1>9. RegisteredSeen'
  BY <1>2, <1>4, <1>6, <1>7, <1>8 DEF RegisteredSeen
<1>10. PolledKnown'
  BY <1>2, <1>4, <1>6 DEF PolledKnown
<1>11. ListRegistered'
  <2> SUFFICES ASSUME NEW x \in Requests, Working(x)', NEW i \in 1..(requests'[x].at - 1),
                      Accepted(requests'[x].kind, requests'[x].lines[i])
               PROVE  AddrOf(requests'[x].lines[i]) \in WasThere(x)' \cup Excused(x)'
    BY DEF ListRegistered
  <2>1. x # r
    BY <1>4, <1>6
  <2> QED
    BY <1>1, <1>2, <1>6, <1>8, <2>1 DEF ListRegistered, WasThere, Excused
<1>12. FilesHold'
  BY <1>1, <1>2, <1>4, <1>6, <1>8 DEF FilesHold
<1>13. AddedArePolled'
  <2>1. requests[r].pc # "poll"
    BY <1>1, <1>2, NotAtWork
  <2> QED
    BY <1>1, <1>2, <1>6, <1>7, <2>1 DEF AddedArePolled
<1> QED
  BY <1>5, <1>9, <1>10, <1>11, <1>12, <1>13 DEF RegistryInv

LEMMA AddingKeeps ==
    ASSUME RegistryInv, NEW r \in Requests,
           handleUTMCreate(r) \/ handleUTMBulkAdd(r) \/ handleUTMImport(r)
    PROVE  RegistryInv'
<1>1. Holds(backup.lines, backup.source) /\ backup.lines \in Seq(Line)
      /\ backup.source \in SUBSET Addrs
  BY DEF RegistryInv, FilesHold, RegistryTypeOK
<1>2. \A list \in Lists : list \in Seq(Line) /\ Holds(list, {})
  BY RegistryAssumption DEF Holds
<1>3. CASE handleUTMCreate(r)
  BY <1>2, <1>3, StartKeeps DEF handleUTMCreate, Kinds
<1>4. CASE handleUTMBulkAdd(r)
  BY <1>2, <1>4, StartKeeps DEF handleUTMBulkAdd, Kinds
<1>5. CASE handleUTMImport(r)
  BY <1>1, <1>2, <1>5, StartKeeps DEF handleUTMImport, Kinds
<1> QED
  BY <1>3, <1>4, <1>5

LEMMA SkipKeeps ==
    ASSUME RegistryInv, NEW r \in Requests, SkipLine(r)
    PROVE  RegistryInv'
<1> DEFINE q == requests[r]
<1>1. /\ AtLine(r)
      /\ Accepted(q.kind, q.lines[q.at]) => Known(q, AddrOf(q.lines[q.at]))
      /\ requests' = [requests EXCEPT ![r] = NextLine(q)]
      /\ utms' = utms /\ lastId' = lastId /\ backup' = backup
      /\ polled' = polled /\ forgone' = forgone /\ seen' = seen /\ lost' = lost
  BY DEF SkipLine
<1>2. /\ RegistryTypeOK /\ RegisteredSeen /\ AddedArePolled
      /\ requests \in [Requests -> {Idle, Admitted} \cup Adding \cup Polls]
  BY DEF RegistryInv, RegistryTypeOK
<1>3. Working(r) /\ Fields(q) /\ q.pc = "lines"
  BY <1>1, <1>2, WorkingType DEF AtLine, Working
<1> HIDE DEF q
<1>4. /\ NextLine(q) \in Adding /\ NextLine(q).pc = "lines" /\ NextLine(q).kind = q.kind
      /\ NextLine(q).lines = q.lines /\ NextLine(q).at = q.at + 1
      /\ NextLine(q).known = q.known /\ NextLine(q).source = q.source
  BY <1>3, NextLineType
<1>5. RegistryTypeOK'
  BY <1>1, <1>2, <1>4 DEF RegistryTypeOK
<1>6. Live' = Live /\ Registered' = Registered
  BY <1>1 DEF Live, Registered
<1>7. OthersKept(r)
  BY <1>1, <1>2, <1>6 DEF OthersKept, RegisteredSeen
<1>8. AddedArePolled'
  <2>1. \A x \in Requests : requests[x].pc = "poll" => requests'[x] = requests[x]
    BY <1>1, <1>2, <1>3 DEF q
  <2> QED
    BY <1>1, <1>2, <1>6, <2>1 DEF AddedArePolled
<1>9. Registered' \subseteq NextLine(q).known \cup seen'[r]
  BY <1>1, <1>2, <1>3, <1>4, <1>6 DEF RegisteredSeen, q
<1>10. Accepted(NextLine(q).kind, NextLine(q).lines[q.at])
          => AddrOf(NextLine(q).lines[q.at]) \in NextLine(q).known \cup seen'[r] \cup Excused(r)'
  BY <1>1, <1>4 DEF Known, q
<1> QED
  BY <1>1, <1>3, <1>4, <1>5, <1>7, <1>8, <1>9, <1>10, LineKeeps DEF q

LEMMA FailKeeps ==
    ASSUME RegistryInv, NEW r \in Requests, InsertFails(r)
    PROVE  RegistryInv'
<1> DEFINE q    == requests[r]
           addr == AddrOf(q.lines[q.at])
           more == IF addr \in Registered THEN lost[r] ELSE lost[r] \cup {addr}
<1>1. /\ AtLine(r) /\ Accepted(q.kind, q.lines[q.at])
      /\ addr \in Registered \/ StoreErrors
      /\ requests' = [requests EXCEPT ![r] = NextLine(q)]
      /\ lost' = [lost EXCEPT ![r] = more]
      /\ utms' = utms /\ lastId' = lastId /\ backup' = backup
      /\ polled' = polled /\ forgone' = forgone /\ seen' = seen
  BY DEF InsertFails
<1>2. /\ RegistryTypeOK /\ RegisteredSeen /\ AddedArePolled
      /\ requests \in [Requests -> {Idle, Admitted} \cup Adding \cup Polls]
      /\ lost \in [Requests -> SUBSET Addrs]
  BY DEF RegistryInv, RegistryTypeOK
<1>3. Working(r) /\ Fields(q) /\ q.pc = "lines"
  BY <1>1, <1>2, WorkingType DEF AtLine, Working
<1>4. addr \in Addrs
  BY <1>1, <1>2, <1>3, AtLineType, AcceptedHasName, AddrOfType DEF Fields
<1>5. lost[r] \subseteq more /\ more \subseteq Addrs /\ addr \in Registered \cup more
  BY <1>2, <1>4
<1>6. addr = AddrOf(q.lines[q.at])
  OBVIOUS
<1> HIDE DEF q, addr, more
<1>7. /\ NextLine(q) \in Adding /\ NextLine(q).pc = "lines" /\ NextLine(q).kind = q.kind
      /\ NextLine(q).lines = q.lines /\ NextLine(q).at = q.at + 1
      /\ NextLine(q).known = q.known /\ NextLine(q).source = q.source
  BY <1>3, NextLineType
<1>8. RegistryTypeOK'
  BY <1>1, <1>2, <1>5, <1>7 DEF RegistryTypeOK
<1>9. Live' = Live /\ Registered' = Registered
  BY <1>1 DEF Live, Registered
<1>10. OthersKept(r)
  BY <1>1, <1>2, <1>9 DEF OthersKept, RegisteredSeen
<1>11. AddedArePolled'
  <2>1. \A x \in Requests : requests[x].pc = "poll" => requests'[x] = requests[x]
    BY <1>1, <1>2, <1>3 DEF q
  <2> QED
    BY <1>1, <1>2, <1>9, <2>1 DEF AddedArePolled
<1>12. Registered \subseteq q.known \cup seen[r]
  BY <1>2, <1>3 DEF RegisteredSeen, q
<1>13. lost'[r] = more
  BY <1>1, <1>2
<1>14. AddrOf(NextLine(q).lines[q.at]) \in NextLine(q).known \cup seen'[r] \cup Excused(r)'
  BY <1>1, <1>5, <1>6, <1>7, <1>12, <1>13 DEF Excused
<1>15. Registered' \subseteq NextLine(q).known \cup seen'[r]
  BY <1>1, <1>7, <1>9, <1>12
<1> QED
  BY <1>1, <1>3, <1>5, <1>7, <1>8, <1>10, <1>11, <1>13, <1>14, <1>15, LineKeeps DEF q

LEMMA CreateKeeps ==
    ASSUME RegistryInv, NEW r \in Requests, CreateUTM(r)
    PROVE  RegistryInv'
<1> DEFINE q    == requests[r]
           addr == AddrOf(q.lines[q.at])
           id   == lastId + 1
           next == [pc |-> "poll", kind |-> q.kind, lines |-> q.lines, at |-> q.at,
                    known |-> q.known \cup {addr}, source |-> q.source, id |-> id]
<1>1. /\ AtLine(r) /\ Accepted(q.kind, q.lines[q.at]) /\ id \in Ids
      /\ utms' = [utms EXCEPT ![id] = addr] /\ lastId' = id
      /\ requests' = [requests EXCEPT ![r] = next]
      /\ Observe(addr)
      /\ backup' = backup /\ polled' = polled /\ forgone' = forgone /\ lost' = lost
  BY DEF CreateUTM
<1>2. /\ RegistryTypeOK /\ RegisteredSeen /\ AddedArePolled
      /\ requests \in [Requests -> {Idle, Admitted} \cup Adding \cup Polls]
  BY DEF RegistryInv, RegistryTypeOK
<1>3. Working(r) /\ Fields(q) /\ q.pc = "lines" /\ q.at <= Len(q.lines)
  BY <1>1, <1>2, WorkingType DEF AtLine, Working
<1>4. addr \in Addrs
  BY <1>1, <1>2, <1>3, AtLineType, AcceptedHasName, AddrOfType DEF Fields
<1>5. addr = AddrOf(q.lines[q.at]) /\ id \in 0..MaxId
  BY <1>1 DEF Ids
<1> HIDE DEF q, addr, id
<1>6. /\ next \in Polls /\ next.pc = "poll" /\ next.kind = q.kind /\ next.lines = q.lines
      /\ next.at = q.at /\ next.known = q.known \cup {addr} /\ next.source = q.source
      /\ next.id = id
  BY <1>1, <1>3, <1>4 DEF Fields, Polls
<1> HIDE DEF next
<1>7. Live' \subseteq Live \cup {id} /\ \A x \in Live' : x = id \/ utms'[x] = utms[x]
  BY <1>1, <1>2 DEF Live, RegistryTypeOK
<1>8. Registered' \subseteq Registered \cup {addr}
  BY <1>1, <1>2, <1>7 DEF Registered, RegistryTypeOK, Live
<1>9. /\ seen' \in [Requests -> SUBSET Addrs]
      /\ \A x \in Requests : Working(x) =>
            /\ seen[x] \subseteq seen'[x]
            /\ Registered' \subseteq requests[x].known \cup seen'[x]
  BY <1>1, <1>2, <1>4, <1>8, Observed
<1>10. RegistryTypeOK'
  BY <1>1, <1>2, <1>4, <1>5, <1>6, <1>9 DEF RegistryTypeOK
<1>11. OthersKept(r)
  BY <1>1, <1>2, <1>9 DEF OthersKept
<1>12. AddedArePolled'
  <2>1. \A x \in Requests : requests[x].pc = "poll" => requests'[x] = requests[x]
    BY <1>1, <1>2, <1>3 DEF q
  <2>2. requests'[r].pc = "poll" /\ requests'[r].id = id
    BY <1>1, <1>2, <1>6
  <2> QED
    BY <1>1, <1>2, <1>7, <2>1, <2>2 DEF AddedArePolled
<1>13. next.at \in 1..Len(next.lines) /\ AddrOf(next.lines[next.at]) \in next.known
  BY <1>3, <1>5, <1>6 DEF Fields
<1>14. requests[r].known \subseteq next.known /\ seen[r] \subseteq seen'[r]
       /\ Registered' \subseteq next.known \cup seen'[r]
  BY <1>3, <1>6, <1>9 DEF q
<1> QED
  BY <1>1, <1>3, <1>6, <1>10, <1>11, <1>12, <1>13, <1>14, LineKeeps DEF q

LEMMA PollKeeps ==
    ASSUME RegistryInv, NEW r \in Requests, PollAdded(r)
    PROVE  RegistryInv'
<1> DEFINE q == requests[r]
<1>1. /\ q.pc = "poll"
      /\ polled \cup forgone \cup ({q.id} \cap Live) = polled' \cup forgone'
      /\ requests' = [requests EXCEPT ![r] = NextLine(q)]
      /\ utms' = utms /\ lastId' = lastId /\ backup' = backup /\ seen' = seen /\ lost' = lost
  BY DEF PollAdded, OwnRow
<1>2. /\ RegistryTypeOK /\ RegisteredSeen /\ AddedArePolled /\ PolledKnown
      /\ requests \in [Requests -> {Idle, Admitted} \cup Adding \cup Polls]
  BY DEF RegistryInv, RegistryTypeOK
<1>3. Working(r) /\ Fields(q)
  BY <1>1, <1>2, WorkingType DEF Working
<1>4. AddrOf(q.lines[q.at]) \in q.known
  BY <1>1, <1>2 DEF PolledKnown
<1> HIDE DEF q
<1>5. /\ NextLine(q) \in Adding /\ NextLine(q).pc = "lines" /\ NextLine(q).kind = q.kind
      /\ NextLine(q).lines = q.lines /\ NextLine(q).at = q.at + 1
      /\ NextLine(q).known = q.known /\ NextLine(q).source = q.source
  BY <1>3, NextLineType
<1>6. RegistryTypeOK'
  <2>1. polled' \subseteq Ids /\ forgone' \subseteq Ids
    BY <1>1, <1>2 DEF RegistryTypeOK, Live
  <2> QED
    BY <1>1, <1>2, <1>5, <2>1 DEF RegistryTypeOK
<1>7. Live' = Live /\ Registered' = Registered
  BY <1>1 DEF Live, Registered
<1>8. OthersKept(r)
  BY <1>1, <1>2, <1>7 DEF OthersKept, RegisteredSeen
<1>9. AddedArePolled'
  <2> SUFFICES ASSUME NEW id \in Live
               PROVE  id \in polled' \cup forgone' \/ \E x \in Requests : requests'[x].pc = "poll"
                                                         /\ requests'[x].id = id
    BY <1>7 DEF AddedArePolled
  <2>1. CASE id \in polled \cup forgone
    BY <1>1, <2>1
  <2>2. CASE \E x \in Requests : requests[x].pc = "poll" /\ requests[x].id = id
    <3>1. PICK x \in Requests : requests[x].pc = "poll" /\ requests[x].id = id
      BY <2>2
    <3>2. CASE x = r
      BY <1>1, <3>1, <3>2 DEF q
    <3>3. CASE x # r
      BY <1>1, <1>2, <3>1, <3>3
    <3> QED
      BY <3>2, <3>3
  <2> QED
    BY <1>2, <2>1, <2>2 DEF AddedArePolled
<1>10. Registered' \subseteq NextLine(q).known \cup seen'[r]
  BY <1>1, <1>2, <1>3, <1>5, <1>7 DEF RegisteredSeen, q
<1>11. AddrOf(NextLine(q).lines[q.at]) \in NextLine(q).known \cup seen'[r] \cup Excused(r)'
  BY <1>4, <1>5
<1> QED
  BY <1>1, <1>3, <1>5, <1>6, <1>8, <1>9, <1>10, <1>11, LineKeeps DEF q

LEMMA RestartKeeps ==
    ASSUME RegistryInv, RegistryRestart
    PROVE  RegistryInv'
<1>1. /\ requests' = [r \in Requests |-> Idle]
      /\ seen' = [r \in Requests |-> {}] /\ lost' = [r \in Requests |-> {}]
      /\ forgone' = forgone \cup
            {id \in Live : \E r \in Requests : requests[r].pc = "poll" /\ requests[r].id = id}
      /\ polled' = polled /\ utms' = utms /\ lastId' = lastId /\ backup' = backup
  BY DEF RegistryRestart
<1>2. RegistryTypeOK /\ FilesHold /\ AddedArePolled
  BY DEF RegistryInv
<1>3. Live' = Live /\ Live \subseteq Ids
  BY <1>1 DEF Live
<1>4. RegistryTypeOK'
  BY <1>1, <1>2, <1>3 DEF RegistryTypeOK
<1>5. \A r \in Requests : ~Working(r)' /\ requests'[r].pc # "poll"
  BY <1>1 DEF Working, Idle
<1> QED
  BY <1>1, <1>2, <1>3, <1>4, <1>5 DEF RegistryInv, RegisteredSeen, PolledKnown,
     ListRegistered, FilesHold, AddedArePolled

-----------------------------------------------------------------------------
LEMMA RegistryInvInit == RegistryInit => RegistryInv
<1> SUFFICES ASSUME RegistryInit PROVE RegistryInv
  OBVIOUS
<1>1. RegistryTypeOK
  BY RegistryAssumption DEF RegistryInit, RegistryTypeOK
<1>2. \A r \in Requests : ~Working(r) /\ requests[r].pc # "poll"
  BY DEF RegistryInit, Working, Idle
<1>3. Live = {} /\ Holds(backup.lines, backup.source)
  BY DEF RegistryInit, Live, Holds
<1> QED
  BY <1>1, <1>2, <1>3 DEF RegistryInv, RegisteredSeen, PolledKnown, ListRegistered,
     FilesHold, AddedArePolled

LEMMA HandleKeeps ==
    ASSUME RegistryInv, NEW r \in Requests, Handle(r)
    PROVE  RegistryInv'
  BY AddingKeeps, SkipKeeps, CreateKeeps, FailKeeps, PollKeeps, ReplyKeeps, UpdateKeeps,
     DeleteKeeps, ExportKeeps DEF Handle

LEMMA RegistryInvNext == RegistryInv /\ [RegistryNext]_registryVars => RegistryInv'
<1>1. RegistryInv /\ UNCHANGED registryVars => RegistryInv'
  BY DEF registryVars, RegistryInv, RegistryTypeOK, RegisteredSeen, PolledKnown,
     ListRegistered, FilesHold, AddedArePolled, Registered, Live, Working, WasThere,
     Excused
<1>2. RegistryInv /\ RegistryNext => RegistryInv'
  BY AdmitKeeps, HandleKeeps, RestartKeeps DEF RegistryNext
<1> QED
  BY <1>1, <1>2

LEMMA RegistryInvariant == RegistrySpec => []RegistryInv
  BY RegistryInvInit, RegistryInvNext, PTL DEF RegistrySpec

\* Every variable of Registry keeps its type.
THEOREM RegistryTypeCorrect == RegistrySpec => []RegistryTypeOK
<1>1. RegistryInv => RegistryTypeOK
  BY DEF RegistryInv
<1> QED
  BY <1>1, RegistryInvariant, PTL

\* Each address of the lines a request is through with was registered at some
\* time during the request, whatever other requests do, or its INSERT failed,
\* which takes a database whose statements may fail.
THEOREM ListsRegistered == RegistrySpec => []ListRegistered
<1>1. RegistryInv => ListRegistered
  BY DEF RegistryInv
<1> QED
  BY <1>1, RegistryInvariant, PTL

\* A request is never past a device it added and did not start to poll, unless
\* GetUTM failed on the row or the process ended before the poll was started.
THEOREM AddedPolled == RegistrySpec => []AddedArePolled
<1>1. RegistryInv => AddedArePolled
  BY DEF RegistryInv
<1> QED
  BY <1>1, RegistryInvariant, PTL

\* Once an exported file was imported, every IP address that had been exported
\* was registered at some time during the import, or its INSERT failed, which
\* takes a database whose statements may fail.
THEOREM BackupRestores == RegistrySpec => []RestoresIPs
<1>1. RegistryInv => RestoresIPs
  <2> SUFFICES ASSUME RegistryInv, NEW r \in Requests, Done(r), requests[r].kind = "import",
                      NEW addr \in requests[r].source \cap (IPs \X Ports)
               PROVE  addr \in WasThere(r) \cup Excused(r)
    BY DEF RestoresIPs
  <2>1. /\ RegistryTypeOK /\ ListRegistered /\ FilesHold
        /\ Working(r) /\ requests[r].at > Len(requests[r].lines)
    BY DEF RegistryInv, Done, Working
  <2>2. Fields(requests[r])
    BY <2>1, WorkingType
  <2>3. PICK i \in 1..Len(requests[r].lines) : requests[r].lines[i] = LineOf(addr)
    BY <2>1 DEF FilesHold, Holds
  <2>4. addr \in Addrs /\ addr[1] \in IPs
    BY <2>2 DEF Fields, Addrs
  <2>5. AddrOf(requests[r].lines[i]) = addr
    BY <2>3, <2>4, RoundTrip
  <2>6. Accepted("import", requests[r].lines[i])
    BY <2>3, <2>4 DEF Accepted, LineOf
  <2>7. i \in 1..(requests[r].at - 1)
    BY <2>1, <2>2 DEF Fields
  <2> QED
    BY <2>1, <2>5, <2>6, <2>7 DEF ListRegistered
<1> QED
  BY <1>1, RegistryInvariant, PTL

=============================================================================
