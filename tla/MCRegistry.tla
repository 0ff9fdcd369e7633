------------------------------ MODULE MCRegistry ------------------------------
(***************************************************************************)
(* Instances of Registry for TLC.                                          *)
(***************************************************************************)
EXTENDS Registry, TLC

CONSTANTS ip, host, p1, p2

MCLine(name, port) == [name |-> name, port |-> port]

\* A host name; two ports of one host; a port that is no number, and the
\* default port written out.
MCLists == { <<MCLine(host, NoPort)>>,
             <<MCLine(ip, p2), MCLine(ip, NoPort)>>,
             <<MCLine(ip, BadPort), MCLine(ip, p1)>> }

Symmetry == Permutations(Requests)

\* What a request at work may still read of what was known, seen and lost: the
\* lines it is through with are behind it.
Ahead(r) ==
    LET q    == requests[r]
        rest == IF Done(r) THEN {}
                ELSE {AddrOf(q.lines[i]) : i \in q.at..Len(q.lines)} \cup q.source
    IN <<q.pc, q.kind, SubSeq(q.lines, q.at, Len(q.lines)), q.known \cap rest,
         ((seen[r] \cup lost[r]) \ q.known) \cap rest, q.source \cap rest,
         IF q.pc = "poll" THEN q.id ELSE 0>>

\* What is left out makes no property false later: known, seen and lost only
\* grow until a request is over, and rows leave polled and forgone together.
RegistryView ==
    <<utms, lastId, backup, polled \cup forgone,
      [r \in Requests |-> IF Working(r) THEN Ahead(r) ELSE <<requests[r].pc>>],
      ListRegistered, RestoresIPs>>

=============================================================================
