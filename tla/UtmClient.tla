------------------------------- MODULE UtmClient -------------------------------
(***************************************************************************)
(* One poll of a device, request by request: FetchInfo.                    *)
(*                                                                         *)
(* GET /api/info/list names the owner and the dates of its certificates.   *)
(* When it does, GET /api/rsa may add the organisation; when it does not,  *)
(* GET /diagnosis may still name the owner.  Each request may fail on its  *)
(* own, and the device may be licensed to another owner between two of     *)
(* them.                                                                   *)
(*                                                                         *)
(* What belongs together is told apart by the owner: org is the owner      *)
(* whose organisation (INN, KPP, name, address, all of one row) was taken, *)
(* and Expiry the date of each owner's certificate, which stands for the   *)
(* four dates /api/info/list gives.                                        *)
(***************************************************************************)
EXTENDS Integers, Sequences

CONSTANTS
    Owners,        \* owners of licences (FSRAR_ID)
    Expiry,        \* the date of the certificate of each, in seconds
    Blank,         \* "": a field that is empty or missing
    Absent,        \* nil: nothing was determined
    Kilo, Limit,   \* 1000, and 10^11: the largest number read as seconds
    MaxRows        \* bound on the rows of /api/rsa

ASSUME ClientAssumption ==
    /\ Kilo \in Nat \ {0, 1} /\ Limit \in Nat
    /\ Expiry \in [Owners -> Nat]
    /\ \A o \in Owners : Limit < Expiry[o] * Kilo /\ Expiry[o] <= Limit
    /\ Blank \notin Owners /\ Absent \notin Owners \cup Int
    /\ MaxRows \in Nat

\* A date as a device writes it: not at all, as text, or as a number of
\* seconds, milliseconds or microseconds.
Units == {1, Kilo, Kilo * Kilo}
Written(t) ==
    {[text |-> TRUE, n |-> t]} \cup {[text |-> FALSE, n |-> t * u] : u \in Units}

\* A row of /api/rsa has two fields that may name an owner, pass_owner_id and
\* Owner_ID, and they need not agree.  The organisation in it is the one of its
\* pass_owner_id (src/README.md:74-76), and anybody's when that is empty.
RSARow == {row \in [pass: Owners \cup {Blank}, own: Owners \cup {Blank}, org: Owners] :
              row.pass \in {row.org, Blank}}
RSARows == UNION {[1..n -> RSARow] : n \in 0..MaxRows}

VARIABLES
    owner,     \* whom the device is licensed to
    pc,        \* the request FetchInfo waits for
    info,      \* what it has determined
    err,       \* it returns an error
    rows       \* history: the answer of /api/rsa

vars == <<owner, pc, info, err, rows>>

Info == [fsrar: Owners \cup {Absent}, org: Owners \cup {Absent},
         expiry: Int \cup {Absent}]
Nothing == [fsrar |-> Absent, org |-> Absent, expiry |-> Absent]

TypeOK ==
    /\ owner \in Owners
    /\ pc \in {"idle", "list", "rsa", "diagnosis", "done"}
    /\ info \in Info
    /\ err \in BOOLEAN
    /\ rows \in Seq(RSARow)

Init ==
    /\ owner \in Owners
    /\ pc = "idle"
    /\ info = Nothing
    /\ err = FALSE
    /\ rows = <<>>

-----------------------------------------------------------------------------
(* Reading the answers.                                                    *)

InstantFromLimit(n) ==   \* faulty: >= for >
    IF n >= Limit * Kilo THEN n \div (Kilo * Kilo)
    ELSE IF n >= Limit THEN n \div Kilo ELSE n

\* The unit of a bare number is told by its size.
Instant(n) ==
    IF n > Limit * Kilo THEN n \div (Kilo * Kilo)
    ELSE IF n > Limit THEN n \div Kilo ELSE n

parseCertTime(date) == IF date.text THEN date.n ELSE Instant(date.n)

Matches(row, id) == row.pass = id \/ row.own = id

FirstRow(answer, id) ==   \* faulty: rows are not filtered
    {answer[i] : i \in {1} \cap 1..Len(answer)}

\* The first row that names the owner in either field; or the only one there
\* is, whomever it names.
findRSARow(answer, id) ==
    LET matching == {i \in 1..Len(answer) : Matches(answer[i], id)} IN
    IF matching # {}
    THEN {answer[i] : i \in {i \in matching : \A j \in matching : i <= j}}
    ELSE IF Len(answer) = 1 THEN {answer[1]} ELSE {}

-----------------------------------------------------------------------------
FetchInfo ==
    /\ pc = "idle"
    /\ pc' = "list"
    /\ info' = Nothing /\ err' = FALSE /\ rows' = <<>>
    /\ UNCHANGED owner

\* The primary answer: the owner and the date, when it is there and readable.
fetchAPIInfo ==
    /\ pc = "list"
    /\ \E date \in Written(Expiry[owner]) \cup {Absent} :
          info' = [fsrar |-> owner, org |-> Absent,
                   expiry |-> IF date = Absent THEN Absent ELSE parseCertTime(date)]
    /\ pc' = "rsa"
    /\ UNCHANGED <<owner, err, rows>>

DatesKept ==   \* faulty: the dates are set before ownerId is looked at
    info' \in {[info EXCEPT !.expiry = e] : e \in {Absent, Expiry[owner]}}

NothingSet == UNCHANGED info

\* No answer, one that cannot be read, or one without ownerId.
InfoListFails ==
    /\ pc = "list"
    /\ NothingSet
    /\ pc' = "diagnosis"
    /\ UNCHANGED <<owner, err, rows>>

\* The organisation, when a row is found.
GetRSA ==
    /\ pc = "rsa"
    /\ rows' \in RSARows
    /\ LET found == findRSARow(rows', info.fsrar) IN
       info' \in IF found = {} THEN {info}
                 ELSE {[info EXCEPT !.org = row.org] : row \in found}
    /\ pc' = "done"
    /\ UNCHANGED <<owner, err>>

FatalRSA == "diagnosis"   \* faulty: the error is returned

AfterRSAFails == "done"

\* The error is logged; the rest of the answer counts.
RSAFails ==
    /\ pc = "rsa"
    /\ pc' = AfterRSAFails
    /\ UNCHANGED <<owner, info, err, rows>>

EmptyCN == {owner, Blank}   \* faulty: an answer without CN is taken

CN == {owner}

fetchFSRARID ==
    /\ pc = "diagnosis"
    /\ \E id \in CN : info' = [info EXCEPT !.fsrar = id]
    /\ pc' = "done"
    /\ UNCHANGED <<owner, err, rows>>

\* The one thing that makes the whole poll fail.
DiagnosisFails ==
    /\ pc = "diagnosis"
    /\ err' = (info.fsrar = Absent)
    /\ pc' = "done"
    /\ UNCHANGED <<owner, info, rows>>

Return ==
    /\ pc = "done"
    /\ pc' = "idle"
    /\ UNCHANGED <<owner, info, err, rows>>

\* Another licence is put into the device, at any time.
Relicense ==
    /\ owner' \in Owners
    /\ UNCHANGED <<pc, info, err, rows>>

Next ==
    \/ FetchInfo
    \/ fetchAPIInfo \/ InfoListFails
    \/ GetRSA \/ RSAFails
    \/ fetchFSRARID \/ DiagnosisFails
    \/ Return \/ Relicense

Spec == Init /\ [][Next]_vars

-----------------------------------------------------------------------------
(* Properties.                                                             *)

\* "An error is returned only when nothing at all could be determined ... a
\* partial result is not an error" (comment of FetchInfo, client.go:105-109):
\* module Polling takes it for granted that a poll is one or the other.
ErrorMeansNothing ==
    pc = "done" => /\ err <=> (info.fsrar = Absent)
                   /\ err => info = Nothing

\* The date that is stored, and alerted about, is the date of the certificate
\* of the owner stored with it: whichever requests fail, whatever unit the
\* device counts in, and although it may change hands between two answers.
DatesOfOwner ==
    info.expiry # Absent => /\ info.fsrar # Absent
                            /\ info.expiry = Expiry[info.fsrar]

NamedByOwnerID(answer, id, org) ==
    \E i \in 1..Len(answer) :
       /\ answer[i].own = id /\ answer[i].org = org
       /\ \A j \in 1..i : answer[j].pass # id

\* Whose organisation is stored.  src/README.md:76-78 has it that the row whose
\* pass_owner_id is the owner is taken, and the comment of findRSARow
\* (client.go:241-243) that Owner_ID is a fallback; the code takes the first row
\* that matches in either field, and a sole row whomever it names.  So what is
\* stored is another owner's organisation in these two cases, and in no other.
OrgOfOwner ==
    info.org # Absent =>
        \/ info.org = info.fsrar
        \/ NamedByOwnerID(rows, info.fsrar, info.org)
        \/ Len(rows) = 1 /\ ~Matches(rows[1], info.fsrar)

Answer == INSTANCE DeviceAnswer WITH
    polling <- pc # "idle", answer <- info, failed <- err

\* "A non-nil *Info even on error ... a partial result is not an error"
\* (comment of FetchInfo, client.go:105-109): to PollOne, the requests, the
\* fallback and their failures are one answer in at most two pieces, which
\* starts from nothing, is never taken back, and is an error or has an owner.
KeepsAnswer == Answer!Spec

=============================================================================
