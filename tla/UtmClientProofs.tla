---------------------------- MODULE UtmClientProofs ----------------------------
(***************************************************************************)
(* Proofs about UtmClient: the unit of a date given as a number, and what  *)
(* a poll returns whichever of its requests fail.                          *)
(***************************************************************************)
EXTENDS UtmClient, TLAPS

LEMMA Constants ==
    /\ Kilo \in Nat /\ Kilo > 1 /\ Limit \in Nat
    /\ Expiry \in [Owners -> Nat]
    /\ \A o \in Owners : Limit < Expiry[o] * Kilo /\ Expiry[o] <= Limit
    /\ Blank \notin Owners /\ Absent \notin Owners /\ Absent \notin Int
    /\ MaxRows \in Nat
  BY ClientAssumption

-----------------------------------------------------------------------------
(* Dates.                                                                  *)

LEMMA MulMonotone ==
    ASSUME NEW a \in Nat, NEW b \in Nat, NEW k \in Nat, k > 0
    PROVE  /\ a < b => a * k < b * k
           /\ a <= b => a * k <= b * k
  BY SMT

LEMMA DivInverse ==
    ASSUME NEW a \in Nat, NEW k \in Nat, k > 0
    PROVE  (a * k) \div k = a
  BY SMT

\* A date between Limit / 1000 and Limit seconds (from March 1973 on) is read
\* back as it was meant, in whichever unit the device counts (parseCertTime).
THEOREM UnitsTold ==
    ASSUME NEW t \in Nat, Limit < t * Kilo, t <= Limit, NEW u \in Units
    PROVE  Instant(t * u) = t
<1>1. Kilo \in Nat /\ Kilo > 1 /\ Limit \in Nat
  BY Constants
<1>2. CASE u = 1
  <2>1. Limit <= Limit * Kilo
    <3>1. Limit * 1 <= Limit * Kilo
      BY <1>1, SMT
    <3> QED
      BY <1>1, <3>1
  <2>2. t * u = t
    BY <1>2
  <2> QED
    BY <1>1, <2>1, <2>2 DEF Instant
<1>3. CASE u = Kilo
  <2>1. t * Kilo <= Limit * Kilo
    BY <1>1, MulMonotone
  <2>2. (t * Kilo) \div Kilo = t
    BY <1>1, DivInverse
  <2> QED
    BY <1>1, <1>3, <2>1, <2>2 DEF Instant
<1>4. CASE u = Kilo * Kilo
  <2>1. t * Kilo \in Nat /\ Kilo * Kilo \in Nat /\ Kilo * Kilo > 0
    BY <1>1, SMT
  <2>2. Limit * Kilo < (t * Kilo) * Kilo
    BY <1>1, <2>1, MulMonotone
  <2>3. (t * Kilo) * Kilo = t * (Kilo * Kilo)
    BY <1>1, SMT
  <2>4. (t * (Kilo * Kilo)) \div (Kilo * Kilo) = t
    BY <2>1, DivInverse
  <2>5. Limit * Kilo < t * u
    BY <1>4, <2>2, <2>3
  <2> QED
    BY <1>4, <2>4, <2>5 DEF Instant
<1> QED
  BY <1>2, <1>3, <1>4 DEF Units

LEMMA DateRead ==
    ASSUME NEW o \in Owners, NEW date \in Written(Expiry[o])
    PROVE  parseCertTime(date) = Expiry[o]
<1>1. Expiry[o] \in Nat /\ Limit < Expiry[o] * Kilo /\ Expiry[o] <= Limit
  BY Constants
<1>2. CASE date = [text |-> TRUE, n |-> Expiry[o]]
  BY <1>2 DEF parseCertTime
<1>3. CASE \E u \in Units : date = [text |-> FALSE, n |-> Expiry[o] * u]
  <2>1. PICK u \in Units : date = [text |-> FALSE, n |-> Expiry[o] * u]
    BY <1>3
  <2>2. parseCertTime(date) = Instant(Expiry[o] * u)
    BY <2>1 DEF parseCertTime
  <2> QED
    BY <1>1, <2>2, UnitsTold
<1> QED
  BY <1>2, <1>3 DEF Written

-----------------------------------------------------------------------------
(* The row of the owner.                                                   *)

\* Where the row that is taken comes from.
Rightful(answer, id, org) ==
    \/ org = id
    \/ NamedByOwnerID(answer, id, org)
    \/ Len(answer) = 1 /\ ~Matches(answer[1], id)

LEMMA RowFound ==
    ASSUME NEW answer \in RSARows, NEW id \in Owners, NEW row \in findRSARow(answer, id)
    PROVE  row \in RSARow /\ Rightful(answer, id, row.org)
<1>1. PICK n \in 0..MaxRows : answer \in [1..n -> RSARow]
  BY DEF RSARows
<1>2. n \in Nat /\ Len(answer) = n /\ answer \in Seq(RSARow)
  BY <1>1, Constants
<1> DEFINE matching == {i \in 1..Len(answer) : Matches(answer[i], id)}
<1>3. CASE matching # {}
  <2>1. PICK i \in matching : row = answer[i] /\ \A j \in matching : i <= j
    BY <1>3 DEF findRSARow
  <2>2. i \in 1..n /\ row \in RSARow /\ Matches(row, id)
    BY <1>1, <1>2, <2>1
  <2>3. CASE row.pass = id
    BY <2>2, <2>3, Constants DEF RSARow, Rightful
  <2>4. CASE row.pass # id
    <3>1. row.own = id
      BY <2>2, <2>4 DEF Matches
    <3>2. \A j \in 1..i : answer[j].pass # id
      <4> SUFFICES ASSUME NEW j \in 1..i, answer[j].pass = id
                   PROVE  FALSE
        OBVIOUS
      <4>1. j \in matching
        BY <1>2, <2>2 DEF Matches
      <4>2. j = i
        BY <1>2, <2>1, <2>2, <4>1
      <4> QED
        BY <2>1, <2>4, <4>2
    <3> QED
      BY <1>2, <2>1, <2>2, <3>1, <3>2 DEF NamedByOwnerID, Rightful
  <2> QED
    BY <2>3, <2>4
<1>4. CASE matching = {}
  <2>1. Len(answer) = 1 /\ row = answer[1]
    BY <1>4 DEF findRSARow
  <2>2. ~Matches(answer[1], id)
    BY <1>4, <2>1
  <2> QED
    BY <1>1, <1>2, <2>1, <2>2 DEF Rightful
<1> QED
  BY <1>3, <1>4

-----------------------------------------------------------------------------
(* The invariant: what is determined at each request.                      *)

LEMMA NothingType == Nothing \in Info
  BY DEF Nothing, Info

\* Before the first answer nothing is determined; before /api/rsa, no
\* organisation is; and a poll that goes on has no error.
Progress ==
    /\ pc \in {"list", "diagnosis"} => info = Nothing
    /\ pc = "rsa" => info.fsrar \in Owners /\ info.org = Absent
    /\ pc = "done" => (err <=> info.fsrar = Absent)
    /\ err => info = Nothing
    /\ pc \in {"list", "diagnosis", "rsa"} => ~err

IInv == TypeOK /\ Progress /\ DatesOfOwner /\ OrgOfOwner

LEMMA Initial == Init => IInv
<1> SUFFICES ASSUME Init PROVE IInv
  OBVIOUS
<1>1. info.fsrar = Absent /\ info.org = Absent /\ info.expiry = Absent
  BY DEF Init, Nothing
<1>2. rows \in Seq(RSARow)
  BY DEF Init
<1> QED
  BY <1>1, <1>2, NothingType DEF Init, IInv, TypeOK, Progress, DatesOfOwner, OrgOfOwner

LEMMA Inductive == IInv /\ [Next]_vars => IInv'
<1> SUFFICES ASSUME IInv, [Next]_vars PROVE IInv'
  OBVIOUS
<1> USE DEF IInv
<1>1. CASE FetchInfo
  <2>1. info'.fsrar = Absent /\ info'.org = Absent /\ info'.expiry = Absent
    BY <1>1 DEF FetchInfo, Nothing
  <2>2. rows' \in Seq(RSARow)
    BY <1>1 DEF FetchInfo
  <2> QED
    BY <1>1, <2>1, <2>2, NothingType DEF FetchInfo, TypeOK, Progress, DatesOfOwner, OrgOfOwner
<1>2. CASE fetchAPIInfo
  <2>1. PICK date \in Written(Expiry[owner]) \cup {Absent} :
          info' = [fsrar |-> owner, org |-> Absent,
                   expiry |-> IF date = Absent THEN Absent ELSE parseCertTime(date)]
    BY <1>2 DEF fetchAPIInfo
  <2>2. owner \in Owners /\ Expiry[owner] \in Int
    BY Constants DEF TypeOK
  <2>3. info'.fsrar = owner /\ info'.org = Absent /\ info'.expiry \in {Absent, Expiry[owner]}
    BY <2>1, <2>2, DateRead
  <2>4. info' \in Info
    BY <2>1, <2>2, <2>3 DEF Info
  <2> QED
    BY <1>2, <2>2, <2>3, <2>4, Constants
       DEF fetchAPIInfo, TypeOK, Progress, DatesOfOwner, OrgOfOwner
<1>3. CASE InfoListFails
  BY <1>3 DEF InfoListFails, NothingSet, TypeOK, Progress, DatesOfOwner, OrgOfOwner
<1>4. CASE GetRSA
  <2>1. rows' \in Seq(RSARow)
    <3>1. PICK n \in 0..MaxRows : rows' \in [1..n -> RSARow]
      BY <1>4 DEF GetRSA, RSARows
    <3> QED
      BY <3>1, Constants
  <2>2. info.fsrar \in Owners /\ info.org = Absent
    BY <1>4 DEF GetRSA, Progress
  <2>3. CASE info' = info
    BY <1>4, <2>1, <2>2, <2>3, Constants DEF GetRSA, TypeOK, Progress, DatesOfOwner, OrgOfOwner
  <2>4. CASE \E row \in findRSARow(rows', info.fsrar) : info' = [info EXCEPT !.org = row.org]
    <3>1. PICK row \in findRSARow(rows', info.fsrar) : info' = [info EXCEPT !.org = row.org]
      BY <2>4
    <3>2. rows' \in RSARows
      BY <1>4 DEF GetRSA
    <3>3. row \in RSARow /\ Rightful(rows', info.fsrar, row.org)
      BY <2>2, <3>1, <3>2, RowFound
    <3>4. /\ info' \in Info
          /\ info'.fsrar = info.fsrar /\ info'.expiry = info.expiry /\ info'.org = row.org
      BY <3>1, <3>3 DEF TypeOK, Info, RSARow
    <3> QED
      BY <1>4, <2>1, <2>2, <3>3, <3>4, Constants
         DEF GetRSA, TypeOK, Progress, DatesOfOwner, OrgOfOwner, Nothing, Rightful
  <2> QED
    BY <1>4, <2>3, <2>4 DEF GetRSA
<1>5. CASE RSAFails
  BY <1>5, Constants DEF RSAFails, AfterRSAFails, TypeOK, Progress, DatesOfOwner, OrgOfOwner, Nothing
<1>6. CASE fetchFSRARID
  <2>1. info' = [info EXCEPT !.fsrar = owner] /\ info = Nothing
    BY <1>6 DEF fetchFSRARID, CN, Progress
  <2>2. info' = [fsrar |-> owner, org |-> Absent, expiry |-> Absent]
    BY <2>1 DEF Nothing
  <2>3. info' \in Info /\ owner \in Owners
    BY <2>2 DEF TypeOK, Info
  <2> QED
    BY <1>6, <2>2, <2>3, Constants
       DEF fetchFSRARID, TypeOK, Progress, DatesOfOwner, OrgOfOwner
<1>7. CASE DiagnosisFails
  <2>1. info.fsrar = Absent
    BY <1>7 DEF DiagnosisFails, Progress, Nothing
  <2> QED
    BY <1>7, <2>1 DEF DiagnosisFails, TypeOK, Progress, DatesOfOwner, OrgOfOwner
<1>8. CASE Return
  BY <1>8 DEF Return, TypeOK, Progress, DatesOfOwner, OrgOfOwner
<1>9. CASE Relicense
  BY <1>9 DEF Relicense, TypeOK, Progress, DatesOfOwner, OrgOfOwner
<1>10. CASE UNCHANGED vars
  BY <1>10 DEF vars, TypeOK, Progress, DatesOfOwner, OrgOfOwner
<1> QED
  BY <1>1, <1>2, <1>3, <1>4, <1>5, <1>6, <1>7, <1>8, <1>9, <1>10 DEF Next

LEMMA Invariant == Spec => []IInv
  BY Initial, Inductive, PTL DEF Spec

-----------------------------------------------------------------------------
\* Every variable of UtmClient keeps its type.
THEOREM TypeCorrect == Spec => []TypeOK
<1>1. IInv => TypeOK
  BY DEF IInv
<1> QED
  BY <1>1, Invariant, PTL

\* FetchInfo returns an error exactly when it determined nothing at all.
THEOREM ErrorsMeanNothing == Spec => []ErrorMeansNothing
<1>1. IInv => ErrorMeansNothing
  BY DEF IInv, Progress, ErrorMeansNothing
<1> QED
  BY <1>1, Invariant, PTL

\* The date FetchInfo returns is the one of the owner it returns.
THEOREM DatesBelong == Spec => []DatesOfOwner
<1>1. IInv => DatesOfOwner
  BY DEF IInv
<1> QED
  BY <1>1, Invariant, PTL

\* The organisation FetchInfo returns is the one of the owner it returns, but in
\* two cases: a row names the owner only in Owner_ID and no row up to it in
\* pass_owner_id, or the device gave a single row that does not name it at all.
THEOREM OrganisationsBelong == Spec => []OrgOfOwner
<1>1. IInv => OrgOfOwner
  BY DEF IInv
<1> QED
  BY <1>1, Invariant, PTL

-----------------------------------------------------------------------------
(* The requests of FetchInfo as one answer to the scheduler.               *)

LEMMA AnswerInit == Init => Answer!Init
  BY DEF Init, Answer!Init, Nothing, Answer!Nothing

LEMMA ListIdentifies == IInv /\ fetchAPIInfo => Answer!Identify
<1> SUFFICES ASSUME IInv, fetchAPIInfo PROVE Answer!Identify
  OBVIOUS
<1>1. PICK date \in Written(Expiry[owner]) \cup {Absent} :
        info' = [fsrar |-> owner, org |-> Absent,
                 expiry |-> IF date = Absent THEN Absent ELSE parseCertTime(date)]
  BY DEF fetchAPIInfo
<1>2. owner \in Owners
  BY DEF IInv, TypeOK
<1>3. \E d \in {Absent, Expiry[owner]} : info' = [fsrar |-> owner, org |-> Absent, expiry |-> d]
  <2>1. CASE date = Absent
    BY <1>1, <2>1
  <2>2. CASE date # Absent
    BY <1>1, <1>2, <2>2, DateRead
  <2> QED
    BY <2>1, <2>2
<1>4. pc = "list" /\ pc' = "rsa" /\ info = Nothing /\ ~err /\ UNCHANGED <<owner, err>>
  BY DEF fetchAPIInfo, IInv, Progress
<1> QED
  BY <1>3, <1>4 DEF Answer!Identify, Answer!Nothing, Nothing

LEMMA DiagnosisIdentifies == IInv /\ fetchFSRARID => Answer!Identify
<1> SUFFICES ASSUME IInv, fetchFSRARID PROVE Answer!Identify
  OBVIOUS
<1>1. pc = "diagnosis" /\ pc' = "done" /\ info = Nothing /\ ~err /\ UNCHANGED <<owner, err>>
  BY DEF fetchFSRARID, IInv, Progress
<1>2. info' = [fsrar |-> owner, org |-> Absent, expiry |-> Absent]
  BY <1>1 DEF fetchFSRARID, CN, Nothing
<1> QED
  BY <1>1, <1>2 DEF Answer!Identify, Answer!Nothing, Nothing

LEMMA RSAComplements ==
    IInv /\ GetRSA => Answer!Complement \/ UNCHANGED Answer!vars
<1> SUFFICES ASSUME IInv, GetRSA PROVE Answer!Complement \/ UNCHANGED Answer!vars
  OBVIOUS
<1>1. /\ pc = "rsa" /\ pc' = "done" /\ UNCHANGED <<owner, err>>
      /\ info.fsrar \in Owners /\ info.org = Absent /\ rows' \in RSARows
  BY DEF GetRSA, IInv, Progress
<1>2. CASE info' = info
  BY <1>1, <1>2 DEF Answer!vars
<1>3. CASE \E row \in findRSARow(rows', info.fsrar) : info' = [info EXCEPT !.org = row.org]
  <2>1. PICK row \in findRSARow(rows', info.fsrar) : info' = [info EXCEPT !.org = row.org]
    BY <1>3
  <2>2. row.org \in Owners
    BY <1>1, <2>1, RowFound DEF RSARow
  <2> QED
    BY <1>1, <2>1, <2>2, Constants DEF Answer!Complement
<1> QED
  BY <1>2, <1>3 DEF GetRSA

LEMMA ReturnFinishes == IInv /\ Return => Answer!Finish
<1> SUFFICES ASSUME IInv, Return PROVE Answer!Finish
  OBVIOUS
<1>1. pc = "done" /\ pc' = "idle" /\ UNCHANGED <<owner, info, err>>
  BY DEF Return
<1>2. err <=> info = Nothing
  BY <1>1 DEF IInv, Progress, Nothing
<1> QED
  BY <1>1, <1>2 DEF Answer!Finish, Answer!Nothing, Nothing

LEMMA AnswerStep == IInv /\ [Next]_vars => [Answer!Next]_(Answer!vars)
<1> SUFFICES ASSUME IInv, [Next]_vars PROVE Answer!Next \/ UNCHANGED Answer!vars
  OBVIOUS
<1>1. CASE FetchInfo
  BY <1>1 DEF FetchInfo, Nothing, Answer!Nothing, Answer!Ask, Answer!Next
<1>2. CASE fetchAPIInfo
  BY <1>2, ListIdentifies DEF Answer!Next
<1>3. CASE InfoListFails
  BY <1>3 DEF InfoListFails, NothingSet, Answer!vars
<1>4. CASE GetRSA
  BY <1>4, RSAComplements DEF Answer!Next
<1>5. CASE RSAFails
  BY <1>5 DEF RSAFails, AfterRSAFails, Answer!vars
<1>6. CASE fetchFSRARID
  BY <1>6, DiagnosisIdentifies DEF Answer!Next
<1>7. CASE DiagnosisFails
  <2>1. pc = "diagnosis" /\ pc' = "done" /\ info = Nothing /\ UNCHANGED <<owner, info>>
    BY <1>7 DEF DiagnosisFails, IInv, Progress
  <2>2. info.fsrar = Absent
    BY <2>1 DEF Nothing
  <2>3. err' = TRUE
    BY <1>7, <2>2, Zenon DEF DiagnosisFails
  <2> QED
    BY <2>1, <2>3 DEF Nothing, Answer!Nothing, Answer!Fail, Answer!Next
<1>8. CASE Return
  BY <1>8, ReturnFinishes DEF Answer!Next
<1>9. CASE Relicense
  BY <1>9 DEF Relicense, Answer!Relicense, Answer!Next
<1>10. CASE UNCHANGED vars
  BY <1>10 DEF vars, Answer!vars
<1> QED
  BY <1>1, <1>2, <1>3, <1>4, <1>5, <1>6, <1>7, <1>8, <1>9, <1>10 DEF Next

\* Whichever requests of FetchInfo fail, and whenever the device changes hands,
\* the poll is to its caller the one answer DeviceAnswer describes.
THEOREM AnswerKept == Spec => KeepsAnswer
  BY AnswerInit, AnswerStep, Invariant, PTL DEF Spec, Answer!Spec, KeepsAnswer

=============================================================================
