----------------------------- MODULE DeviceAnswer -----------------------------
(***************************************************************************)
(* What one poll of a device promises to the scheduler, without saying     *)
(* which requests it makes: the poll starts from nothing, whatever the     *)
(* poll before it found; the owner and the date of that owner are          *)
(* determined in one piece, once, and the organisation at most once after  *)
(* them; nothing is taken back; and the poll either fails, with nothing    *)
(* determined, or ends with an owner.                                      *)
(***************************************************************************)
CONSTANTS Owners, Expiry, Absent

VARIABLES
    owner,     \* whom the device is licensed to
    polling,   \* a poll is going on
    answer,    \* what it, or the last one, has determined
    failed     \* it ended with an error

vars == <<owner, polling, answer, failed>>

Nothing == [fsrar |-> Absent, org |-> Absent, expiry |-> Absent]

Init ==
    /\ owner \in Owners
    /\ polling = FALSE
    /\ answer = Nothing
    /\ failed = FALSE

Ask ==
    /\ ~polling
    /\ polling' = TRUE
    /\ answer' = Nothing
    /\ failed' = FALSE
    /\ UNCHANGED owner

\* The owner at this moment, with or without the date of the certificate.
Identify ==
    /\ polling /\ ~failed /\ answer = Nothing
    /\ \E date \in {Absent, Expiry[owner]} :
          answer' = [fsrar |-> owner, org |-> Absent, expiry |-> date]
    /\ UNCHANGED <<owner, polling, failed>>

Complement ==
    /\ polling /\ answer.fsrar # Absent /\ answer.org = Absent
    /\ \E org \in Owners : answer' = [answer EXCEPT !.org = org]
    /\ UNCHANGED <<owner, polling, failed>>

Fail ==
    /\ polling /\ answer = Nothing
    /\ failed' = TRUE
    /\ UNCHANGED <<owner, polling, answer>>

Finish ==
    /\ polling /\ (failed <=> answer = Nothing)
    /\ polling' = FALSE
    /\ UNCHANGED <<owner, answer, failed>>

Relicense ==
    /\ owner' \in Owners
    /\ UNCHANGED <<polling, answer, failed>>

Next == Ask \/ Identify \/ Complement \/ Fail \/ Finish \/ Relicense

Spec == Init /\ [][Next]_vars

=============================================================================
