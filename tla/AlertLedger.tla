----------------------------- MODULE AlertLedger -----------------------------
(***************************************************************************)
(* What CheckAndNotify promises, without saying how: the life of an alert. *)
(*                                                                         *)
(* An alert is announced to chats, then put on record.  Only an announced  *)
(* alert of a registered device is put on record; what is on record is not *)
(* announced any more; and the record of an alert goes only with its       *)
(* device, whose id is not used again.  A chat may thus be told twice of   *)
(* an alert that never got on record (the process ended first), and never  *)
(* of one that did.  Notification implements this as long as its runs do   *)
(* not overlap.                                                            *)
(***************************************************************************)
CONSTANTS Devices, Chats,
          Alerts    \* each with the device it is about in its field utm

VARIABLES
    device,      \* where the id of each device is in its life
    announced,   \* alerts that were in a digest, sent or refused
    told,        \* <<chat, alert>>: the digest reached the chat
    retold,      \* those that reached the chat more than once
    recorded     \* alerts on record as sent

vars == <<device, announced, told, retold, recorded>>

Init ==
    /\ device = [d \in Devices |-> "new"]
    /\ announced = {} /\ told = {} /\ retold = {} /\ recorded = {}

Register(d) ==
    /\ device[d] = "new"
    /\ device' = [device EXCEPT ![d] = "live"]
    /\ UNCHANGED <<announced, told, retold, recorded>>

Deregister(d) ==
    /\ device[d] = "live"
    /\ device' = [device EXCEPT ![d] = "gone"]
    /\ recorded' = {a \in recorded : a.utm # d}
    /\ UNCHANGED <<announced, told, retold>>

\* A digest for one chat: it arrives, or it does not.
Announce(chat, digest) ==
    /\ digest \cap recorded = {}
    /\ \A a \in digest : device[a.utm] # "new"
    /\ announced' = announced \cup digest
    /\ \/ /\ told' = told \cup ({chat} \X digest)
          /\ retold' = retold \cup (({chat} \X digest) \cap told)
       \/ UNCHANGED <<told, retold>>
    /\ UNCHANGED <<device, recorded>>

Record(a) ==
    /\ a \in announced
    /\ device[a.utm] = "live"
    /\ recorded' = recorded \cup {a}
    /\ UNCHANGED <<device, announced, told, retold>>

Next ==
    \/ \E d \in Devices : Register(d) \/ Deregister(d)
    \/ \E chat \in Chats, digest \in SUBSET Alerts : Announce(chat, digest)
    \/ \E a \in Alerts : Record(a)

Spec == Init /\ [][Next]_vars

=============================================================================
