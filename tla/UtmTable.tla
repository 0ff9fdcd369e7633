------------------------------- MODULE UtmTable -------------------------------
(***************************************************************************)
(* What table utms promises to all who hold the id of a device, without    *)
(* saying who changes it, or when.                                         *)
(*                                                                         *)
(* Ids are handed out in order and never again (AUTOINCREMENT); no two     *)
(* devices are registered at one address (UNIQUE); and an id stays with    *)
(* one host until its row is deleted, since only the port can be edited.   *)
(* Polling, where goroutines hold ids across waits, implements this.       *)
(***************************************************************************)
EXTENDS Naturals

CONSTANTS
    Ids, Addrs,    \* an address is a pair of a host and a port
    NoRow

VARIABLES
    utms,      \* the address each id is registered at, or NoRow
    lastId     \* the last id that was handed out

vars == <<utms, lastId>>

Init ==
    /\ utms = [id \in Ids |-> NoRow]
    /\ lastId = 0

Free(id, addr) == \A x \in Ids \ {id} : utms[x] # addr

Insert(id, addr) ==
    /\ id = lastId + 1
    /\ Free(id, addr)
    /\ utms' = [utms EXCEPT ![id] = addr]
    /\ lastId' = id

\* The edit form moves a device to another port of its host.
Move(id, addr) ==
    /\ utms[id] # NoRow
    /\ addr[1] = utms[id][1]
    /\ Free(id, addr)
    /\ utms' = [utms EXCEPT ![id] = addr]
    /\ UNCHANGED lastId

Delete(id) ==
    /\ utms[id] # NoRow
    /\ utms' = [utms EXCEPT ![id] = NoRow]
    /\ UNCHANGED lastId

Next ==
    \/ \E id \in Ids, addr \in Addrs : Insert(id, addr) \/ Move(id, addr)
    \/ \E id \in Ids : Delete(id)

Spec == Init /\ [][Next]_vars

=============================================================================
