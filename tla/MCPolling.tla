------------------------------ MODULE MCPolling ------------------------------
(***************************************************************************)
(* Instances of Polling for TLC.                                           *)
(***************************************************************************)
EXTENDS Polling, TLC

\* What the edit form may submit: everything, or nothing (no form is posted).
AnyForm == [Fields -> Vals \cup {Absent}]
ClearForm == {NoData}
NoForm == {}

Symmetry == Permutations(Pollers) \cup Permutations(Ports)

=============================================================================
