----------------------------- MODULE MCDashboard -----------------------------
(***************************************************************************)
(* Instances of Dashboard for TLC.                                         *)
(***************************************************************************)
EXTENDS Dashboard, TLC

CONSTANTS ip, p1

MCLists == { <<[name |-> ip, port |-> NoPort]>>, <<[name |-> Blank, port |-> NoPort]>> }

Symmetry == Permutations(Requests)

\* Without the histories of Registry: only their types are looked at in this run.
DashboardView ==
    <<utms, lastId, requests, backup, authVars, migrationVars>>

=============================================================================
