------------------------------ MODULE MCUtmClient ------------------------------
(***************************************************************************)
(* Instances of UtmClient for TLC.                                         *)
(***************************************************************************)
EXTENDS UtmClient

CONSTANTS o1, o2

\* The first and the last date whose unit can be told.
MCExpiry == [o \in Owners |-> IF o = o1 THEN Limit \div Kilo + 1 ELSE Limit]

=============================================================================
