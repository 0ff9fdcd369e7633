---------------------------- MODULE MCNotification ----------------------------
(***************************************************************************)
(* Instances of Notification for TLC.                                      *)
(***************************************************************************)
EXTENDS Notification, TLC

Symmetry == Permutations(ChatIds) \cup Permutations(Runs)

MCDirect == {[mode |-> "direct", address |-> "none"]}
MCRelay == MCDirect \cup {[mode |-> "relay", address |-> "none"]}

\* What a run may still compare with its past.
Compared(r) ==
    IF r.pc # "run" THEN r
    ELSE [r EXCEPT !.past = {s \in @ :
            /\ s.utm \in Live
            /\ \/ \E u \in r.left : u.id = s.utm
               \/ \E a \in r.todo : RowOf(a) = s
               \/ \E l \in r.lines : RowOf(l[2]) = s}]

\* The alerts a run has taken up.
Carried(r) == IF r.pc = "run" THEN r.todo \cup r.marks \cup {l[2] : l \in r.lines} ELSE {}
AllCarried == UNION {Carried(runs[c]) : c \in Runs}

\* What is left out makes no property of the run false later: no property looks
\* at repeated; sent and delivered get alerts only that a run carries, and
\* attempted, refused and hadScope only grow; what a run is still to collect is for
\* recipients of that moment; and a device that is gone does not return, nor is
\* it on record.
OverlapView ==
    <<tables, now, [c \in Runs |-> Compared(runs[c])], restarts,
      [c \in ChatIds |-> hadScope[c] \cap UNION {{Absent, a.utm} : a \in AllCarried}],
      {s \in PassedToSend : s.utm \in Live /\ \E a \in AllCarried : RowOf(a) = s},
      ScopeRespected, MarkedWasAttempted>>

\* The settings with a bot token, once saved, stay: a run looks at them only
\* when it starts.
SettingsStay == settings.token => settings' = settings

\* An expiry, once set, stays too: a run looks at it only when it lists the
\* devices.
StaysSet ==
    /\ SettingsStay
    /\ \A id \in Live : utms'[id] # NoRow =>
          \A cert \in Certs : utms[id][cert] \in {Absent, utms'[id][cert]}

=============================================================================
