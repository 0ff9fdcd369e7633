------------------------------- MODULE Schedule -------------------------------
(***************************************************************************)
(* When polling cycles start: Scheduler.Run and tick.                      *)
(*                                                                         *)
(* A ticker wakes the scheduler once a minute; tick reads the two poll     *)
(* times from the settings, compares each with the wall clock written as   *)
(* HH:MM, and starts a cycle for a time that is reached unless its slot    *)
(* started one today.  What was started is kept in memory only.            *)
(*                                                                         *)
(* A poll time is a minute of the day and the way it is written: "09:00"   *)
(* and "9:00" are the same minute, but only the first is what the clock    *)
(* is formatted to.                                                        *)
(***************************************************************************)
EXTENDS Naturals

CONSTANTS
    Minutes,       \* minutes in a day
    Off,           \* the empty value, which disables a slot
    MaxDay,        \* bound on the days
    MaxRestarts    \* bound on the restarts of the process on one day

ASSUME ScheduleAssumption ==
    /\ Minutes \in Nat \ {0}
    /\ MaxDay \in Nat \ {0}
    /\ MaxRestarts \in Nat
    /\ Off \notin [minute: Nat, padded: BOOLEAN]

Slots == 1..2
PollTimes == [minute: 0..(Minutes - 1), padded: BOOLEAN]

VARIABLES
    slots,         \* settings.poll_time_1 and poll_time_2
    lastRunDate,   \* the day a slot last triggered, 0 when it did not
    day, minute,   \* the wall clock
    ticked,        \* a tick was handled in this minute
    cycles,        \* history: cycles each slot started today
    restarts,      \* history: restarts today
    since          \* history: the minute of today from which each slot had its
                   \* value, in a process that was up, and no tick was missed

vars == <<slots, lastRunDate, day, minute, ticked, cycles, restarts, since>>

TypeOK ==
    /\ slots \in [Slots -> PollTimes \cup {Off}]
    /\ lastRunDate \in [Slots -> 0..MaxDay]
    /\ day \in 1..MaxDay
    /\ minute \in 0..(Minutes - 1)
    /\ ticked \in BOOLEAN
    /\ cycles \in [Slots -> Nat]
    /\ restarts \in 0..MaxRestarts
    /\ since \in [Slots -> 0..Minutes]

\* The row schema.sql creates has a time for the first slot only.
Init ==
    /\ \E m \in 0..(Minutes - 1) :
          slots = [s \in Slots |->
                     IF s = 1 THEN [minute |-> m, padded |-> TRUE] ELSE Off]
    /\ lastRunDate = [s \in Slots |-> 0]
    /\ day = 1 /\ minute = 0
    /\ ticked = FALSE
    /\ cycles = [s \in Slots |-> 0]
    /\ restarts = 0
    /\ since = [s \in Slots |-> 0]

-----------------------------------------------------------------------------
\* time.Parse("15:04", s) takes the hour with or without its leading zero.
validPollTime(t) == t # Off

\* time.Now().Format("15:04")
Clock == [minute |-> minute, padded |-> TRUE]

TodayElsewhere == day + 1   \* faulty: the date of another time zone

\* time.Now().Format("2006-01-02")
Today == day

TriggeredEver(s) == lastRunDate[s] # 0   \* faulty: the date is not compared
TriggeredNever(s) == FALSE               \* faulty: nothing is remembered

\* This slot started its cycle of the day: keyed by the slot, not by its time.
Triggered(s) == lastRunDate[s] = Today

\* An error reading the settings ends the tick, as if it had been missed.
tick ==
    LET reached == {s \in Slots : slots[s] = Clock} IN
    /\ lastRunDate' = [s \in Slots |-> IF s \in reached THEN Today ELSE lastRunDate[s]]
    /\ cycles' = [s \in Slots |->
                    IF s \in reached /\ ~Triggered(s) THEN cycles[s] + 1 ELSE cycles[s]]
    /\ ticked' = TRUE
    /\ UNCHANGED <<slots, day, minute, restarts, since>>

\* For the history since: the minute of the next tick that sees a change made now.
NextTick == IF ticked THEN minute + 1 ELSE minute

\* The second time may be left empty; a wrong one is refused.
handleSettingsSave(t1, t2) ==
    /\ validPollTime(t1)
    /\ t2 = Off \/ validPollTime(t2)
    /\ slots' = [s \in Slots |-> IF s = 1 THEN t1 ELSE t2]
    /\ since' = [s \in Slots |-> IF slots'[s] = slots[s] THEN since[s] ELSE NextTick]
    /\ UNCHANGED <<lastRunDate, day, minute, ticked, cycles, restarts>>

Restart ==
    /\ restarts < MaxRestarts
    /\ restarts' = restarts + 1
    /\ lastRunDate' = [s \in Slots |-> 0]
    /\ since' = [s \in Slots |-> NextTick]
    /\ UNCHANGED <<slots, day, minute, ticked, cycles>>

\* The clock moves on, whether or not a tick was handled in the minute.
NextMinute ==
    /\ ticked' = FALSE
    /\ IF minute < Minutes - 1
       THEN /\ minute' = minute + 1
            /\ since' = IF ticked THEN since ELSE [s \in Slots |-> minute + 1]
            /\ UNCHANGED <<day, cycles, restarts>>
       ELSE /\ day < MaxDay
            /\ day' = day + 1 /\ minute' = 0
            /\ cycles' = [s \in Slots |-> 0]
            /\ restarts' = 0
            /\ since' = [s \in Slots |-> 0]
    /\ UNCHANGED <<slots, lastRunDate>>

Save == \E t1, t2 \in PollTimes \cup {Off} : handleSettingsSave(t1, t2)

Next == tick \/ Save \/ Restart \/ NextMinute

Spec == Init /\ [][Next]_vars

-----------------------------------------------------------------------------
\* A slot starts one cycle a day, and one more for every restart at most:
\* however often its time is changed, and however many ticks see it.
OncePerDay == \A s \in Slots : cycles[s] <= 1 + restarts

DayEnds == day' # day

\* The slot had its time before it was reached today, in a process that was up,
\* and no tick was missed since.
WasReached(s) ==
    /\ slots[s] # Off
    /\ since[s] <= slots[s].minute
    /\ slots[s].minute < minute \/ ticked

\* No day passes without a cycle of a slot whose time, written HH:MM, was set
\* before it was reached in a process that was up from then on and missed no
\* tick: however often the time was changed, and whatever ran before.
DailyCycle ==
    [][DayEnds => \A s \in Slots :
          (WasReached(s) /\ slots[s].padded) => cycles[s] > 0]_vars

\* The settings page takes a time or refuses it with "use the format HH:MM"
\* (handlers.go:322-329), and polling runs at the times set there
\* (README.md:23-24): what it takes is run, every day.
AcceptedTimeRuns ==
    [][DayEnds => \A s \in Slots : WasReached(s) => cycles[s] > 0]_vars

=============================================================================
