---------------------------- MODULE ScheduleProofs ----------------------------
(***************************************************************************)
(* Proofs about Schedule: how often a slot starts a cycle on a day.        *)
(***************************************************************************)
EXTENDS Schedule, TLAPS

LEMMA Constants ==
    /\ Minutes \in Nat /\ Minutes > 0
    /\ MaxDay \in Nat /\ MaxDay > 0 /\ MaxRestarts \in Nat
    /\ Off \notin PollTimes
  BY ScheduleAssumption DEF PollTimes

\* What is remembered of today agrees with what ran today.  A slot ran no more
\* often than the process was started, and less often when the process of now
\* has not triggered it; what was triggered today ran.
Remembered ==
    \A s \in Slots :
       /\ lastRunDate[s] <= day
       /\ lastRunDate[s] = day => cycles[s] > 0 /\ cycles[s] <= 1 + restarts
       /\ lastRunDate[s] # day => cycles[s] <= restarts

\* A slot whose minute has come, with a tick that could see it, ran today.
RanWhenReached ==
    \A s \in Slots :
       (/\ slots[s] # Off /\ slots[s].padded
        /\ since[s] <= slots[s].minute
        /\ slots[s].minute < minute \/ (slots[s].minute = minute /\ ticked))
         => cycles[s] > 0

IInv == TypeOK /\ Remembered /\ RanWhenReached

-----------------------------------------------------------------------------
LEMMA SlotType ==
    ASSUME TypeOK, NEW s \in Slots
    PROVE  /\ slots[s] = Off \/ (slots[s] \in PollTimes /\ slots[s].minute \in Nat
                                   /\ slots[s].minute < Minutes /\ slots[s].padded \in BOOLEAN)
           /\ lastRunDate[s] \in Nat /\ cycles[s] \in Nat /\ since[s] \in Nat
           /\ since[s] <= Minutes
           /\ day \in Nat /\ day > 0 /\ minute \in Nat /\ minute < Minutes
           /\ restarts \in Nat
  BY Constants DEF TypeOK, PollTimes

LEMMA Initial == Init => IInv
<1> SUFFICES ASSUME Init PROVE IInv
  OBVIOUS
<1>1. PICK m \in 0..(Minutes - 1) :
         slots = [s \in Slots |-> IF s = 1 THEN [minute |-> m, padded |-> TRUE] ELSE Off]
  BY DEF Init
<1>2. slots \in [Slots -> PollTimes \cup {Off}]
  BY <1>1 DEF PollTimes
<1>3. TypeOK
  <2>1. 0 \in 0..Minutes /\ 0 \in 0..MaxDay /\ 1 \in 1..MaxDay /\ 0 \in 0..MaxRestarts
        /\ 0 \in 0..(Minutes - 1)
    BY Constants
  <2>2. /\ lastRunDate \in [Slots -> 0..MaxDay] /\ cycles \in [Slots -> Nat]
        /\ since \in [Slots -> 0..Minutes]
    BY <2>1 DEF Init
  <2> QED
    BY <1>2, <2>1, <2>2 DEF Init, TypeOK
<1>4. Remembered
  BY DEF Init, Remembered
<1>5. ASSUME NEW s \in Slots, slots[s] # Off PROVE ~(slots[s].minute < minute)
  BY <1>3, <1>5, SlotType DEF Init
<1>6. RanWhenReached
  BY <1>5 DEF Init, RanWhenReached
<1> QED
  BY <1>3, <1>4, <1>6 DEF IInv

LEMMA TickKeeps == IInv /\ tick => IInv'
<1> SUFFICES ASSUME IInv, tick PROVE IInv'
  OBVIOUS
<1>1. TypeOK /\ Remembered /\ RanWhenReached
  BY DEF IInv
<1> DEFINE reached == {s \in Slots : slots[s] = Clock}
<1>2. /\ lastRunDate' = [s \in Slots |-> IF s \in reached THEN Today ELSE lastRunDate[s]]
      /\ cycles' = [s \in Slots |->
                      IF s \in reached /\ ~Triggered(s) THEN cycles[s] + 1 ELSE cycles[s]]
      /\ ticked' = TRUE
      /\ UNCHANGED <<slots, day, minute, restarts, since>>
  BY DEF tick
<1>3. TypeOK'
  BY <1>1, <1>2, Constants DEF TypeOK, Today
<1>4. ASSUME NEW s \in Slots
      PROVE  /\ s \in reached => lastRunDate'[s] = day /\ cycles'[s] > 0
                                   /\ cycles'[s] <= 1 + restarts
             /\ s \notin reached => lastRunDate'[s] = lastRunDate[s] /\ cycles'[s] = cycles[s]
  <2>1. CASE s \notin reached
    BY <1>2, <2>1
  <2>2. CASE s \in reached /\ Triggered(s)
    BY <1>1, <1>2, <2>2 DEF Triggered, Today, Remembered
  <2>3. CASE s \in reached /\ ~Triggered(s)
    BY <1>1, <1>2, <2>3, SlotType DEF Triggered, Today, Remembered
  <2> QED
    BY <2>1, <2>2, <2>3
<1>5. Remembered'
  BY <1>1, <1>2, <1>4, SlotType DEF Remembered
<1>6. RanWhenReached'
  <2> SUFFICES ASSUME NEW s \in Slots, slots[s] # Off, slots[s].padded,
                      since[s] <= slots[s].minute, slots[s].minute <= minute
               PROVE  cycles'[s] > 0
    <3>1. ASSUME NEW s \in Slots, slots[s] # Off
          PROVE  slots[s].minute < minute \/ slots[s].minute = minute
                   => slots[s].minute <= minute
      BY <1>1, <3>1, SlotType
    <3>2. UNCHANGED <<slots, minute, since>> /\ ticked'
      BY <1>2
    <3> QED
      BY <3>1, <3>2 DEF RanWhenReached
  <2>1. CASE slots[s].minute < minute
    BY <1>1, <1>4, <2>1 DEF RanWhenReached
  <2>2. CASE slots[s].minute = minute
    <3>1. slots[s] = Clock
      BY <1>1, <2>2, SlotType DEF Clock, PollTimes
    <3> QED
      BY <1>4, <3>1
  <2> QED
    BY <1>1, <2>1, <2>2, SlotType
<1> QED
  BY <1>3, <1>5, <1>6 DEF IInv

LEMMA SaveKeeps == IInv /\ Save => IInv'
<1> SUFFICES ASSUME IInv, Save PROVE IInv'
  OBVIOUS
<1>1. TypeOK /\ Remembered /\ RanWhenReached
  BY DEF IInv
<1>2. PICK t1 \in PollTimes \cup {Off}, t2 \in PollTimes \cup {Off} : handleSettingsSave(t1, t2)
  BY DEF Save
<1>3. /\ slots' \in [Slots -> PollTimes \cup {Off}]
      /\ since' = [s \in Slots |-> IF slots'[s] = slots[s] THEN since[s] ELSE NextTick]
      /\ UNCHANGED <<lastRunDate, day, minute, ticked, cycles, restarts>>
  BY <1>2 DEF handleSettingsSave
<1>4. NextTick \in 0..Minutes
  BY <1>1, Constants DEF NextTick, TypeOK
<1>5. TypeOK'
  BY <1>1, <1>3, <1>4 DEF TypeOK
<1>6. Remembered'
  BY <1>1, <1>3 DEF Remembered
<1>7. RanWhenReached'
  <2> SUFFICES ASSUME NEW s \in Slots, slots'[s] # Off, slots'[s].padded,
                      since'[s] <= slots'[s].minute,
                      slots'[s].minute < minute \/ (slots'[s].minute = minute /\ ticked)
               PROVE  cycles[s] > 0
    BY <1>3 DEF RanWhenReached
  <2>1. CASE slots'[s] = slots[s]
    BY <1>1, <1>3, <2>1 DEF RanWhenReached
  <2>2. CASE slots'[s] # slots[s]
    <3>1. since'[s] = NextTick
      BY <1>3, <2>2
    <3>2. slots'[s].minute \in Nat /\ minute \in Nat
      BY <1>1, <1>5, SlotType DEF TypeOK, PollTimes
    <3> QED
      BY <3>1, <3>2 DEF NextTick
  <2> QED
    BY <2>1, <2>2
<1> QED
  BY <1>5, <1>6, <1>7 DEF IInv

LEMMA RestartKeeps == IInv /\ Restart => IInv'
<1> SUFFICES ASSUME IInv, Restart PROVE IInv'
  OBVIOUS
<1>1. TypeOK /\ Remembered /\ RanWhenReached
  BY DEF IInv
<1>2. /\ restarts < MaxRestarts /\ restarts' = restarts + 1
      /\ lastRunDate' = [s \in Slots |-> 0]
      /\ since' = [s \in Slots |-> NextTick]
      /\ UNCHANGED <<slots, day, minute, ticked, cycles>>
  BY DEF Restart
<1>3. NextTick \in 0..Minutes
  BY <1>1, Constants DEF NextTick, TypeOK
<1>4. TypeOK'
  BY <1>1, <1>2, <1>3, Constants DEF TypeOK
<1>5. Remembered'
  BY <1>1, <1>2, SlotType DEF Remembered
<1>6. RanWhenReached'
  BY <1>1, <1>2, SlotType DEF RanWhenReached, NextTick
<1> QED
  BY <1>4, <1>5, <1>6 DEF IInv

LEMMA MinuteKeeps == IInv /\ NextMinute => IInv'
<1> SUFFICES ASSUME IInv, NextMinute PROVE IInv'
  OBVIOUS
<1>1. TypeOK /\ Remembered /\ RanWhenReached
  BY DEF IInv
<1>2. CASE minute < Minutes - 1
  <2>1. /\ ticked' = FALSE /\ minute' = minute + 1
        /\ since' = IF ticked THEN since ELSE [s \in Slots |-> minute + 1]
        /\ UNCHANGED <<day, cycles, restarts, slots, lastRunDate>>
    BY <1>2 DEF NextMinute
  <2>2. TypeOK'
    <3>1. since' \in [Slots -> 0..Minutes]
      BY <1>1, <1>2, <2>1, Constants DEF TypeOK
    <3>2. minute + 1 \in 0..(Minutes - 1)
      BY <1>1, <1>2, Constants DEF TypeOK
    <3> QED
      BY <1>1, <2>1, <3>1, <3>2 DEF TypeOK
  <2>3. Remembered'
    BY <1>1, <2>1 DEF Remembered
  <2>4. RanWhenReached'
    <3> SUFFICES ASSUME NEW s \in Slots, slots[s] # Off, slots[s].padded,
                        since'[s] <= slots[s].minute, slots[s].minute < minute + 1
                 PROVE  cycles[s] > 0
      BY <2>1 DEF RanWhenReached
    <3>1. /\ slots[s].minute \in Nat /\ minute \in Nat
          /\ slots[s].minute < minute \/ slots[s].minute = minute
      BY <1>1, SlotType
    <3>2. CASE ticked
      BY <1>1, <2>1, <3>1, <3>2 DEF RanWhenReached
    <3>3. CASE ~ticked
      BY <2>1, <3>1, <3>3
    <3> QED
      BY <3>2, <3>3
  <2> QED
    BY <2>2, <2>3, <2>4 DEF IInv
<1>3. CASE ~(minute < Minutes - 1)
  <2>1. /\ ticked' = FALSE /\ day < MaxDay /\ day' = day + 1 /\ minute' = 0
        /\ cycles' = [s \in Slots |-> 0] /\ restarts' = 0
        /\ since' = [s \in Slots |-> 0]
        /\ UNCHANGED <<slots, lastRunDate>>
    BY <1>3 DEF NextMinute
  <2>2. TypeOK'
    <3>1. 0 \in 0..Minutes /\ 0 \in 0..(Minutes - 1) /\ 0 \in 0..MaxRestarts
          /\ day + 1 \in 1..MaxDay
      BY <1>1, <2>1, Constants DEF TypeOK
    <3>2. cycles' \in [Slots -> Nat] /\ since' \in [Slots -> 0..Minutes]
      BY <2>1, <3>1
    <3> QED
      BY <1>1, <2>1, <3>1, <3>2 DEF TypeOK
  <2>3. Remembered'
    BY <1>1, <2>1, SlotType DEF Remembered
  <2>4. RanWhenReached'
    <3> SUFFICES ASSUME NEW s \in Slots, slots'[s] # Off, slots'[s].minute < 0
                 PROVE  FALSE
      BY <2>1 DEF RanWhenReached
    <3> QED
      BY <1>1, <2>1, SlotType
  <2> QED
    BY <2>2, <2>3, <2>4 DEF IInv
<1> QED
  BY <1>2, <1>3

LEMMA Invariant == Spec => []IInv
<1>1. IInv /\ [Next]_vars => IInv'
  <2>1. IInv /\ UNCHANGED vars => IInv'
    BY DEF IInv, vars, TypeOK, Remembered, RanWhenReached
  <2> QED
    BY <2>1, TickKeeps, SaveKeeps, RestartKeeps, MinuteKeeps DEF Next
<1> QED
  BY <1>1, Initial, PTL DEF Spec

-----------------------------------------------------------------------------
\* Every variable of Schedule keeps its type.
THEOREM TypeCorrect == Spec => []TypeOK
<1>1. IInv => TypeOK
  BY DEF IInv
<1> QED
  BY <1>1, Invariant, PTL

\* A slot starts one cycle a day, and one more for every restart at most.
THEOREM CyclesBounded == Spec => []OncePerDay
<1>1. IInv => OncePerDay
  BY SlotType DEF IInv, Remembered, OncePerDay
<1> QED
  BY <1>1, Invariant, PTL

\* A slot whose time, written as the clock writes it, was reached with a tick
\* that could see it has had a cycle when the day ends.
THEOREM CyclesHappen == Spec => DailyCycle
<1> DEFINE Ran == DayEnds => \A s \in Slots :
                     (WasReached(s) /\ slots[s].padded) => cycles[s] > 0
<1>1. IInv /\ [Next]_vars => [Ran]_vars
  <2> SUFFICES ASSUME IInv, Next, DayEnds, NEW s \in Slots, WasReached(s), slots[s].padded
               PROVE  cycles[s] > 0
    OBVIOUS
  <2>1. TypeOK /\ RanWhenReached
    BY DEF IInv
  <2>2. ~(minute < Minutes - 1)
    BY DEF Next, DayEnds, tick, Save, handleSettingsSave, Restart, NextMinute
  <2>3. slots[s].minute < minute \/ (slots[s].minute = minute /\ ticked)
    BY <2>1, <2>2, SlotType, Constants DEF WasReached
  <2> QED
    BY <2>1, <2>3 DEF WasReached, RanWhenReached
<1>2. DailyCycle <=> [][Ran]_vars
  BY DEF DailyCycle
<1> QED
  BY <1>1, <1>2, Invariant, PTL DEF Spec

=============================================================================
