-------------------------- MODULE NotificationProofs --------------------------
(***************************************************************************)
(* Proofs about Notification, for any number of devices, chats, runs,      *)
(* alerts and restarts.                                                    *)
(***************************************************************************)
EXTENDS Notification, TLAPS

\* What the proofs use of the assumptions on the constants.
LEMMA Constants ==
    /\ MaxId \in Nat
    /\ DAY \in Nat \ {0}
    /\ Expiries \subseteq Nat
    /\ Thresholds \subseteq Nat
    /\ NoRow \notin Row
    /\ NoRow \notin Scopes
    /\ Absent \notin Ids
  BY NotificationAssumption DEF Ids

-----------------------------------------------------------------------------
(* What the operators of the model return.                                 *)

LEMMA RowOfType ==
    ASSUME NEW a \in Alert
    PROVE  /\ RowOf(a) \in SentRow
           /\ RowOf(a).utm = a.utm
<1>1. a.expiry \in Nat
  BY Constants DEF Alert
<1>2. a.expiry \div DAY \in Nat
  BY <1>1, Constants
<1> QED
  BY <1>2 DEF Alert, RowOf, SentRow

LEMMA CandidatesType ==
    ASSUME NEW u \in [id: Ids, row: Row], NEW t \in Nat
    PROVE  /\ Candidates(u, t) \in SUBSET Alert
           /\ \A a \in Candidates(u, t) : a.utm = u.id
<1> SUFFICES ASSUME NEW a \in Candidates(u, t)
             PROVE  a \in Alert /\ a.utm = u.id
  OBVIOUS
<1>1. PICK cert \in Certs :
         a \in IF u.row[cert] = Absent THEN {}
               ELSE Reached(u.id, cert, u.row[cert], t)
  BY DEF Candidates
<1>2. u.row[cert] # Absent /\ a \in Reached(u.id, cert, u.row[cert], t)
  BY <1>1
<1>3. PICK days \in Thresholds :
         a = [utm |-> u.id, cert |-> cert, expiry |-> u.row[cert], threshold |-> days]
  BY <1>2 DEF Reached
<1>4. u.id \in Ids /\ u.row[cert] \in Expiries
  BY <1>2 DEF Row
<1> QED
  BY <1>3, <1>4 DEF Alert

LEMMA SettleCases ==
    ASSUME NEW r
    PROVE  \/ Settle(r) = r
           \/ Settle(r) = Idle
  BY DEF Settle

LEMMA SettleType ==
    ASSUME NEW r \in Run
    PROVE  Settle(r) \in Goroutine
  BY DEF Settle, Idle, Goroutine

LEMMA RunType ==
    ASSUME NEW r \in Goroutine, r.pc = "run"
    PROVE  r \in Run
  BY DEF Goroutine

-----------------------------------------------------------------------------
(* Type correctness.                                                       *)

LEMMA InitTypeOK == Init => TypeOK
<1> SUFFICES ASSUME Init PROVE TypeOK
  OBVIOUS
<1>1. 0 \in 0..MaxId
  BY Constants
<1>2. Idle \in Goroutine
  BY DEF Idle, Goroutine
<1>3. settings \in Settings
  BY DEF Init, Settings
<1> QED
  BY <1>1, <1>2, <1>3 DEF Init, TypeOK

\* A step that gives one goroutine a new state and changes nothing else.
LEMMA RunsType ==
    ASSUME TypeOK, NEW c \in Runs, NEW next \in Goroutine,
           runs' = [runs EXCEPT ![c] = next],
           UNCHANGED <<tables, now, restarts, history>>
    PROVE  TypeOK'
  BY DEF TypeOK, tables, history

LEMMA TablesType ==
    ASSUME TypeOK,
           UNCHANGED <<sent, settings, now, runs, restarts,
                       delivered, repeated, attempted, refused>>,
           utms' \in [Ids -> Row \cup {NoRow}], lastId' \in 0..MaxId,
           chats' \in [ChatIds -> Scopes \cup {NoRow}],
           hadScope' \in [ChatIds -> SUBSET Scopes]
    PROVE  TypeOK'
  BY DEF TypeOK

LEMMA CreateType ==
    ASSUME TypeOK, CreateUTM
    PROVE  TypeOK'
<1>1. [c \in Certs |-> Absent] \in Row
  BY DEF Row
<1>2. lastId' \in 0..MaxId /\ lastId' \in Ids
  BY Constants DEF CreateUTM, TypeOK, Ids
<1>3. utms' \in [Ids -> Row \cup {NoRow}]
  BY <1>1, <1>2 DEF CreateUTM, TypeOK
<1> QED
  BY <1>2, <1>3, TablesType DEF CreateUTM, TypeOK, history

LEMMA SetExpiryType ==
    ASSUME TypeOK, NEW id \in Ids, NEW cert \in Certs,
           NEW expiry \in Expiries \cup {Absent}, SetExpiry(id, cert, expiry)
    PROVE  TypeOK'
<1>1. utms[id] \in Row
  BY DEF SetExpiry, Live, TypeOK
<1>2. [utms[id] EXCEPT ![cert] = expiry] \in Row
  BY <1>1 DEF Row
<1>3. utms' = [utms EXCEPT ![id] = [utms[id] EXCEPT ![cert] = expiry]]
  BY DEF SetExpiry
<1>4. utms' \in [Ids -> Row \cup {NoRow}]
  BY <1>2, <1>3 DEF TypeOK
<1> QED
  BY <1>4, TablesType DEF SetExpiry, TypeOK, history

LEMMA DeleteType ==
    ASSUME TypeOK, NEW id \in Ids, handleUTMDelete(id)
    PROVE  TypeOK'
  BY DEF handleUTMDelete, TypeOK, history

LEMMA ChatAddType ==
    ASSUME TypeOK, NEW c \in ChatIds, NEW scope \in Scopes,
           handleTelegramChatAdd(c, scope)
    PROVE  TypeOK'
<1>1. chats' \in [ChatIds -> Scopes \cup {NoRow}]
  BY DEF handleTelegramChatAdd, TypeOK
<1>2. hadScope' \in [ChatIds -> SUBSET Scopes]
  BY DEF handleTelegramChatAdd, TypeOK
<1> QED
  BY <1>1, <1>2, TablesType DEF handleTelegramChatAdd, TypeOK

LEMMA ChatDeleteType ==
    ASSUME TypeOK, NEW c \in ChatIds, handleTelegramChatDelete(c)
    PROVE  TypeOK'
<1>1. chats' \in [ChatIds -> Scopes \cup {NoRow}]
  BY DEF handleTelegramChatDelete, TypeOK
<1> QED
  BY <1>1, TablesType DEF handleTelegramChatDelete, TypeOK, history

LEMMA StartType ==
    ASSUME TypeOK, NEW c \in Runs, CheckAndNotify(c)
    PROVE  TypeOK'
<1>1. Listing(settings) \in Goroutine
  BY DEF TypeOK, Listing, Goroutine
<1> QED
  BY <1>1, RunsType DEF CheckAndNotify

LEMMA ListType ==
    ASSUME TypeOK, NEW c \in Runs, ListUTMs(c)
    PROVE  TypeOK'
<1> DEFINE left == {[id |-> id, row |-> utms[id]] : id \in Live}
           r == [pc |-> "run", settings |-> runs[c].settings, now |-> now,
                 left |-> left, to |-> {}, todo |-> {}, lines |-> {}, marks |-> {},
                 past |-> sent]
<1>1. runs[c].settings \in Settings
  BY DEF ListUTMs, TypeOK, Goroutine, Idle, Run
<1>2. left \in SUBSET [id: Ids, row: Row]
  BY DEF Live, TypeOK
<1> HIDE DEF left
<1>3. r \in Run
  BY <1>1, <1>2 DEF Run, TypeOK
<1> USE DEF left
<1>4. runs' = [runs EXCEPT ![c] = Settle(r)]
  BY DEF ListUTMs
<1> HIDE DEF r
<1> QED
  BY <1>3, <1>4, SettleType, RunsType DEF ListUTMs

LEMMA ChatsForType ==
    ASSUME TypeOK, NEW c \in Runs, ListTelegramChatsForUTM(c)
    PROVE  TypeOK'
<1>1. runs[c] \in Run
  BY RunType DEF ListTelegramChatsForUTM, TypeOK
<1>2. PICK u \in runs[c].left, failed \in BOOLEAN :
         LET to == IF failed THEN {} ELSE Recipients(u.id) IN
         runs' = [runs EXCEPT ![c] =
                    Settle([runs[c] EXCEPT
                      !.left = @ \ {u}, !.to = to,
                      !.todo = IF to = {} THEN {} ELSE Candidates(u, runs[c].now)])]
  BY DEF ListTelegramChatsForUTM
<1> DEFINE to == IF failed THEN {} ELSE Recipients(u.id)
           todo == IF to = {} THEN {} ELSE Candidates(u, runs[c].now)
           left == runs[c].left \ {u}
<1>3. u \in [id: Ids, row: Row] /\ runs[c].now \in Nat
  BY <1>1 DEF Run
<1>4. todo \in SUBSET Alert
  BY <1>3, CandidatesType
<1>5. to \in SUBSET ChatIds
  BY DEF Recipients
<1>6. left \in SUBSET [id: Ids, row: Row]
  BY <1>1 DEF Run
<1>7. runs' = [runs EXCEPT ![c] =
                 Settle([runs[c] EXCEPT !.left = left, !.to = to, !.todo = todo])]
  BY <1>2
<1> HIDE DEF to, todo, left
<1>8. [runs[c] EXCEPT !.left = left, !.to = to, !.todo = todo] \in Run
  BY <1>1, <1>4, <1>5, <1>6 DEF Run
<1> QED
  BY <1>7, <1>8, SettleType, RunsType DEF ListTelegramChatsForUTM

LEMMA AlreadySentType ==
    ASSUME TypeOK, NEW c \in Runs, NotificationAlreadySent(c)
    PROVE  TypeOK'
<1>1. runs[c] \in Run
  BY RunType DEF NotificationAlreadySent, TypeOK
<1>2. PICK a \in runs[c].todo, failed \in BOOLEAN :
         LET r == [runs[c] EXCEPT !.todo = @ \ {a}] IN
         runs' = [runs EXCEPT ![c] =
                    Settle(IF failed \/ AlreadySent(a) THEN r
                           ELSE [r EXCEPT !.lines = @ \cup (r.to \X {a}),
                                          !.marks = @ \cup {a}])]
  BY DEF NotificationAlreadySent
<1> DEFINE r == [runs[c] EXCEPT !.todo = @ \ {a}]
           s == [r EXCEPT !.lines = @ \cup (r.to \X {a}), !.marks = @ \cup {a}]
<1>3. r \in Run
  BY <1>1 DEF Run
<1>4. a \in Alert
  BY <1>1 DEF Run
<1>5. runs' = [runs EXCEPT ![c] = Settle(r)] \/ runs' = [runs EXCEPT ![c] = Settle(s)]
  BY <1>2
<1> HIDE DEF r
<1>6. s \in Run
  BY <1>3, <1>4 DEF Run
<1> HIDE DEF s
<1> QED
  BY <1>3, <1>5, <1>6, SettleType, RunsType DEF NotificationAlreadySent

LEMMA SendType ==
    ASSUME TypeOK, NEW c \in Runs, NEW chat \in ChatIds, NEW arrives \in BOOLEAN,
           Send(c, chat, arrives)
    PROVE  TypeOK'
<1> DEFINE digest == {l \in runs[c].lines : l[1] = chat}
           rows == {<<chat, RowOf(l[2])>> : l \in digest}
<1>1. runs[c] \in Run
  BY RunType DEF Send, Collected, TypeOK
<1>2. digest \subseteq ChatIds \X Alert
  BY <1>1 DEF Run
<1>3. rows \subseteq ChatIds \X SentRow
  BY <1>2, RowOfType
<1>4. [runs[c] EXCEPT !.lines = @ \ digest] \in Run
  BY <1>1 DEF Run
<1>5. runs' = [runs EXCEPT ![c] = [runs[c] EXCEPT !.lines = @ \ digest]]
  BY DEF Send
<1>6. runs' \in [Runs -> Goroutine]
  BY <1>4, <1>5 DEF TypeOK, Goroutine
<1>7. \/ attempted' = attempted \cup {l[2] : l \in rows} /\ refused' = refused
      \/ refused' = refused \cup {l[2] : l \in rows} /\ attempted' = attempted
  BY DEF Send
<1>8. \/ delivered' = delivered \cup rows /\ repeated' = repeated \cup (rows \cap delivered)
      \/ delivered' = delivered /\ repeated' = repeated
  BY DEF Send
<1>9. UNCHANGED <<tables, now, restarts, hadScope>>
  BY DEF Send
<1> HIDE DEF digest, rows
<1>10. attempted' \subseteq SentRow /\ refused' \subseteq SentRow
  BY <1>3, <1>7 DEF TypeOK
<1>11. delivered' \subseteq ChatIds \X SentRow /\ repeated' \subseteq delivered'
  BY <1>3, <1>8 DEF TypeOK
<1> QED
  BY <1>6, <1>9, <1>10, <1>11 DEF TypeOK, tables

LEMMA MarkType ==
    ASSUME TypeOK, NEW c \in Runs, MarkNotificationSent(c)
    PROVE  TypeOK'
<1>1. runs[c] \in Run
  BY RunType DEF MarkNotificationSent, AllSent, Collected, TypeOK
<1>2. PICK a \in runs[c].marks, failed \in BOOLEAN :
         /\ sent' = IF failed THEN sent ELSE Marked(a)
         /\ runs' = [runs EXCEPT ![c] = Settle([runs[c] EXCEPT !.marks = @ \ {a}])]
  BY Zenon DEF MarkNotificationSent
<1>3. [runs[c] EXCEPT !.marks = @ \ {a}] \in Run
  BY <1>1 DEF Run
<1> DEFINE next == Settle([runs[c] EXCEPT !.marks = runs[c].marks \ {a}])
<1>4. next \in Goroutine
  BY <1>3, SettleType
<1>5. runs' = [runs EXCEPT ![c] = next]
  BY <1>2
<1> HIDE DEF next
<1>6. runs' \in [Runs -> Goroutine]
  BY <1>4, <1>5 DEF TypeOK
<1>7. a \in Alert
  BY <1>1 DEF Run
<1>8. sent' \subseteq SentRow
  BY <1>2, <1>7, RowOfType DEF Marked, TypeOK
<1> QED
  BY <1>6, <1>8 DEF MarkNotificationSent, TypeOK, history

LEMMA OtherType ==
    ASSUME TypeOK, Restart \/ Tick \/ (\E st \in Settings : handleSettingsSave(st))
                     \/ UNCHANGED vars
    PROVE  TypeOK'
<1>1. CASE Restart
  BY <1>1 DEF Restart, TypeOK, Idle, Goroutine, tables, history
<1>2. CASE Tick
  BY <1>2 DEF Tick, TypeOK, tables, history
<1>3. CASE \E st \in Settings : handleSettingsSave(st)
  BY <1>3 DEF handleSettingsSave, TypeOK, history
<1>4. CASE UNCHANGED vars
  BY <1>4 DEF vars, TypeOK, tables, history
<1> QED
  BY <1>1, <1>2, <1>3, <1>4

LEMMA NextTypeOK == TypeOK /\ [Next]_vars => TypeOK'
<1> SUFFICES ASSUME TypeOK, [Next]_vars PROVE TypeOK'
  OBVIOUS
<1>1. CASE \E c \in Runs : CheckAndNotify(c) \/ Step(c)
  BY <1>1, StartType, ListType, ChatsForType, AlreadySentType, SendType, MarkType, Zenon
     DEF Step
<1>2. CASE Web
  BY <1>2, CreateType, SetExpiryType, DeleteType, ChatAddType, ChatDeleteType, OtherType,
     Zenon DEF Web
<1>3. CASE Restart \/ Tick \/ UNCHANGED vars
  BY <1>3, OtherType, Zenon
<1> QED
  BY <1>1, <1>2, <1>3, Zenon DEF Next

\* Every variable of the alerts keeps its type.
THEOREM TypeCorrect == Spec => []TypeOK
  BY InitTypeOK, NextTypeOK, PTL DEF Spec

-----------------------------------------------------------------------------
(* Chats and alerts on record name a device that is registered.            *)

LEMMA InitRefIntegrity == Init => RefIntegrity
  BY DEF Init, RefIntegrity

LEMMA MarkRefIntegrity ==
    ASSUME TypeOK, RefIntegrity, NEW c \in Runs, MarkNotificationSent(c)
    PROVE  RefIntegrity'
<1>1. runs[c] \in Run
  BY RunType DEF MarkNotificationSent, AllSent, Collected, TypeOK
<1>2. PICK a \in runs[c].marks : sent' = sent \/ sent' = Marked(a)
  BY Zenon DEF MarkNotificationSent
<1>3. a \in Alert /\ RowOf(a).utm = a.utm
  BY <1>1, RowOfType DEF Run
<1>4. \A s \in sent' : s.utm \in Live
  BY <1>2, <1>3 DEF Marked, RefIntegrity
<1> QED
  BY <1>4 DEF MarkNotificationSent, RefIntegrity, Live

LEMMA CreateRefIntegrity ==
    ASSUME TypeOK, RefIntegrity, CreateUTM
    PROVE  RefIntegrity'
<1>1. [c \in Certs |-> Absent] \in Row
  BY DEF Row
<1>2. Live \subseteq Live'
  BY <1>1, Constants DEF CreateUTM, Live, TypeOK
<1> QED
  BY <1>2 DEF CreateUTM, RefIntegrity

LEMMA SetExpiryRefIntegrity ==
    ASSUME TypeOK, RefIntegrity, NEW id \in Ids, NEW cert \in Certs,
           NEW expiry \in Expiries \cup {Absent}, SetExpiry(id, cert, expiry)
    PROVE  RefIntegrity'
<1>1. utms[id] \in Row
  BY DEF SetExpiry, Live, TypeOK
<1>2. [utms[id] EXCEPT ![cert] = expiry] # NoRow
  BY <1>1, Constants DEF Row
<1>3. utms' = [utms EXCEPT ![id] = [utms[id] EXCEPT ![cert] = expiry]]
  BY DEF SetExpiry
<1>4. Live \subseteq Live'
  BY <1>2, <1>3 DEF Live, TypeOK
<1> QED
  BY <1>4 DEF SetExpiry, RefIntegrity

LEMMA DeleteRefIntegrity ==
    ASSUME TypeOK, RefIntegrity, NEW id \in Ids, handleUTMDelete(id)
    PROVE  RefIntegrity'
<1>1. Live' = Live \ {id}
  BY DEF handleUTMDelete, Live, TypeOK
<1>2. \A s \in sent' : s.utm \in Live'
  BY <1>1 DEF handleUTMDelete, RefIntegrity
<1>3. \A c \in ChatIds : chats'[c] \in Live' \cup {Absent, NoRow}
  BY <1>1 DEF handleUTMDelete, RefIntegrity, TypeOK
<1> QED
  BY <1>2, <1>3 DEF RefIntegrity

LEMMA NextRefIntegrity == TypeOK /\ RefIntegrity /\ [Next]_vars => RefIntegrity'
<1> SUFFICES ASSUME TypeOK, RefIntegrity, [Next]_vars PROVE RefIntegrity'
  OBVIOUS
<1>1. CASE UNCHANGED <<utms, chats, sent>>
  BY <1>1 DEF RefIntegrity, Live
<1>2. ASSUME NEW c \in Runs, CheckAndNotify(c) \/ Step(c)
      PROVE  RefIntegrity'
  <2>1. CASE MarkNotificationSent(c)
    BY <2>1, MarkRefIntegrity
  <2>2. CASE ~MarkNotificationSent(c)
    <3>1. UNCHANGED tables
      BY <1>2, <2>2 DEF CheckAndNotify, Step, ListUTMs, ListTelegramChatsForUTM,
                        NotificationAlreadySent, Send
    <3> QED
      BY <1>1, <3>1 DEF tables
  <2> QED
    BY <2>1, <2>2
<1>3. ASSUME NEW c \in ChatIds, NEW scope \in Scopes, handleTelegramChatAdd(c, scope)
      PROVE  RefIntegrity'
  BY <1>3 DEF handleTelegramChatAdd, RefIntegrity, Live, TypeOK
<1>4. ASSUME NEW c \in ChatIds, handleTelegramChatDelete(c)
      PROVE  RefIntegrity'
  BY <1>4 DEF handleTelegramChatDelete, RefIntegrity, Live, TypeOK
<1>5. CASE Web
  BY <1>1, <1>3, <1>4, <1>5, CreateRefIntegrity, SetExpiryRefIntegrity, DeleteRefIntegrity
     DEF Web, handleSettingsSave
<1>6. CASE Restart \/ Tick \/ UNCHANGED vars
  BY <1>1, <1>6 DEF Restart, Tick, vars, tables
<1> QED
  BY <1>2, <1>5, <1>6, Zenon DEF Next

\* However runs and handlers interleave, no recipient is scoped to, and no
\* alert on record is about, a device that is not registered.
THEOREM ReferencesHold == Spec => []RefIntegrity
  BY TypeCorrect, InitRefIntegrity, NextRefIntegrity, PTL DEF Spec

-----------------------------------------------------------------------------
(* Who is told of a device.                                                *)

\* The chat was registered for the device, or for all devices, at some time.
Knows(had, chat, id) == had[chat] \cap {Absent, id} # {}

\* What a run has collected and may still collect is for chats like that.
RunScoped(r, had) ==
    r.pc = "run" =>
        /\ \A chat \in r.to, a \in r.todo : Knows(had, chat, a.utm)
        /\ \A l \in r.lines : Knows(had, l[1], l[2].utm)

Scoped ==
    /\ \A c \in ChatIds : chats[c] # NoRow => chats[c] \in hadScope[c]
    /\ \A c \in Runs : RunScoped(runs[c], hadScope)
    /\ ScopeRespected

LEMMA IdleScoped == \A had : RunScoped(Idle, had)
  BY DEF RunScoped, Idle

LEMMA SettleScoped ==
    ASSUME NEW r, NEW had, RunScoped(r, had)
    PROVE  RunScoped(Settle(r), had)
  BY IdleScoped, SettleCases

\* A step that gives one goroutine a new state and delivers nothing.
LEMMA RunsScoped ==
    ASSUME TypeOK, Scoped, NEW c \in Runs, NEW next, RunScoped(next, hadScope),
           runs' = [runs EXCEPT ![c] = next],
           UNCHANGED <<chats, delivered, hadScope>>
    PROVE  Scoped'
<1>1. \A d \in Runs : RunScoped(runs'[d], hadScope')
  BY DEF Scoped, TypeOK
<1> QED
  BY <1>1 DEF Scoped, ScopeRespected

LEMMA InitScoped == Init => Scoped
<1> SUFFICES ASSUME Init PROVE Scoped
  OBVIOUS
<1>1. \A c \in Runs : RunScoped(runs[c], hadScope)
  BY IdleScoped DEF Init
<1> QED
  BY <1>1 DEF Init, Scoped, ScopeRespected

LEMMA ListScoped ==
    ASSUME TypeOK, Scoped, NEW c \in Runs, ListUTMs(c)
    PROVE  Scoped'
<1> DEFINE left == {[id |-> id, row |-> utms[id]] : id \in Live}
           r == [pc |-> "run", settings |-> runs[c].settings, now |-> now,
                 left |-> left, to |-> {}, todo |-> {}, lines |-> {}, marks |-> {},
                 past |-> sent]
<1>1. runs' = [runs EXCEPT ![c] = Settle(r)]
  BY DEF ListUTMs
<1> HIDE DEF left
<1>2. RunScoped(r, hadScope)
  BY DEF RunScoped
<1> HIDE DEF r
<1> QED
  BY <1>1, <1>2, SettleScoped, RunsScoped DEF ListUTMs, tables, history

LEMMA ChatsForScoped ==
    ASSUME TypeOK, Scoped, NEW c \in Runs, ListTelegramChatsForUTM(c)
    PROVE  Scoped'
<1>1. runs[c] \in Run /\ runs[c].pc = "run"
  BY RunType DEF ListTelegramChatsForUTM, TypeOK
<1>2. PICK u \in runs[c].left, failed \in BOOLEAN :
         LET to == IF failed THEN {} ELSE Recipients(u.id) IN
         runs' = [runs EXCEPT ![c] =
                    Settle([runs[c] EXCEPT
                      !.left = @ \ {u}, !.to = to,
                      !.todo = IF to = {} THEN {} ELSE Candidates(u, runs[c].now)])]
  BY DEF ListTelegramChatsForUTM
<1> DEFINE to == IF failed THEN {} ELSE Recipients(u.id)
           todo == IF to = {} THEN {} ELSE Candidates(u, runs[c].now)
           left == runs[c].left \ {u}
           r == [runs[c] EXCEPT !.left = left, !.to = to, !.todo = todo]
<1>3. u \in [id: Ids, row: Row] /\ runs[c].now \in Nat
  BY <1>1 DEF Run
<1>4. \A a \in todo : a.utm = u.id
  BY <1>3, CandidatesType
<1>5. \A chat \in to : Knows(hadScope, chat, u.id)
  <2> SUFFICES ASSUME NEW chat \in Recipients(u.id)
               PROVE  Knows(hadScope, chat, u.id)
    OBVIOUS
  <2>1. chat \in ChatIds /\ chats[chat] \in {Absent, u.id}
    BY DEF Recipients
  <2>2. chats[chat] # NoRow
    BY <1>3, <2>1, Constants DEF Scopes
  <2>3. chats[chat] \in hadScope[chat]
    BY <2>1, <2>2 DEF Scoped
  <2> QED
    BY <2>1, <2>3 DEF Knows
<1>6. runs' = [runs EXCEPT ![c] = Settle(r)]
  BY <1>2
<1> HIDE DEF to, todo, left
<1>7. r.lines = runs[c].lines /\ r.to = to /\ r.todo = todo
  BY <1>1 DEF Run
<1>8. RunScoped(r, hadScope)
  BY <1>1, <1>4, <1>5, <1>7 DEF RunScoped, Scoped
<1> HIDE DEF r
<1> QED
  BY <1>6, <1>8, SettleScoped, RunsScoped DEF ListTelegramChatsForUTM, tables, history

LEMMA AlreadySentScoped ==
    ASSUME TypeOK, Scoped, NEW c \in Runs, NotificationAlreadySent(c)
    PROVE  Scoped'
<1>1. runs[c] \in Run /\ runs[c].pc = "run"
  BY RunType DEF NotificationAlreadySent, TypeOK
<1>2. PICK a \in runs[c].todo, failed \in BOOLEAN :
         LET r == [runs[c] EXCEPT !.todo = @ \ {a}] IN
         runs' = [runs EXCEPT ![c] =
                    Settle(IF failed \/ AlreadySent(a) THEN r
                           ELSE [r EXCEPT !.lines = @ \cup (r.to \X {a}),
                                          !.marks = @ \cup {a}])]
  BY DEF NotificationAlreadySent
<1> DEFINE r == [runs[c] EXCEPT !.todo = @ \ {a}]
           s == [r EXCEPT !.lines = @ \cup (r.to \X {a}), !.marks = @ \cup {a}]
<1>3. runs' = [runs EXCEPT ![c] = Settle(r)] \/ runs' = [runs EXCEPT ![c] = Settle(s)]
  BY <1>2
<1>4. /\ r.to = runs[c].to /\ r.todo = runs[c].todo \ {a} /\ r.lines = runs[c].lines
      /\ s.to = runs[c].to /\ s.todo = runs[c].todo \ {a}
      /\ s.lines = runs[c].lines \cup (runs[c].to \X {a})
  BY <1>1 DEF Run
<1> HIDE DEF r, s
<1>5. RunScoped(runs[c], hadScope)
  BY DEF Scoped
<1>6. RunScoped(r, hadScope)
  BY <1>1, <1>4, <1>5 DEF RunScoped
<1>7. RunScoped(s, hadScope)
  BY <1>1, <1>4, <1>5 DEF RunScoped
<1> QED
  BY <1>3, <1>6, <1>7, SettleScoped, RunsScoped
     DEF NotificationAlreadySent, tables, history

LEMMA SendScoped ==
    ASSUME TypeOK, Scoped, NEW c \in Runs, NEW chat \in ChatIds, NEW arrives \in BOOLEAN,
           Send(c, chat, arrives)
    PROVE  Scoped'
<1> DEFINE digest == {l \in runs[c].lines : l[1] = chat}
           rows == {<<chat, RowOf(l[2])>> : l \in digest}
           r == [runs[c] EXCEPT !.lines = @ \ digest]
<1>1. runs[c] \in Run /\ runs[c].pc = "run"
  BY RunType DEF Send, Collected, TypeOK
<1>2. RunScoped(runs[c], hadScope)
  BY DEF Scoped
<1>3. \A l \in digest : l[2] \in Alert /\ Knows(hadScope, chat, l[2].utm)
  BY <1>1, <1>2 DEF Run, RunScoped
<1>4. \A d \in rows : Knows(hadScope, d[1], d[2].utm)
  BY <1>3, RowOfType
<1>5. runs' = [runs EXCEPT ![c] = r]
  BY DEF Send
<1>6. RunScoped(r, hadScope)
  BY <1>1, <1>2 DEF RunScoped, Run
<1>7. delivered' = delivered \cup rows \/ delivered' = delivered
  BY DEF Send
<1>8. UNCHANGED <<chats, hadScope>>
  BY DEF Send, tables
<1> HIDE DEF digest, rows, r
<1>9. \A d \in Runs : RunScoped(runs'[d], hadScope')
  BY <1>5, <1>6, <1>8 DEF Scoped, TypeOK
<1>10. ScopeRespected'
  BY <1>4, <1>7, <1>8 DEF Scoped, ScopeRespected, Knows
<1> QED
  BY <1>8, <1>9, <1>10 DEF Scoped

LEMMA MarkScoped ==
    ASSUME TypeOK, Scoped, NEW c \in Runs, MarkNotificationSent(c)
    PROVE  Scoped'
<1>1. runs[c] \in Run /\ runs[c].pc = "run"
  BY RunType DEF MarkNotificationSent, AllSent, Collected, TypeOK
<1>2. PICK a \in runs[c].marks :
         runs' = [runs EXCEPT ![c] = Settle([runs[c] EXCEPT !.marks = @ \ {a}])]
  BY Zenon DEF MarkNotificationSent
<1> DEFINE r == [runs[c] EXCEPT !.marks = @ \ {a}]
<1>3. RunScoped(r, hadScope)
  BY <1>1 DEF RunScoped, Scoped, Run
<1>4. runs' = [runs EXCEPT ![c] = Settle(r)]
  BY <1>2
<1> HIDE DEF r
<1> QED
  BY <1>3, <1>4, SettleScoped, RunsScoped DEF MarkNotificationSent, history

LEMMA ChatAddScoped ==
    ASSUME TypeOK, Scoped, NEW c \in ChatIds, NEW scope \in Scopes,
           handleTelegramChatAdd(c, scope)
    PROVE  Scoped'
<1>1. \A d \in ChatIds : hadScope[d] \subseteq hadScope'[d]
  BY DEF handleTelegramChatAdd, TypeOK
<1>2. \A d \in ChatIds : chats'[d] # NoRow => chats'[d] \in hadScope'[d]
  BY DEF handleTelegramChatAdd, Scoped, TypeOK
<1>3. ASSUME NEW d \in Runs PROVE RunScoped(runs'[d], hadScope')
  <2>1. runs'[d] = runs[d] /\ RunScoped(runs[d], hadScope)
    BY DEF handleTelegramChatAdd, Scoped
  <2>2. runs[d].pc = "run" => runs[d] \in Run
    BY RunType DEF TypeOK
  <2> QED
    BY <1>1, <2>1, <2>2 DEF RunScoped, Run, Knows
<1>4. ScopeRespected'
  BY <1>1 DEF handleTelegramChatAdd, Scoped, ScopeRespected, TypeOK
<1> QED
  BY <1>2, <1>3, <1>4 DEF Scoped

LEMMA OtherScoped ==
    ASSUME TypeOK, Scoped, UNCHANGED <<delivered, hadScope>>,
           \A c \in ChatIds : chats'[c] \in {chats[c], NoRow},
           runs' = runs \/ runs' = [c \in Runs |-> Idle]
    PROVE  Scoped'
<1>1. \A c \in Runs : RunScoped(runs'[c], hadScope')
  BY IdleScoped DEF Scoped
<1> QED
  BY <1>1 DEF Scoped, ScopeRespected

LEMMA NextScoped == TypeOK /\ Scoped /\ [Next]_vars => Scoped'
<1> SUFFICES ASSUME TypeOK, Scoped, [Next]_vars PROVE Scoped'
  OBVIOUS
<1>1. ASSUME NEW c \in Runs, CheckAndNotify(c)
      PROVE  Scoped'
  <2>1. RunScoped(Listing(settings), hadScope)
    BY DEF RunScoped, Listing
  <2> QED
    BY <1>1, <2>1, RunsScoped DEF CheckAndNotify, tables, history
<1>2. CASE \E c \in Runs : CheckAndNotify(c) \/ Step(c)
  BY <1>1, <1>2, ListScoped, ChatsForScoped, AlreadySentScoped, SendScoped, MarkScoped,
     Zenon DEF Step
<1>3. CASE CreateUTM \/ (\E st \in Settings : handleSettingsSave(st))
           \/ Restart \/ Tick \/ UNCHANGED vars
  BY <1>3, OtherScoped DEF CreateUTM, handleSettingsSave, Restart, Tick, vars, tables, history
<1>4. ASSUME NEW id \in Ids, NEW cert \in Certs, NEW expiry \in Expiries \cup {Absent},
             SetExpiry(id, cert, expiry)
      PROVE  Scoped'
  BY <1>4, OtherScoped DEF SetExpiry, history
<1>5. ASSUME NEW id \in Ids, handleUTMDelete(id)
      PROVE  Scoped'
  BY <1>5, OtherScoped DEF handleUTMDelete, history
<1>6. ASSUME NEW c \in ChatIds, handleTelegramChatDelete(c)
      PROVE  Scoped'
  BY <1>6, OtherScoped DEF handleTelegramChatDelete, history, TypeOK
<1>7. CASE Web
  BY <1>3, <1>4, <1>5, <1>6, <1>7, ChatAddScoped, Zenon DEF Web
<1> QED
  BY <1>2, <1>3, <1>7, Zenon DEF Next

\* No chat is told of a device it was never registered for, whatever happens
\* to the recipients while a run is under way.
THEOREM ScopesHold == Spec => []ScopeRespected
<1>1. Scoped => ScopeRespected
  BY DEF Scoped
<1> QED
  BY <1>1, TypeCorrect, InitScoped, NextScoped, PTL DEF Spec

-----------------------------------------------------------------------------
(* What is on record as sent was passed to Send.                           *)

\* An alert a run will mark has been in a digest, or is still in one to come:
\* alerts are only collected for devices that have recipients.
RunOwes(r, att) ==
    r.pc = "run" =>
        /\ r.todo # {} => r.to # {}
        /\ \A a \in r.marks :
              RowOf(a) \in att \/ \E chat \in ChatIds : <<chat, a>> \in r.lines

Attempted ==
    /\ \A c \in Runs : RunOwes(runs[c], PassedToSend)
    /\ MarkedWasAttempted

LEMMA IdleOwes == \A att : RunOwes(Idle, att)
  BY DEF RunOwes, Idle

LEMMA SettleOwes ==
    ASSUME NEW r, NEW att, RunOwes(r, att)
    PROVE  RunOwes(Settle(r), att)
  BY IdleOwes, SettleCases

\* A step that gives one goroutine a new state and marks nothing.
LEMMA RunsOwe ==
    ASSUME TypeOK, Attempted, NEW c \in Runs, NEW next, RunOwes(next, PassedToSend),
           runs' = [runs EXCEPT ![c] = next],
           UNCHANGED <<sent, attempted, refused>>
    PROVE  Attempted'
<1>1. \A d \in Runs : RunOwes(runs'[d], PassedToSend')
  BY DEF Attempted, PassedToSend, TypeOK
<1> QED
  BY <1>1 DEF Attempted, MarkedWasAttempted, PassedToSend

LEMMA InitAttempted == Init => Attempted
<1> SUFFICES ASSUME Init PROVE Attempted
  OBVIOUS
<1>1. \A c \in Runs : RunOwes(runs[c], PassedToSend)
  BY IdleOwes DEF Init
<1> QED
  BY <1>1 DEF Init, Attempted, MarkedWasAttempted

LEMMA ListAttempted ==
    ASSUME TypeOK, Attempted, NEW c \in Runs, ListUTMs(c)
    PROVE  Attempted'
<1> DEFINE left == {[id |-> id, row |-> utms[id]] : id \in Live}
           r == [pc |-> "run", settings |-> runs[c].settings, now |-> now,
                 left |-> left, to |-> {}, todo |-> {}, lines |-> {}, marks |-> {},
                 past |-> sent]
<1>1. runs' = [runs EXCEPT ![c] = Settle(r)]
  BY DEF ListUTMs
<1> HIDE DEF left
<1>2. RunOwes(r, PassedToSend)
  BY DEF RunOwes
<1> HIDE DEF r
<1> QED
  BY <1>1, <1>2, SettleOwes, RunsOwe DEF ListUTMs, tables, history

LEMMA ChatsForAttempted ==
    ASSUME TypeOK, Attempted, NEW c \in Runs, ListTelegramChatsForUTM(c)
    PROVE  Attempted'
<1>1. runs[c] \in Run /\ runs[c].pc = "run"
  BY RunType DEF ListTelegramChatsForUTM, TypeOK
<1>2. PICK u \in runs[c].left, failed \in BOOLEAN :
         LET to == IF failed THEN {} ELSE Recipients(u.id) IN
         runs' = [runs EXCEPT ![c] =
                    Settle([runs[c] EXCEPT
                      !.left = @ \ {u}, !.to = to,
                      !.todo = IF to = {} THEN {} ELSE Candidates(u, runs[c].now)])]
  BY DEF ListTelegramChatsForUTM
<1> DEFINE to == IF failed THEN {} ELSE Recipients(u.id)
           todo == IF to = {} THEN {} ELSE Candidates(u, runs[c].now)
           left == runs[c].left \ {u}
           r == [runs[c] EXCEPT !.left = left, !.to = to, !.todo = todo]
<1>3. todo # {} => to # {}
  OBVIOUS
<1>4. runs' = [runs EXCEPT ![c] = Settle(r)]
  BY <1>2
<1> HIDE DEF to, todo, left
<1>5. /\ r.lines = runs[c].lines /\ r.marks = runs[c].marks
      /\ r.to = to /\ r.todo = todo
  BY <1>1 DEF Run
<1>6. RunOwes(r, PassedToSend)
  BY <1>1, <1>3, <1>5 DEF RunOwes, Attempted
<1> HIDE DEF r
<1> QED
  BY <1>4, <1>6, SettleOwes, RunsOwe DEF ListTelegramChatsForUTM, tables, history

LEMMA AlreadySentAttempted ==
    ASSUME TypeOK, Attempted, NEW c \in Runs, NotificationAlreadySent(c)
    PROVE  Attempted'
<1>1. runs[c] \in Run /\ runs[c].pc = "run"
  BY RunType DEF NotificationAlreadySent, TypeOK
<1>2. PICK a \in runs[c].todo, failed \in BOOLEAN :
         LET r == [runs[c] EXCEPT !.todo = @ \ {a}] IN
         runs' = [runs EXCEPT ![c] =
                    Settle(IF failed \/ AlreadySent(a) THEN r
                           ELSE [r EXCEPT !.lines = @ \cup (r.to \X {a}),
                                          !.marks = @ \cup {a}])]
  BY DEF NotificationAlreadySent
<1> DEFINE r == [runs[c] EXCEPT !.todo = @ \ {a}]
           s == [r EXCEPT !.lines = @ \cup (r.to \X {a}), !.marks = @ \cup {a}]
<1>3. runs' = [runs EXCEPT ![c] = Settle(r)] \/ runs' = [runs EXCEPT ![c] = Settle(s)]
  BY <1>2
<1>4. /\ r.to = runs[c].to /\ r.todo = runs[c].todo \ {a}
      /\ r.lines = runs[c].lines /\ r.marks = runs[c].marks
      /\ s.to = runs[c].to /\ s.todo = runs[c].todo \ {a}
      /\ s.lines = runs[c].lines \cup (runs[c].to \X {a})
      /\ s.marks = runs[c].marks \cup {a}
  BY <1>1 DEF Run
<1> HIDE DEF r, s
<1>5. RunOwes(runs[c], PassedToSend)
  BY DEF Attempted
<1>6. RunOwes(r, PassedToSend)
  BY <1>1, <1>4, <1>5 DEF RunOwes
<1>7. PICK chat \in runs[c].to : chat \in ChatIds
  BY <1>1, <1>5 DEF RunOwes, Run
<1>8. <<chat, a>> \in s.lines
  BY <1>4, <1>7
<1>9. RunOwes(s, PassedToSend)
  BY <1>1, <1>4, <1>5, <1>7, <1>8 DEF RunOwes
<1> QED
  BY <1>3, <1>6, <1>9, SettleOwes, RunsOwe DEF NotificationAlreadySent, tables, history

LEMMA SendAttempted ==
    ASSUME TypeOK, Attempted, NEW c \in Runs, NEW chat \in ChatIds,
           NEW arrives \in BOOLEAN, Send(c, chat, arrives)
    PROVE  Attempted'
<1> DEFINE digest == {l \in runs[c].lines : l[1] = chat}
           rows == {<<chat, RowOf(l[2])>> : l \in digest}
           r == [runs[c] EXCEPT !.lines = @ \ digest]
<1>1. runs[c] \in Run /\ runs[c].pc = "run"
  BY RunType DEF Send, Collected, TypeOK
<1>2. PassedToSend' = PassedToSend \cup {l[2] : l \in rows}
  <2> HIDE DEF rows, r
  <2> DEFINE alerts == {l[2] : l \in rows}
  <2>1. \/ attempted' = attempted \cup alerts /\ refused' = refused
        \/ refused' = refused \cup alerts /\ attempted' = attempted
    BY DEF Send, rows
  <2> HIDE DEF alerts
  <2>2. PassedToSend' = PassedToSend \cup alerts
    BY <2>1 DEF PassedToSend
  <2> QED
    BY <2>2 DEF alerts
<1>3. ASSUME NEW l \in digest PROVE RowOf(l[2]) \in PassedToSend'
  <2>1. <<chat, RowOf(l[2])>> \in rows
    OBVIOUS
  <2> HIDE DEF rows
  <2>2. <<chat, RowOf(l[2])>>[2] \in PassedToSend'
    BY <1>2, <2>1
  <2> QED
    BY <2>2
<1>4. PassedToSend \subseteq PassedToSend'
  BY <1>2
<1>5. r.to = runs[c].to /\ r.todo = runs[c].todo /\ r.marks = runs[c].marks
      /\ r.lines = runs[c].lines \ digest
  BY <1>1 DEF Run
<1>6. runs' = [runs EXCEPT ![c] = r]
  BY DEF Send
<1>7. \A a : \A ch \in ChatIds : <<ch, a>> \in digest => RowOf(a) \in PassedToSend'
  BY <1>3
<1>8. UNCHANGED sent
  BY DEF Send, tables
<1> HIDE DEF digest, rows, r
<1>9. RunOwes(r, PassedToSend')
  BY <1>1, <1>4, <1>5, <1>7 DEF RunOwes, Attempted
<1>10. ASSUME NEW d \in Runs PROVE RunOwes(runs[d], PassedToSend')
  BY <1>4 DEF RunOwes, Attempted
<1>11. \A d \in Runs : RunOwes(runs'[d], PassedToSend')
  BY <1>6, <1>9, <1>10 DEF TypeOK
<1> QED
  BY <1>4, <1>8, <1>11 DEF Attempted, MarkedWasAttempted

LEMMA MarkAttempted ==
    ASSUME TypeOK, Attempted, NEW c \in Runs, MarkNotificationSent(c)
    PROVE  Attempted'
<1>1. runs[c] \in Run /\ runs[c].pc = "run" /\ runs[c].lines = {}
  BY RunType DEF MarkNotificationSent, AllSent, Collected, TypeOK
<1>2. PICK a \in runs[c].marks, failed \in BOOLEAN :
         /\ sent' = IF failed THEN sent ELSE Marked(a)
         /\ runs' = [runs EXCEPT ![c] = Settle([runs[c] EXCEPT !.marks = @ \ {a}])]
  BY Zenon DEF MarkNotificationSent
<1> DEFINE r == [runs[c] EXCEPT !.marks = @ \ {a}]
<1>3. RunOwes(runs[c], PassedToSend)
  BY DEF Attempted
<1>4. RowOf(a) \in PassedToSend
  BY <1>1, <1>3 DEF RunOwes
<1>5. sent' \subseteq PassedToSend
  BY <1>2, <1>4 DEF Marked, Attempted, MarkedWasAttempted
<1>6. RunOwes(r, PassedToSend)
  BY <1>1, <1>3 DEF RunOwes, Run
<1>7. runs' = [runs EXCEPT ![c] = Settle(r)]
  BY <1>2
<1> HIDE DEF r
<1>8. RunOwes(Settle(r), PassedToSend)
  BY <1>6, SettleOwes
<1>9. PassedToSend' = PassedToSend
  BY DEF MarkNotificationSent, history, PassedToSend
<1>10. \A d \in Runs : RunOwes(runs'[d], PassedToSend')
  BY <1>7, <1>8, <1>9 DEF Attempted, TypeOK
<1> QED
  BY <1>5, <1>9, <1>10 DEF Attempted, MarkedWasAttempted

LEMMA OtherAttempted ==
    ASSUME TypeOK, Attempted, UNCHANGED <<attempted, refused>>, sent' \subseteq sent,
           runs' = runs \/ runs' = [c \in Runs |-> Idle]
    PROVE  Attempted'
<1>1. \A c \in Runs : RunOwes(runs'[c], PassedToSend')
  BY IdleOwes DEF Attempted, PassedToSend
<1> QED
  BY <1>1 DEF Attempted, MarkedWasAttempted, PassedToSend

LEMMA NextAttempted == TypeOK /\ Attempted /\ [Next]_vars => Attempted'
<1> SUFFICES ASSUME TypeOK, Attempted, [Next]_vars PROVE Attempted'
  OBVIOUS
<1>1. ASSUME NEW c \in Runs, CheckAndNotify(c)
      PROVE  Attempted'
  <2>1. RunOwes(Listing(settings), PassedToSend)
    BY DEF RunOwes, Listing
  <2> QED
    BY <1>1, <2>1, RunsOwe DEF CheckAndNotify, tables, history
<1>2. CASE \E c \in Runs : CheckAndNotify(c) \/ Step(c)
  BY <1>1, <1>2, ListAttempted, ChatsForAttempted, AlreadySentAttempted, SendAttempted,
     MarkAttempted, Zenon DEF Step
<1>3. CASE Web
  BY <1>3, OtherAttempted
     DEF Web, CreateUTM, SetExpiry, handleUTMDelete, handleTelegramChatAdd,
         handleTelegramChatDelete, handleSettingsSave, history
<1>4. CASE Restart \/ Tick \/ UNCHANGED vars
  BY <1>4, OtherAttempted DEF Restart, Tick, vars, tables, history
<1> QED
  BY <1>2, <1>3, <1>4, Zenon DEF Next

\* Whatever fails, is deleted, overlaps or is cut short by a restart: no alert is
\* put on record that was not in a digest for which a request was made, or which
\* buildRequest refused, before.
THEOREM RecordsAreEarned == Spec => []MarkedWasAttempted
<1>1. Attempted => MarkedWasAttempted
  BY DEF Attempted
<1> QED
  BY <1>1, TypeCorrect, InitAttempted, NextAttempted, PTL DEF Spec

NoneRefused == refused = {}

\* Where no operator saves a route that buildRequest refuses, the second case is
\* out: what is on record was in a digest for which a request was made.
THEOREM RecordsLeftTheProcess ==
    ASSUME \A route \in Routes : ~Refused(route)
    PROVE  Spec => [](sent \subseteq attempted)
<1>1. Init => NoneRefused
  BY DEF Init, NoneRefused
<1>2. ASSUME TypeOK, NoneRefused, NEW c \in Runs, NEW chat \in ChatIds,
             NEW arrives \in BOOLEAN, Send(c, chat, arrives)
      PROVE  NoneRefused'
  <2>1. runs[c] \in Run
    BY <1>2, RunType DEF Send, Collected, TypeOK
  <2>2. ~Refused(runs[c].settings.route)
    BY <2>1 DEF Run, Settings
  <2> QED
    BY <1>2, <2>2 DEF Send, NoneRefused
<1>3. TypeOK /\ NoneRefused /\ [Next]_vars => NoneRefused'
  <2> SUFFICES ASSUME TypeOK, NoneRefused, [Next]_vars PROVE NoneRefused'
    OBVIOUS
  <2>1. CASE \E c \in Runs : CheckAndNotify(c) \/ Step(c)
    BY <1>2, <2>1
       DEF CheckAndNotify, Step, ListUTMs, ListTelegramChatsForUTM,
           NotificationAlreadySent, MarkNotificationSent, history, NoneRefused
  <2>2. CASE Web
    BY <2>2 DEF Web, CreateUTM, SetExpiry, handleUTMDelete, handleTelegramChatAdd,
                handleTelegramChatDelete, handleSettingsSave, history, NoneRefused
  <2>3. CASE Restart \/ Tick \/ UNCHANGED vars
    BY <2>3 DEF Restart, Tick, vars, history, NoneRefused
  <2> QED
    BY <2>1, <2>2, <2>3, Zenon DEF Next
<1>4. MarkedWasAttempted /\ NoneRefused => sent \subseteq attempted
  BY DEF MarkedWasAttempted, PassedToSend, NoneRefused
<1> QED
  BY <1>1, <1>3, <1>4, TypeCorrect, RecordsAreEarned, PTL DEF Spec

-----------------------------------------------------------------------------
(* When an alert is made.                                                  *)

\* The alert is for an expiry within its threshold of t, or less than a day ago.
InWindow(a, t) ==
    /\ a.expiry < t + (a.threshold + 1) * DAY
    /\ t < a.expiry + DAY

\* What a run has yet to look up, and what it has taken up, is of its time.
RunTimely(r) ==
    r.pc = "run" => \A a \in r.todo \cup r.marks : InWindow(a, r.now)

Timely == \A c \in Runs : RunTimely(runs[c])

\* A quotient bounds what was divided.
LEMMA Quotient ==
    ASSUME NEW x \in Nat, NEW n \in Nat, NEW d \in Nat \ {0}, x \div d <= n
    PROVE  x < (n + 1) * d
<1> DEFINE q == x \div d
<1>1. q \in Int /\ x < (q + 1) * d
  <2>1. x = d * q + (x % d) /\ x % d < d /\ q \in Int
    OBVIOUS
  <2>2. (q + 1) * d = d * q + d
    BY <2>1
  <2> QED
    BY <2>1, <2>2
<1>2. (q + 1) * d <= (n + 1) * d
  BY <1>1
<1> QED
  BY <1>1, <1>2

LEMMA DaysLeftWindow ==
    ASSUME NEW e \in Nat, NEW t \in Nat, NEW n \in Nat, DaysLeft(e, t) \in 0..n
    PROVE  e < t + (n + 1) * DAY /\ t < e + DAY
<1>1. DAY \in Nat \ {0} /\ (n + 1) * DAY \in Nat /\ (n + 1) * DAY > 0
  BY Constants
<1>2. CASE e >= t
  <2>1. (e - t) \div DAY <= n /\ e - t \in Nat
    BY <1>1, <1>2 DEF DaysLeft
  <2>2. e - t < (n + 1) * DAY
    BY <1>1, <2>1, Quotient
  <2> QED
    BY <1>1, <1>2, <2>2
<1>3. CASE ~(e >= t)
  <2>1. -((t - e) \div DAY) >= 0 /\ t - e \in Nat
    BY <1>3 DEF DaysLeft
  <2>2. (t - e) \div DAY <= 0
    BY <1>1, <2>1
  <2>3. t - e < (0 + 1) * DAY
    BY <1>1, <2>1, <2>2, Quotient
  <2> QED
    BY <1>1, <1>3, <2>3
<1> QED
  BY <1>2, <1>3

LEMMA CandidatesTimely ==
    ASSUME NEW u \in [id: Ids, row: Row], NEW t \in Nat, NEW a \in Candidates(u, t)
    PROVE  InWindow(a, t)
<1>1. PICK cert \in Certs :
         a \in IF u.row[cert] = Absent THEN {}
               ELSE Reached(u.id, cert, u.row[cert], t)
  BY DEF Candidates
<1>2. u.row[cert] # Absent /\ a \in Reached(u.id, cert, u.row[cert], t)
  BY <1>1
<1>3. PICK days \in Thresholds :
         /\ DaysLeft(u.row[cert], t) \in 0..days
         /\ a = [utm |-> u.id, cert |-> cert, expiry |-> u.row[cert], threshold |-> days]
  BY <1>2 DEF Reached
<1>4. u.row[cert] \in Nat /\ days \in Nat
  BY <1>2, NotificationAssumption DEF Row
<1>5. a.expiry = u.row[cert] /\ a.threshold = days
  BY <1>3
<1> QED
  BY <1>3, <1>4, <1>5, DaysLeftWindow DEF InWindow

LEMMA IdleTimely == RunTimely(Idle)
  BY DEF RunTimely, Idle

LEMMA SettleTimely ==
    ASSUME NEW r, RunTimely(r)
    PROVE  RunTimely(Settle(r))
  BY IdleTimely, SettleCases

LEMMA RunsTimely ==
    ASSUME TypeOK, Timely, NEW c \in Runs, NEW next, RunTimely(next),
           runs' = [runs EXCEPT ![c] = next]
    PROVE  Timely'
  BY DEF Timely, TypeOK

LEMMA ListTimely ==
    ASSUME TypeOK, Timely, NEW c \in Runs, ListUTMs(c)
    PROVE  Timely'
<1> DEFINE left == {[id |-> id, row |-> utms[id]] : id \in Live}
           r == [pc |-> "run", settings |-> runs[c].settings, now |-> now,
                 left |-> left, to |-> {}, todo |-> {}, lines |-> {}, marks |-> {},
                 past |-> sent]
<1>1. runs' = [runs EXCEPT ![c] = Settle(r)]
  BY DEF ListUTMs
<1> HIDE DEF left
<1>2. RunTimely(r)
  BY DEF RunTimely
<1> HIDE DEF r
<1> QED
  BY <1>1, <1>2, SettleTimely, RunsTimely

LEMMA ChatsForTimely ==
    ASSUME TypeOK, Timely, NEW c \in Runs, ListTelegramChatsForUTM(c)
    PROVE  Timely'
<1>1. runs[c] \in Run /\ runs[c].pc = "run"
  BY RunType DEF ListTelegramChatsForUTM, TypeOK
<1>2. PICK u \in runs[c].left, failed \in BOOLEAN :
         LET to == IF failed THEN {} ELSE Recipients(u.id) IN
         runs' = [runs EXCEPT ![c] =
                    Settle([runs[c] EXCEPT
                      !.left = @ \ {u}, !.to = to,
                      !.todo = IF to = {} THEN {} ELSE Candidates(u, runs[c].now)])]
  BY Zenon DEF ListTelegramChatsForUTM
<1> DEFINE to == IF failed THEN {} ELSE Recipients(u.id)
           todo == IF to = {} THEN {} ELSE Candidates(u, runs[c].now)
           left == runs[c].left \ {u}
           r == [runs[c] EXCEPT !.left = left, !.to = to, !.todo = todo]
<1>3. u \in [id: Ids, row: Row] /\ runs[c].now \in Nat
  BY <1>1 DEF Run
<1>4. \A a \in todo : InWindow(a, runs[c].now)
  BY <1>3, CandidatesTimely
<1>5. runs' = [runs EXCEPT ![c] = Settle(r)]
  BY <1>2
<1> HIDE DEF to, todo, left
<1>6. r.pc = "run" /\ r.now = runs[c].now /\ r.marks = runs[c].marks /\ r.todo = todo
  BY <1>1 DEF Run
<1>7. RunTimely(r)
  BY <1>1, <1>4, <1>6 DEF RunTimely, Timely
<1> HIDE DEF r
<1> QED
  BY <1>5, <1>7, SettleTimely, RunsTimely

LEMMA AlreadySentTimely ==
    ASSUME TypeOK, Timely, NEW c \in Runs, NotificationAlreadySent(c)
    PROVE  Timely'
<1>1. runs[c] \in Run /\ runs[c].pc = "run"
  BY RunType DEF NotificationAlreadySent, TypeOK
<1>2. PICK a \in runs[c].todo, failed \in BOOLEAN :
         LET r == [runs[c] EXCEPT !.todo = @ \ {a}] IN
         runs' = [runs EXCEPT ![c] =
                    Settle(IF failed \/ AlreadySent(a) THEN r
                           ELSE [r EXCEPT !.lines = @ \cup (r.to \X {a}),
                                          !.marks = @ \cup {a}])]
  BY Zenon DEF NotificationAlreadySent
<1> DEFINE r == [runs[c] EXCEPT !.todo = @ \ {a}]
           s == [r EXCEPT !.lines = @ \cup (r.to \X {a}), !.marks = @ \cup {a}]
<1>3. runs' = [runs EXCEPT ![c] = Settle(r)] \/ runs' = [runs EXCEPT ![c] = Settle(s)]
  BY <1>2
<1>4. /\ r.pc = "run" /\ r.now = runs[c].now /\ r.todo = runs[c].todo \ {a}
      /\ r.marks = runs[c].marks
      /\ s.pc = "run" /\ s.now = runs[c].now /\ s.todo = runs[c].todo \ {a}
      /\ s.marks = runs[c].marks \cup {a}
  BY <1>1 DEF Run
<1> HIDE DEF r, s
<1>5. \A b \in runs[c].todo \cup runs[c].marks : InWindow(b, runs[c].now)
  BY <1>1 DEF Timely, RunTimely
<1>6. RunTimely(r) /\ RunTimely(s)
  BY <1>4, <1>5 DEF RunTimely
<1> QED
  BY <1>3, <1>6, SettleTimely, RunsTimely

LEMMA SendTimely ==
    ASSUME TypeOK, Timely, NEW c \in Runs, NEW chat \in ChatIds, NEW arrives \in BOOLEAN,
           Send(c, chat, arrives)
    PROVE  Timely'
<1> DEFINE r == [runs[c] EXCEPT !.lines = @ \ {l \in runs[c].lines : l[1] = chat}]
<1>1. runs[c] \in Run /\ runs[c].pc = "run"
  BY RunType DEF Send, Collected, TypeOK
<1>2. runs' = [runs EXCEPT ![c] = r]
  BY DEF Send
<1>3. r.pc = "run" /\ r.now = runs[c].now /\ r.todo = runs[c].todo /\ r.marks = runs[c].marks
  BY <1>1 DEF Run
<1> HIDE DEF r
<1>4. RunTimely(r)
  BY <1>1, <1>3 DEF RunTimely, Timely
<1> QED
  BY <1>2, <1>4, RunsTimely

LEMMA MarkTimely ==
    ASSUME TypeOK, Timely, NEW c \in Runs, MarkNotificationSent(c)
    PROVE  Timely'
<1>1. runs[c] \in Run /\ runs[c].pc = "run"
  BY RunType DEF MarkNotificationSent, AllSent, Collected, TypeOK
<1>2. PICK a \in runs[c].marks :
         runs' = [runs EXCEPT ![c] = Settle([runs[c] EXCEPT !.marks = @ \ {a}])]
  BY Zenon DEF MarkNotificationSent
<1> DEFINE r == [runs[c] EXCEPT !.marks = @ \ {a}]
<1>3. RunTimely(r)
  BY <1>1 DEF RunTimely, Timely, Run
<1>4. runs' = [runs EXCEPT ![c] = Settle(r)]
  BY <1>2
<1> HIDE DEF r
<1> QED
  BY <1>3, <1>4, SettleTimely, RunsTimely

LEMMA NextTimely == TypeOK /\ Timely /\ [Next]_vars => Timely'
<1> SUFFICES ASSUME TypeOK, Timely, [Next]_vars PROVE Timely'
  OBVIOUS
<1>1. ASSUME NEW c \in Runs, CheckAndNotify(c)
      PROVE  Timely'
  <2>1. RunTimely(Listing(settings))
    BY DEF RunTimely, Listing
  <2> QED
    BY <1>1, <2>1, RunsTimely DEF CheckAndNotify
<1>2. CASE \E c \in Runs : CheckAndNotify(c) \/ Step(c)
  BY <1>1, <1>2, ListTimely, ChatsForTimely, AlreadySentTimely, SendTimely, MarkTimely,
     Zenon DEF Step
<1>3. CASE Restart
  BY <1>3, IdleTimely DEF Restart, Timely
<1>4. CASE Tick \/ Web \/ UNCHANGED vars
  <2>1. runs' = runs
    BY <1>4 DEF Tick, vars, Web, CreateUTM, SetExpiry, handleUTMDelete,
       handleTelegramChatAdd, handleTelegramChatDelete, handleSettingsSave
  <2> QED
    BY <2>1 DEF Timely
<1> QED
  BY <1>2, <1>3, <1>4 DEF Next

\* No alert is taken up before the last day of its threshold, nor a day after
\* the certificate expired, whatever the length of a run and the clock.
THEOREM AlertsInWindow == Spec => []AlertWindow
<1>1. Init => Timely
  BY IdleTimely DEF Init, Timely
<1>2. Timely => AlertWindow
  BY DEF Timely, RunTimely, InWindow, AlertWindow
<1> QED
  BY <1>1, <1>2, TypeCorrect, NextTimely, PTL DEF Spec

=============================================================================
