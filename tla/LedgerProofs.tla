----------------------------- MODULE LedgerProofs -----------------------------
(***************************************************************************)
(* Proof that no run sends an alert that was on record when it began, and  *)
(* that Notification, as long as runs do not overlap, implements           *)
(* AlertLedger: its initial states map to initial states of the ledger,    *)
(* and each of its steps to a step of the ledger or to none.               *)
(*                                                                         *)
(* The argument: a record goes only with its device, whose id does not     *)
(* come back, so that what was on record when a run began is still there   *)
(* when the run looks it up.  Without overlap nobody else puts anything on *)
(* record before the run itself does, after its last digest; restarts and  *)
(* failing statements do no harm.                                          *)
(***************************************************************************)
EXTENDS NotificationProofs

\* An id above the sequence was never handed out (AUTOINCREMENT).
Unborn == \A id \in Ids : id > lastId => utms[id] = NoRow

\* What a run carries is about ids handed out; what was on record when it began
\* still is, or its device is gone; and what it collects was not on record then.
RunRemembers(r, live, snt, last) ==
    r.pc = "run" =>
        /\ \A u \in r.left : u.id <= last
        /\ \A a \in r.todo \cup r.marks : a.utm <= last
        /\ \A s \in r.past : s.utm <= last /\ (s.utm \in live => s \in snt)
        /\ \A l \in r.lines : l[2] \in r.marks
        /\ \A a \in r.marks : a.utm \in live => RowOf(a) \notin r.past

Remembers ==
    /\ Unborn
    /\ \A c \in Runs : RunRemembers(runs[c], Live, sent, lastId)

-----------------------------------------------------------------------------
(* The invariant.                                                          *)

LEMMA IdleRemembers == \A live, snt, last : RunRemembers(Idle, live, snt, last)
  BY DEF RunRemembers, Idle

LEMMA SettleRemembers ==
    ASSUME NEW r, NEW live, NEW snt, NEW last, RunRemembers(r, live, snt, last)
    PROVE  RunRemembers(Settle(r), live, snt, last)
  BY IdleRemembers, SettleCases

\* A step of a run that changes no table.
LEMMA RunsRemember ==
    ASSUME TypeOK, Remembers, NEW c \in Runs, NEW next,
           RunRemembers(next, Live, sent, lastId),
           runs' = [runs EXCEPT ![c] = next], UNCHANGED <<utms, lastId, sent>>
    PROVE  Remembers'
<1>1. Live' = Live
  BY DEF Live
<1>2. \A e \in Runs : RunRemembers(runs'[e], Live', sent', lastId')
  BY <1>1 DEF Remembers, TypeOK
<1> QED
  BY <1>2 DEF Remembers, Unborn

LEMMA LiveBorn ==
    ASSUME TypeOK, Unborn
    PROVE  \A id \in Live : id <= lastId
  BY Constants DEF Unborn, Live, Ids, TypeOK

LEMMA ListRemembers ==
    ASSUME TypeOK, RefIntegrity, Remembers, NEW c \in Runs, ListUTMs(c)
    PROVE  Remembers'
<1> DEFINE left == {[id |-> id, row |-> utms[id]] : id \in Live}
           r == [pc |-> "run", settings |-> runs[c].settings, now |-> now,
                 left |-> left, to |-> {}, todo |-> {}, lines |-> {}, marks |-> {},
                 past |-> sent]
<1>1. runs' = [runs EXCEPT ![c] = Settle(r)]
  BY DEF ListUTMs
<1>2. \A u \in left : u.id <= lastId
  BY LiveBorn DEF Remembers
<1>3. \A s \in sent : s.utm <= lastId
  BY LiveBorn DEF Remembers, RefIntegrity
<1> HIDE DEF left
<1>4. RunRemembers(r, Live, sent, lastId)
  BY <1>2, <1>3 DEF RunRemembers
<1> HIDE DEF r
<1> QED
  BY <1>1, <1>4, SettleRemembers, RunsRemember DEF ListUTMs, tables

LEMMA ChatsForRemembers ==
    ASSUME TypeOK, Remembers, NEW c \in Runs, ListTelegramChatsForUTM(c)
    PROVE  Remembers'
<1>1. runs[c] \in Run /\ runs[c].pc = "run"
  BY RunType DEF ListTelegramChatsForUTM, TypeOK
<1>2. PICK u \in runs[c].left, failed \in BOOLEAN :
         LET to == IF failed THEN {} ELSE Recipients(u.id) IN
         runs' = [runs EXCEPT ![c] =
                    Settle([runs[c] EXCEPT
                      !.left = @ \ {u}, !.to = to,
                      !.todo = IF to = {} THEN {} ELSE Candidates(u, runs[c].now)])]
  BY DEF ListTelegramChatsForUTM
<1> DEFINE to == IF failed THEN {} ELSE Recipients(u.id)
           todo == IF to = {} THEN {} ELSE Candidates(u, runs[c].now)
           left == runs[c].left \ {u}
           r == [runs[c] EXCEPT !.left = left, !.to = to, !.todo = todo]
<1>3. u \in [id: Ids, row: Row] /\ runs[c].now \in Nat
  BY <1>1 DEF Run
<1>4. \A a \in todo : a.utm = u.id
  BY <1>3, CandidatesType
<1>5. runs' = [runs EXCEPT ![c] = Settle(r)]
  BY <1>2
<1> HIDE DEF to, todo
<1>6. /\ r.lines = runs[c].lines /\ r.marks = runs[c].marks /\ r.past = runs[c].past
      /\ r.left = left /\ r.todo = todo
  BY <1>1 DEF Run
<1>7. RunRemembers(runs[c], Live, sent, lastId)
  BY DEF Remembers
<1>8. RunRemembers(r, Live, sent, lastId)
  BY <1>1, <1>4, <1>6, <1>7 DEF RunRemembers
<1> HIDE DEF r
<1> QED
  BY <1>5, <1>8, SettleRemembers, RunsRemember DEF ListTelegramChatsForUTM, tables

\* The lookup: what is in the past and about a device that is there is on record.
LEMMA AlreadySentRemembers ==
    ASSUME TypeOK, Remembers, NEW c \in Runs, NotificationAlreadySent(c)
    PROVE  Remembers'
<1>1. runs[c] \in Run /\ runs[c].pc = "run"
  BY RunType DEF NotificationAlreadySent, TypeOK
<1>2. PICK a \in runs[c].todo, failed \in BOOLEAN :
         LET r == [runs[c] EXCEPT !.todo = @ \ {a}] IN
         runs' = [runs EXCEPT ![c] =
                    Settle(IF failed \/ AlreadySent(a) THEN r
                           ELSE [r EXCEPT !.lines = @ \cup (r.to \X {a}),
                                          !.marks = @ \cup {a}])]
  BY DEF NotificationAlreadySent
<1> DEFINE r == [runs[c] EXCEPT !.todo = @ \ {a}]
           s == [r EXCEPT !.lines = @ \cup (r.to \X {a}), !.marks = @ \cup {a}]
<1>3. \/ runs' = [runs EXCEPT ![c] = Settle(r)]
      \/ ~AlreadySent(a) /\ runs' = [runs EXCEPT ![c] = Settle(s)]
  BY <1>2
<1>4. /\ r.left = runs[c].left /\ r.todo = runs[c].todo \ {a}
      /\ r.lines = runs[c].lines /\ r.marks = runs[c].marks /\ r.past = runs[c].past
      /\ s.left = runs[c].left /\ s.todo = runs[c].todo \ {a}
      /\ s.lines = runs[c].lines \cup (runs[c].to \X {a})
      /\ s.marks = runs[c].marks \cup {a} /\ s.past = runs[c].past
  BY <1>1 DEF Run
<1> HIDE DEF r, s
<1>5. RunRemembers(runs[c], Live, sent, lastId)
  BY DEF Remembers
<1>6. RunRemembers(r, Live, sent, lastId)
  BY <1>1, <1>4, <1>5 DEF RunRemembers
<1>7. ASSUME ~AlreadySent(a) PROVE RunRemembers(s, Live, sent, lastId)
  <2>1. a \in Alert /\ RowOf(a).utm = a.utm
    BY <1>1, RowOfType DEF Run
  <2>2. a.utm \in Live => RowOf(a) \notin runs[c].past
    BY <1>1, <1>5, <1>7, <2>1 DEF RunRemembers, AlreadySent
  <2> QED
    BY <1>1, <1>4, <1>5, <2>2 DEF RunRemembers
<1> QED
  BY <1>3, <1>6, <1>7, SettleRemembers, RunsRemember DEF NotificationAlreadySent, tables

LEMMA SendRemembers ==
    ASSUME TypeOK, Remembers, NEW c \in Runs, NEW chat \in ChatIds,
           NEW arrives \in BOOLEAN, Send(c, chat, arrives)
    PROVE  Remembers'
<1> DEFINE digest == {l \in runs[c].lines : l[1] = chat}
           r == [runs[c] EXCEPT !.lines = @ \ digest]
<1>1. runs[c] \in Run /\ runs[c].pc = "run"
  BY RunType DEF Send, Collected, TypeOK
<1>2. /\ r.left = runs[c].left /\ r.todo = runs[c].todo /\ r.past = runs[c].past
      /\ r.marks = runs[c].marks /\ r.lines = runs[c].lines \ digest
  BY <1>1 DEF Run
<1>3. runs' = [runs EXCEPT ![c] = r]
  BY DEF Send
<1> HIDE DEF digest, r
<1>4. RunRemembers(r, Live, sent, lastId)
  BY <1>1, <1>2 DEF RunRemembers, Remembers
<1> QED
  BY <1>3, <1>4, RunsRemember DEF Send, tables

LEMMA MarkRemembers ==
    ASSUME TypeOK, Remembers, NEW c \in Runs, MarkNotificationSent(c)
    PROVE  Remembers'
<1>1. runs[c] \in Run /\ runs[c].pc = "run"
  BY RunType DEF MarkNotificationSent, AllSent, Collected, TypeOK
<1>2. PICK a \in runs[c].marks, failed \in BOOLEAN :
         /\ sent' = IF failed THEN sent ELSE Marked(a)
         /\ runs' = [runs EXCEPT ![c] = Settle([runs[c] EXCEPT !.marks = @ \ {a}])]
  BY Zenon DEF MarkNotificationSent
<1> DEFINE r == [runs[c] EXCEPT !.marks = @ \ {a}]
<1>3. /\ r.left = runs[c].left /\ r.todo = runs[c].todo /\ r.past = runs[c].past
      /\ r.lines = runs[c].lines /\ r.marks = runs[c].marks \ {a}
  BY <1>1 DEF Run
<1>4. runs' = [runs EXCEPT ![c] = Settle(r)]
  BY <1>2
<1>5. sent \subseteq sent'
  BY <1>2 DEF Marked
<1>6. UNCHANGED <<utms, lastId>> /\ Live' = Live
  BY DEF MarkNotificationSent, Live
<1> HIDE DEF r
<1>7. r.lines = {}
  BY <1>3 DEF MarkNotificationSent, AllSent
<1>8. \A e \in Runs : RunRemembers(runs[e], Live, sent', lastId)
  BY <1>5 DEF RunRemembers, Remembers
<1>9. RunRemembers(Settle(r), Live, sent', lastId)
  BY <1>1, <1>3, <1>7, <1>8, SettleRemembers DEF RunRemembers
<1>10. \A e \in Runs : runs'[e] = IF e = c THEN Settle(r) ELSE runs[e]
  BY <1>4 DEF TypeOK
<1> QED
  BY <1>6, <1>8, <1>9, <1>10 DEF Remembers, Unborn

\* What the handlers and the environment do: devices that were there may go,
\* with their records, and devices with new ids may come.
LEMMA OtherRemembers ==
    ASSUME TypeOK, Remembers, Unborn', lastId' \in Int, lastId <= lastId',
           \A id \in Ids : id \in Live' /\ id \notin Live => id > lastId,
           \A s \in sent : s \in sent' \/ s.utm \notin Live',
           runs' = runs \/ runs' = [c \in Runs |-> Idle]
    PROVE  Remembers'
<1>1. lastId \in Int
  BY DEF TypeOK
<1>2. ASSUME NEW c \in Runs
      PROVE  RunRemembers(runs[c], Live', sent', lastId')
  <2> SUFFICES ASSUME runs[c].pc = "run" PROVE RunRemembers(runs[c], Live', sent', lastId')
    BY DEF RunRemembers
  <2>1. runs[c] \in Run
    BY RunType DEF TypeOK
  <2>2. RunRemembers(runs[c], Live, sent, lastId)
    BY DEF Remembers
  <2>3. /\ \A u \in runs[c].left : u.id \in Ids
        /\ \A a \in runs[c].todo \cup runs[c].marks : a.utm \in Ids
        /\ \A s \in runs[c].past : s.utm \in Ids
    BY <2>1 DEF Run, Alert, SentRow
  <2>4. \A id \in Ids : id <= lastId => id <= lastId' /\ (id \in Live' => id \in Live)
    BY <1>1, Constants DEF Ids
  <2> QED
    BY <2>2, <2>3, <2>4 DEF RunRemembers
<1>3. \A c \in Runs : RunRemembers(runs'[c], Live', sent', lastId')
  BY <1>2, IdleRemembers
<1> QED
  BY <1>3 DEF Remembers

LEMMA CreateRemembers ==
    ASSUME TypeOK, Remembers, CreateUTM
    PROVE  Remembers'
<1>1. lastId' = lastId + 1 /\ lastId' \in Ids /\ lastId \in Nat
  BY Constants DEF CreateUTM, TypeOK, Ids
<1>2. Unborn'
  BY <1>1, Constants DEF CreateUTM, Remembers, Unborn, TypeOK, Ids
<1>3. \A id \in Ids : id \in Live' /\ id \notin Live => id > lastId
  BY <1>1 DEF CreateUTM, Live, TypeOK
<1> QED
  BY <1>1, <1>2, <1>3, OtherRemembers DEF CreateUTM

LEMMA WebRemembers ==
    ASSUME TypeOK, Remembers, Web
    PROVE  Remembers'
<1>1. lastId \in Int /\ lastId <= lastId
  BY DEF TypeOK
<1>2. ASSUME NEW id \in Ids, NEW cert \in Certs, NEW expiry \in Expiries \cup {Absent},
             SetExpiry(id, cert, expiry)
      PROVE  Remembers'
  <2>1. Unborn' /\ Live' \subseteq Live
    BY <1>2 DEF SetExpiry, Remembers, Unborn, Live, TypeOK
  <2> QED
    BY <1>1, <1>2, <2>1, OtherRemembers DEF SetExpiry
<1>3. ASSUME NEW id \in Ids, handleUTMDelete(id) PROVE Remembers'
  <2>1. Unborn' /\ Live' \subseteq Live /\ id \notin Live'
    BY <1>3 DEF handleUTMDelete, Remembers, Unborn, Live, TypeOK
  <2>2. \A s \in sent : s \in sent' \/ s.utm \notin Live'
    BY <1>3, <2>1 DEF handleUTMDelete
  <2> QED
    BY <1>1, <1>3, <2>1, <2>2, OtherRemembers DEF handleUTMDelete
<1>4. ASSUME UNCHANGED <<utms, lastId, sent, runs>> PROVE Remembers'
  BY <1>1, <1>4, OtherRemembers DEF Remembers, Unborn, Live
<1> QED
  BY <1>2, <1>3, <1>4, CreateRemembers
     DEF Web, handleTelegramChatAdd, handleTelegramChatDelete, handleSettingsSave

LEMMA NextRemembers ==
    ASSUME TypeOK, RefIntegrity, Remembers, [Next]_vars
    PROVE  Remembers'
<1>1. ASSUME NEW c \in Runs, CheckAndNotify(c) PROVE Remembers'
  <2>1. RunRemembers(Listing(settings), Live, sent, lastId)
    BY DEF RunRemembers, Listing
  <2> QED
    BY <1>1, <2>1, RunsRemember DEF CheckAndNotify, tables
<1>2. CASE \E c \in Runs : CheckAndNotify(c) \/ Step(c)
  BY <1>1, <1>2, ListRemembers, ChatsForRemembers, AlreadySentRemembers, SendRemembers,
     MarkRemembers, Zenon DEF Step
<1>3. CASE Restart \/ Tick \/ UNCHANGED vars
  <2>1. lastId \in Int /\ lastId <= lastId
    BY DEF TypeOK
  <2> QED
    BY <1>3, <2>1, OtherRemembers DEF Restart, Tick, vars, tables, Remembers, Unborn, Live
<1> QED
  BY <1>2, <1>3, WebRemembers, Zenon DEF Next

LEMMA RemembersInvariant == Spec => []Remembers
<1>1. Init => Remembers
  BY IdleRemembers DEF Init, Remembers, Unborn
<1>2. TypeOK /\ RefIntegrity /\ Remembers /\ [Next]_vars => Remembers'
  BY NextRemembers
<1> QED
  BY <1>1, <1>2, TypeCorrect, ReferencesHold, PTL DEF Spec

\* No run sends an alert that was on record when it began, however many runs
\* overlap, whatever fails, and whichever devices come and go.
THEOREM RecordsEndIt == Spec => []RecordEndsIt
<1>1. Remembers => RecordEndsIt
  BY DEF Remembers, RunRemembers, RecordEndsIt
<1> QED
  BY <1>1, RemembersInvariant, PTL

-----------------------------------------------------------------------------
(* Runs that do not overlap.                                               *)

\* Until a run has sent its last digest, nothing is put on record.
Alone == \A c \in Runs :
    runs[c].pc = "run" /\ ~AllSent(runs[c]) => sent \subseteq runs[c].past

\* A step of a run that leaves the record as it is, and its own past.
LEMMA StepAlone ==
    ASSUME TypeOK, Alone, NEW c \in Runs, NEW r, sent' = sent,
           runs' = [runs EXCEPT ![c] = r],
           r.pc = "run" /\ ~AllSent(r) =>
              \/ sent \subseteq r.past
              \/ runs[c].pc = "run" /\ ~AllSent(runs[c]) /\ r.past = runs[c].past
    PROVE  Alone'
<1>1. \A e \in Runs : runs'[e] = IF e = c THEN r ELSE runs[e]
  BY DEF TypeOK
<1> QED
  BY <1>1 DEF Alone

\* A run that has more to do before it marks, whatever Settle makes of it next.
LEMMA SettledAlone ==
    ASSUME TypeOK, Alone, NEW c \in Runs, NEW r, sent' = sent,
           runs' = [runs EXCEPT ![c] = Settle(r)],
           runs[c].pc = "run", ~AllSent(runs[c]), r.past = runs[c].past
    PROVE  Alone'
<1>1. Settle(r).pc = "run" => Settle(r).past = runs[c].past
  BY SettleCases DEF Idle
<1> HIDE DEF Settle
<1> QED
  BY <1>1, StepAlone

\* The statements of a run up to its digests.
LEMMA RunAlone ==
    ASSUME TypeOK, Alone, NEW c \in Runs,
           \/ CheckAndNotify(c) \/ ListUTMs(c) \/ ListTelegramChatsForUTM(c)
           \/ NotificationAlreadySent(c)
           \/ \E chat \in ChatIds, arrives \in BOOLEAN : Send(c, chat, arrives)
    PROVE  Alone'
<1>1. CASE CheckAndNotify(c)
  <2>1. Listing(settings).pc # "run"
    BY DEF Listing
  <2> QED
    BY <1>1, <2>1, StepAlone DEF CheckAndNotify, tables
<1>2. CASE ListUTMs(c)
  <2>1. PICK r : /\ r.past = sent
                 /\ runs' = [runs EXCEPT ![c] = Settle(r)]
    BY <1>2 DEF ListUTMs
  <2>2. Settle(r).pc = "run" => Settle(r).past = sent
    BY <2>1, SettleCases DEF Idle
  <2> QED
    BY <1>2, <2>1, <2>2, StepAlone DEF ListUTMs, tables
<1>3. CASE ListTelegramChatsForUTM(c)
  <2>1. runs[c] \in Run /\ runs[c].pc = "run" /\ ~AllSent(runs[c])
    BY <1>3, RunType DEF ListTelegramChatsForUTM, AllSent, Collected, TypeOK
  <2>2. PICK u \in runs[c].left, failed \in BOOLEAN :
          LET to == IF failed THEN {} ELSE Recipients(u.id) IN
          runs' = [runs EXCEPT ![c] =
                     Settle([runs[c] EXCEPT
                       !.left = @ \ {u}, !.to = to,
                       !.todo = IF to = {} THEN {} ELSE Candidates(u, runs[c].now)])]
    BY <1>3 DEF ListTelegramChatsForUTM
  <2>3. PICK r : r.past = runs[c].past /\ runs' = [runs EXCEPT ![c] = Settle(r)]
    BY <2>1, <2>2 DEF Run
  <2> QED
    BY <1>3, <2>1, <2>3, SettledAlone DEF ListTelegramChatsForUTM, tables
<1>4. CASE NotificationAlreadySent(c)
  <2>1. runs[c] \in Run /\ runs[c].pc = "run" /\ ~AllSent(runs[c])
    BY <1>4, RunType DEF NotificationAlreadySent, AllSent, Collected, TypeOK
  <2>2. PICK a \in runs[c].todo, failed \in BOOLEAN :
         LET r == [runs[c] EXCEPT !.todo = @ \ {a}] IN
         runs' = [runs EXCEPT ![c] =
                    Settle(IF failed \/ AlreadySent(a) THEN r
                           ELSE [r EXCEPT !.lines = @ \cup (r.to \X {a}),
                                          !.marks = @ \cup {a}])]
    BY <1>4 DEF NotificationAlreadySent
  <2>3. PICK r : r.past = runs[c].past /\ runs' = [runs EXCEPT ![c] = Settle(r)]
    BY <2>1, <2>2 DEF Run
  <2> QED
    BY <1>4, <2>1, <2>3, SettledAlone DEF NotificationAlreadySent, tables
<1>5. ASSUME NEW chat \in ChatIds, NEW arrives \in BOOLEAN, Send(c, chat, arrives)
      PROVE  Alone'
  <2>1. runs[c] \in Run /\ runs[c].pc = "run" /\ ~AllSent(runs[c])
    BY <1>5, RunType DEF Send, AllSent, Collected, TypeOK
  <2>2. PICK lines : runs' = [runs EXCEPT ![c] = [runs[c] EXCEPT !.lines = lines]]
    BY <1>5 DEF Send
  <2>3. [runs[c] EXCEPT !.lines = lines].past = runs[c].past
    BY <2>1 DEF Run
  <2> QED
    BY <1>5, <2>1, <2>2, <2>3, StepAlone DEF Send, tables
<1> QED
  BY <1>1, <1>2, <1>3, <1>4, <1>5

\* The marks of a run that has sent its digests: no other run is under way.
LEMMA MarkAlone ==
    ASSUME TypeOK, NoOverlap, Alone, NEW c \in Runs, MarkNotificationSent(c)
    PROVE  Alone'
<1>1. runs[c] \in Run /\ runs[c].pc = "run"
  BY RunType DEF MarkNotificationSent, AllSent, Collected, TypeOK
<1>2. PICK a \in runs[c].marks :
         runs' = [runs EXCEPT ![c] = Settle([runs[c] EXCEPT !.marks = @ \ {a}])]
  BY DEF MarkNotificationSent
<1> DEFINE r == [runs[c] EXCEPT !.marks = @ \ {a}]
<1>3. r.pc = "run" /\ AllSent(r)
  BY <1>1 DEF MarkNotificationSent, AllSent, Collected, Run
<1>4. runs' = [runs EXCEPT ![c] = Settle(r)]
  BY <1>2
<1> HIDE DEF r
<1>5. Settle(r).pc # "run" \/ AllSent(Settle(r))
  BY <1>3, SettleCases DEF Idle
<1>6. \A e \in Runs : runs'[e] = IF e = c THEN Settle(r) ELSE runs[e]
  BY <1>4 DEF TypeOK
<1>7. \A e \in Runs : e # c => runs[e].pc # "run"
  BY <1>1 DEF NoOverlap
<1> QED
  BY <1>5, <1>6, <1>7 DEF Alone

LEMMA NextAlone ==
    ASSUME TypeOK, NoOverlap, Alone, [Next]_vars
    PROVE  Alone'
<1>1. CASE \E c \in Runs : CheckAndNotify(c) \/ Step(c)
  BY <1>1, RunAlone, MarkAlone, Zenon DEF Step
<1>2. ASSUME runs' = runs, sent' \subseteq sent PROVE Alone'
  BY <1>2 DEF Alone
<1>3. CASE Web
  BY <1>2, <1>3 DEF Web, CreateUTM, SetExpiry, handleUTMDelete, handleTelegramChatAdd,
                    handleTelegramChatDelete, handleSettingsSave
<1>4. CASE Restart
  BY <1>4 DEF Restart, Alone, Idle
<1>5. CASE Tick \/ UNCHANGED vars
  BY <1>2, <1>5 DEF Tick, vars, tables
<1> QED
  BY <1>1, <1>3, <1>4, <1>5 DEF Next

\* What a run is going to announce and record is not on record before.
LEMMA AloneUnrecorded ==
    ASSUME TypeOK, RefIntegrity, Remembers, Alone, NEW c \in Runs,
           runs[c].pc = "run", ~AllSent(runs[c]), NEW a \in runs[c].marks
    PROVE  RowOf(a) \notin sent
<1>1. a \in Alert /\ RowOf(a).utm = a.utm
  BY RunType, RowOfType DEF TypeOK, Run
<1> SUFFICES ASSUME RowOf(a) \in sent PROVE FALSE
  OBVIOUS
<1>2. a.utm \in Live
  BY <1>1 DEF RefIntegrity
<1>3. RowOf(a) \in runs[c].past
  BY DEF Alone
<1> QED
  BY <1>2, <1>3 DEF Remembers, RunRemembers

-----------------------------------------------------------------------------
(* The steps of the ledger.                                                *)

LEMMA InitLedger == Init => Ledger!Init
<1> SUFFICES ASSUME Init PROVE Ledger!Init
  OBVIOUS
<1>1. \A id \in Ids : id > lastId
  BY Constants DEF Init, Ids
<1> QED
  BY <1>1 DEF Init, PassedToSend, Ledger!Init

LEMMA SendLedger ==
    ASSUME TypeOK, RefIntegrity, Remembers, Alone, NEW c \in Runs, NEW chat \in ChatIds,
           NEW arrives \in BOOLEAN, Send(c, chat, arrives)
    PROVE  \E digest \in SUBSET {RowOf(a) : a \in Alert} : Ledger!Announce(chat, digest)
<1> DEFINE lines == {l \in runs[c].lines : l[1] = chat}
           rows == {<<chat, RowOf(l[2])>> : l \in lines}
           digest == {RowOf(l[2]) : l \in lines}
<1>1. runs[c] \in Run /\ runs[c].pc = "run" /\ ~AllSent(runs[c])
  BY RunType DEF Send, Collected, AllSent, TypeOK
<1>2. ASSUME NEW l \in lines
      PROVE  /\ l[2] \in Alert /\ l[2] \in runs[c].marks
             /\ RowOf(l[2]).utm = l[2].utm /\ l[2].utm <= lastId
             /\ RowOf(l[2]) \notin sent
  <2>1. l[2] \in Alert
    BY <1>1 DEF Run
  <2> QED
    BY <1>1, <2>1, RowOfType, AloneUnrecorded DEF Remembers, RunRemembers
<1>3. \A row \in digest : /\ row \in {RowOf(a) : a \in Alert}
                          /\ row \notin sent /\ row.utm \in Ids /\ ~(row.utm > lastId)
  <2> SUFFICES ASSUME NEW l \in lines
               PROVE  /\ RowOf(l[2]) \in {RowOf(a) : a \in Alert}
                      /\ RowOf(l[2]) \notin sent
                      /\ RowOf(l[2]).utm \in Ids /\ ~(RowOf(l[2]).utm > lastId)
    OBVIOUS
  <2> QED
    BY <1>2, Constants DEF Alert, TypeOK, Ids
<1>4. rows = {chat} \X digest
  <2>1. \A d : d \in rows <=> \E l \in lines : d = <<chat, RowOf(l[2])>>
    OBVIOUS
  <2>2. \A row : row \in digest <=> \E l \in lines : row = RowOf(l[2])
    OBVIOUS
  <2> HIDE DEF lines, rows, digest
  <2>3. \A d : d \in {chat} \X digest <=> \E row \in digest : d = <<chat, row>>
    OBVIOUS
  <2>4. \A d : d \in rows <=> d \in {chat} \X digest
    BY <2>1, <2>2, <2>3
  <2> QED
    BY <2>4
<1>5. PassedToSend' = PassedToSend \cup digest
  <2> DEFINE alerts == {d[2] : d \in rows}
  <2>0. \/ attempted' = attempted \cup alerts /\ refused' = refused
        \/ refused' = refused \cup alerts /\ attempted' = attempted
    BY DEF Send
  <2> HIDE DEF lines, rows, digest, alerts
  <2>1. PassedToSend' = PassedToSend \cup {d[2] : d \in rows}
    BY <2>0 DEF PassedToSend, alerts
  <2>2. ASSUME NEW row \in digest PROVE row \in {d[2] : d \in rows}
    <3>1. <<chat, row>> \in rows /\ <<chat, row>>[2] = row
      BY <1>4
    <3> QED
      BY <3>1
  <2>3. ASSUME NEW d \in rows PROVE d[2] \in digest
    BY <1>4
  <2> QED
    BY <2>1, <2>2, <2>3
<1>6. \/ /\ delivered' = delivered \cup ({chat} \X digest)
         /\ repeated' = repeated \cup (({chat} \X digest) \cap delivered)
      \/ UNCHANGED <<delivered, repeated>>
  BY <1>4 DEF Send
<1>7. UNCHANGED <<utms, lastId, sent>>
  BY DEF Send, tables
<1> HIDE DEF lines, rows, digest
<1>8. Ledger!Announce(chat, digest)
  BY <1>3, <1>5, <1>6, <1>7 DEF Ledger!Announce, Live
<1>9. digest \in SUBSET {RowOf(a) : a \in Alert}
  BY <1>3
<1> QED
  BY <1>8, <1>9

LEMMA MarkLedger ==
    ASSUME TypeOK, Remembers, MarkedWasAttempted', NEW c \in Runs, MarkNotificationSent(c)
    PROVE  UNCHANGED Ledger!vars \/ \E row \in {RowOf(a) : a \in Alert} : Ledger!Record(row)
<1>1. runs[c] \in Run /\ runs[c].pc = "run"
  BY RunType DEF MarkNotificationSent, AllSent, Collected, TypeOK
<1>2. PICK a \in runs[c].marks : sent' = sent \/ sent' = Marked(a)
  BY Zenon DEF MarkNotificationSent
<1>3. a \in Alert /\ RowOf(a).utm = a.utm /\ a.utm \in Ids /\ a.utm <= lastId
  BY <1>1, <1>2, RowOfType DEF Run, Alert, Remembers, RunRemembers
<1>4. UNCHANGED <<utms, lastId, PassedToSend, delivered, repeated>>
  BY DEF MarkNotificationSent, history, PassedToSend
<1>5. CASE sent' = sent
  BY <1>4, <1>5 DEF Ledger!vars, Live
<1>6. CASE sent' # sent
  <2>1. sent' = sent \cup {RowOf(a)} /\ a.utm \in Live
    BY <1>2, <1>6 DEF Marked
  <2>2. RowOf(a) \in PassedToSend
    BY <1>4, <2>1 DEF MarkedWasAttempted
  <2>3. ~(a.utm > lastId)
    BY <1>3, Constants DEF TypeOK, Ids
  <2>4. Ledger!Record(RowOf(a))
    BY <1>3, <1>4, <2>1, <2>2, <2>3 DEF Ledger!Record, Live
  <2> QED
    BY <1>3, <2>4
<1> QED
  BY <1>5, <1>6

LEMMA CreateLedger ==
    ASSUME TypeOK, CreateUTM
    PROVE  \E d \in Ids : Ledger!Register(d)
<1>1. PICK d \in Ids : d = lastId + 1 /\ lastId' = d
  BY Constants DEF CreateUTM, TypeOK, Ids
<1>2. lastId \in Nat /\ d > lastId /\ ~(d > lastId')
  BY <1>1, Constants DEF TypeOK, Ids
<1>3. [c \in Certs |-> Absent] # NoRow
  BY Constants DEF Row
<1>4. utms' = [utms EXCEPT ![d] = [c \in Certs |-> Absent]]
  BY <1>1 DEF CreateUTM
<1>5. d \in Live' /\ \A id \in Ids \ {d} : id \in Live' <=> id \in Live
  BY <1>3, <1>4 DEF Live, TypeOK
<1>6. \A id \in Ids \ {d} : id > lastId' <=> id > lastId
  BY <1>1, <1>2, Constants DEF Ids
<1>7. Ledger!Register(d)
  BY <1>2, <1>5, <1>6 DEF CreateUTM, history, PassedToSend, Ledger!Register
<1> QED
  BY <1>7

LEMMA DeleteLedger ==
    ASSUME TypeOK, Remembers, NEW id \in Ids, handleUTMDelete(id)
    PROVE  Ledger!Deregister(id)
<1>1. id \in Live /\ ~(id > lastId)
  BY DEF handleUTMDelete, Remembers, Unborn, Live
<1>2. \A x \in Ids : x \in Live' <=> x \in Live /\ x # id
  BY DEF handleUTMDelete, Live, TypeOK
<1> QED
  BY <1>1, <1>2 DEF handleUTMDelete, history, PassedToSend, Ledger!Deregister

LEMMA StepLedger ==
    ASSUME TypeOK, RefIntegrity, Remembers, Alone, MarkedWasAttempted',
           NEW c \in Runs, CheckAndNotify(c) \/ Step(c)
    PROVE  [Ledger!Next]_(Ledger!vars)
<1>1. ASSUME UNCHANGED <<utms, lastId, sent, attempted, refused, delivered, repeated>>
      PROVE  UNCHANGED Ledger!vars
  BY <1>1 DEF Ledger!vars, Live, PassedToSend
<1>2. CASE CheckAndNotify(c) \/ ListUTMs(c) \/ ListTelegramChatsForUTM(c)
             \/ NotificationAlreadySent(c)
  BY <1>1, <1>2 DEF CheckAndNotify, ListUTMs, ListTelegramChatsForUTM,
                    NotificationAlreadySent, tables, history
<1>3. CASE \E chat \in ChatIds, arrives \in BOOLEAN : Send(c, chat, arrives)
  BY <1>3, SendLedger DEF Ledger!Next
<1>4. CASE MarkNotificationSent(c)
  BY <1>4, MarkLedger DEF Ledger!Next
<1> QED
  BY <1>2, <1>3, <1>4 DEF Step

LEMMA NextLedger ==
    ASSUME TypeOK, RefIntegrity, Remembers, Alone, MarkedWasAttempted', [Next]_vars
    PROVE  [Ledger!Next]_(Ledger!vars)
<1>1. ASSUME UNCHANGED <<utms, lastId, sent, attempted, refused, delivered, repeated>>
      PROVE  UNCHANGED Ledger!vars
  BY <1>1 DEF Ledger!vars, Live, PassedToSend
<1>2. ASSUME NEW id \in Ids, NEW cert \in Certs, NEW expiry \in Expiries \cup {Absent},
             SetExpiry(id, cert, expiry)
      PROVE  UNCHANGED Ledger!vars
  <2>1. utms[id] \in Row
    BY <1>2 DEF SetExpiry, Live, TypeOK
  <2>2. [utms[id] EXCEPT ![cert] = expiry] # NoRow
    BY <2>1, Constants DEF Row
  <2>3. utms' = [utms EXCEPT ![id] = [utms[id] EXCEPT ![cert] = expiry]]
    BY <1>2 DEF SetExpiry
  <2>4. Live' = Live
    BY <1>2, <2>2, <2>3 DEF SetExpiry, Live, TypeOK
  <2> QED
    BY <1>2, <2>4 DEF SetExpiry, history, PassedToSend, Ledger!vars
<1>3. CASE Web
  <2>1. CASE CreateUTM
    BY <2>1, CreateLedger DEF Ledger!Next
  <2>2. CASE \E id \in Ids : handleUTMDelete(id)
    BY <2>2, DeleteLedger DEF Ledger!Next
  <2>3. CASE \/ \E c \in ChatIds, scope \in Scopes : handleTelegramChatAdd(c, scope)
             \/ \E c \in ChatIds : handleTelegramChatDelete(c)
             \/ \E st \in Settings : handleSettingsSave(st)
    BY <1>1, <2>3 DEF handleTelegramChatAdd, handleTelegramChatDelete,
                      handleSettingsSave, history
  <2> QED
    BY <1>2, <1>3, <2>1, <2>2, <2>3 DEF Web
<1>4. CASE Restart \/ Tick \/ UNCHANGED vars
  BY <1>1, <1>4 DEF Restart, Tick, vars, tables, history
<1> QED
  BY <1>3, <1>4, StepLedger, Zenon DEF Next

\* Notification implements AlertLedger for any number of devices, chats,
\* goroutines and restarts, and although any statement may fail, in every
\* behaviour in which no two runs are under way at a time: no alert on record is
\* ever passed to Send again, and none gets on record without having been passed
\* to it.
THEOREM LedgerKept == Spec /\ []NoOverlap => KeepsLedger
<1>1. Init => Alone
  BY DEF Init, Alone, Idle
<1>2. TypeOK /\ NoOverlap /\ Alone /\ [Next]_vars => Alone'
  BY NextAlone
<1>3. TypeOK /\ RefIntegrity /\ Remembers /\ Alone /\ MarkedWasAttempted' /\ [Next]_vars
        => [Ledger!Next]_(Ledger!vars)
  BY NextLedger
<1> QED
  BY <1>1, <1>2, <1>3, InitLedger, TypeCorrect, ReferencesHold, RemembersInvariant,
     RecordsAreEarned, PTL DEF Spec, KeepsLedger, Ledger!Spec

\* The hypothesis is met by a process that starts one run at a time.
COROLLARY LedgerKeptByOne ==
    ASSUME \A c, e \in Runs : c = e
    PROVE  Spec => KeepsLedger
<1>1. NoOverlap
  BY DEF NoOverlap
<1> QED
  BY <1>1, LedgerKept, PTL

=============================================================================
