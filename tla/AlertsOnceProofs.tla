--------------------------- MODULE AlertsOnceProofs ---------------------------
(***************************************************************************)
(* Proof that no alert about a registered device is delivered twice to a   *)
(* chat, as long as runs of CheckAndNotify do not overlap, none is cut     *)
(* short by a restart and none of their statements fails.                  *)
(*                                                                         *)
(* The argument: what a chat received is on record as sent, or is still to *)
(* be marked by the run that is under way, and no longer in its lines; and what *)
(* is in its lines was not on record when it was looked up, and still is   *)
(* not, since the run marks only after its last digest.                    *)
(***************************************************************************)
EXTENDS NotificationProofs

\* An id above the sequence was never handed out (AUTOINCREMENT).
Fresh == \A id \in Ids : id > lastId => utms[id] = NoRow

\* A run looks at a device once, so it has one expiry for each certificate,
\* and what it collects is not on record before it starts to mark.
RunOnce(r, snt, last) ==
    r.pc = "run" =>
        /\ \A u \in r.left : u.id <= last
        /\ \A a \in r.todo \cup r.marks : a.utm <= last
        /\ \A u, v \in r.left : u.id = v.id => u = v
        /\ \A u \in r.left : \A a \in r.todo \cup r.marks : a.utm # u.id
        /\ \A a, b \in r.todo \cup r.marks :
              (a.utm = b.utm /\ a.cert = b.cert) => a.expiry = b.expiry
        /\ \A l \in r.lines : l[2] \in r.marks
        /\ ~AllSent(r) => \A a \in r.marks : RowOf(a) \notin snt

\* The run has sent d = <<chat, row>> and is going to mark it.
Told(r, d) ==
    /\ Collected(r)
    /\ \E a \in r.marks : RowOf(a) = d[2] /\ <<d[1], a>> \notin r.lines

DeliveredKept ==
    \A d \in delivered :
        /\ d[2].utm <= lastId
        /\ d[2].utm \in Live => (d[2] \in sent \/ \E c \in Runs : Told(runs[c], d))

Once ==
    /\ Fresh
    /\ \A c \in Runs : RunOnce(runs[c], sent, lastId)
    /\ DeliveredKept
    /\ OnlyOnce

OnceInv == restarts = 0 => Once

-----------------------------------------------------------------------------
LEMMA CandidateExpiry ==
    ASSUME NEW u \in [id: Ids, row: Row], NEW t \in Nat, NEW a \in Candidates(u, t)
    PROVE  a.expiry = u.row[a.cert]
<1>1. PICK cert \in Certs :
         a \in IF u.row[cert] = Absent THEN {}
               ELSE Reached(u.id, cert, u.row[cert], t)
  BY DEF Candidates
<1>2. a \in Reached(u.id, cert, u.row[cert], t)
  BY <1>1
<1>3. PICK days \in Thresholds :
         a = [utm |-> u.id, cert |-> cert, expiry |-> u.row[cert], threshold |-> days]
  BY <1>2 DEF Reached
<1> QED
  BY <1>3

\* Two alerts with the same row of a run that looks at a device once.
LEMMA RowOfInjective ==
    ASSUME NEW a \in Alert, NEW b \in Alert, RowOf(a) = RowOf(b),
           (a.utm = b.utm /\ a.cert = b.cert) => a.expiry = b.expiry
    PROVE  a = b
<1>1. a.utm = b.utm /\ a.cert = b.cert /\ a.threshold = b.threshold
  BY DEF RowOf
<1> QED
  BY <1>1 DEF Alert

LEMMA IdleOnce == \A snt, last : RunOnce(Idle, snt, last)
  BY DEF RunOnce, Idle

LEMMA SettleOnce ==
    ASSUME NEW r, NEW snt, NEW last, RunOnce(r, snt, last)
    PROVE  RunOnce(Settle(r), snt, last)
  BY IdleOnce, SettleCases

\* A run that still has something to mark is not over.
LEMMA SettleTold ==
    ASSUME NEW r, NEW d, Told(r, d)
    PROVE  Told(Settle(r), d)
<1>1. Settle(r) = r
  BY DEF Told, Settle
<1> QED
  BY <1>1

\* A step of one run that changes no table and delivers nothing.
LEMMA RunsOnce ==
    ASSUME TypeOK, Once, NEW c \in Runs, NEW next,
           RunOnce(next, sent, lastId),
           \A d : Told(runs[c], d) => Told(next, d),
           runs' = [runs EXCEPT ![c] = next],
           UNCHANGED <<utms, lastId, sent, delivered, repeated>>
    PROVE  Once'
<1>1. runs'[c] = next /\ \A e \in Runs \ {c} : runs'[e] = runs[e]
  BY DEF TypeOK
<1>2. \A e \in Runs : RunOnce(runs'[e], sent', lastId')
  BY <1>1 DEF Once
<1>3. \A d : (\E e \in Runs : Told(runs[e], d)) => (\E e \in Runs : Told(runs'[e], d))
  BY <1>1, Zenon
<1>4. DeliveredKept'
  BY <1>3 DEF Once, DeliveredKept, Live
<1> QED
  BY <1>2, <1>4 DEF Once, Fresh, OnlyOnce, Live

LEMMA InitOnce == Init => OnceInv
<1> SUFFICES ASSUME Init PROVE Once
  BY DEF OnceInv
<1>1. \A c \in Runs : RunOnce(runs[c], sent, lastId)
  BY IdleOnce DEF Init
<1> QED
  BY <1>1 DEF Init, Once, Fresh, DeliveredKept, OnlyOnce

LEMMA StartOnce ==
    ASSUME TypeOK, Once, NEW c \in Runs, CheckAndNotify(c)
    PROVE  Once'
<1>1. RunOnce(Listing(settings), sent, lastId)
  BY DEF RunOnce, Listing
<1>2. \A d : ~Told(runs[c], d)
  BY DEF CheckAndNotify, Told, Collected, Idle
<1> QED
  BY <1>1, <1>2, RunsOnce DEF CheckAndNotify, tables, history

LEMMA ListOnce ==
    ASSUME TypeOK, Once, NEW c \in Runs, ListUTMs(c)
    PROVE  Once'
<1> DEFINE left == {[id |-> id, row |-> utms[id]] : id \in Live}
           r == [pc |-> "run", settings |-> runs[c].settings, now |-> now,
                 left |-> left, to |-> {}, todo |-> {}, lines |-> {}, marks |-> {},
                 past |-> sent]
<1>1. runs' = [runs EXCEPT ![c] = Settle(r)]
  BY DEF ListUTMs
<1>2. \A u \in left : u.id \in Live /\ u = [id |-> u.id, row |-> utms[u.id]]
  OBVIOUS
<1>3. \A id \in Live : id <= lastId
  BY Constants DEF Once, Fresh, Live, Ids, TypeOK
<1>4. \A u \in left : u.id <= lastId
  BY <1>2, <1>3
<1>5. \A u, v \in left : u.id = v.id => u = v
  BY <1>2, Zenon
<1> HIDE DEF left
<1>6. RunOnce(r, sent, lastId)
  BY <1>4, <1>5 DEF RunOnce
<1>7. \A d : ~Told(runs[c], d)
  BY DEF ListUTMs, Told, Collected
<1> HIDE DEF r
<1> QED
  BY <1>1, <1>6, <1>7, SettleOnce, RunsOnce DEF ListUTMs, tables, history

LEMMA ChatsForOnce ==
    ASSUME TypeOK, Once, NEW c \in Runs, ListTelegramChatsForUTM(c)
    PROVE  Once'
<1>1. runs[c] \in Run /\ runs[c].pc = "run" /\ runs[c].todo = {}
  BY RunType DEF ListTelegramChatsForUTM, TypeOK
<1>2. PICK u \in runs[c].left, failed \in BOOLEAN :
         LET to == IF failed THEN {} ELSE Recipients(u.id) IN
         runs' = [runs EXCEPT ![c] =
                    Settle([runs[c] EXCEPT
                      !.left = @ \ {u}, !.to = to,
                      !.todo = IF to = {} THEN {} ELSE Candidates(u, runs[c].now)])]
  BY DEF ListTelegramChatsForUTM
<1> DEFINE to == IF failed THEN {} ELSE Recipients(u.id)
           todo == IF to = {} THEN {} ELSE Candidates(u, runs[c].now)
           left == runs[c].left \ {u}
           r == [runs[c] EXCEPT !.left = left, !.to = to, !.todo = todo]
<1>3. u \in [id: Ids, row: Row] /\ runs[c].now \in Nat
  BY <1>1 DEF Run
<1>4. \A a \in todo : a.utm = u.id /\ a.expiry = u.row[a.cert]
  BY <1>3, CandidatesType, CandidateExpiry
<1>5. runs' = [runs EXCEPT ![c] = Settle(r)]
  BY <1>2
<1>6. left \subseteq runs[c].left /\ u \notin left
  OBVIOUS
<1> HIDE DEF to, todo, left
<1>7. /\ r.pc = "run" /\ r.left = left /\ r.todo = todo
      /\ r.lines = runs[c].lines /\ r.marks = runs[c].marks
  BY <1>1 DEF Run
<1> HIDE DEF r
<1>8. RunOnce(runs[c], sent, lastId)
  BY DEF Once
<1>9. ~Collected(runs[c])
  BY <1>2 DEF Collected
<1>10. RunOnce(r, sent, lastId)
  <2>1. (\A v \in left : v.id <= lastId) /\ \A v, w \in left : v.id = w.id => v = w
    BY <1>1, <1>6, <1>8 DEF RunOnce
  <2>2. \A a \in todo \cup runs[c].marks : a.utm <= lastId
    BY <1>1, <1>2, <1>4, <1>8 DEF RunOnce
  <2>3. \A v \in left : \A a \in todo \cup runs[c].marks : a.utm # v.id
    BY <1>1, <1>2, <1>4, <1>6, <1>8 DEF RunOnce
  <2>4. \A a \in runs[c].marks : a.utm # u.id
    BY <1>1, <1>2, <1>8 DEF RunOnce
  <2>5. \A a, b \in runs[c].marks : (a.utm = b.utm /\ a.cert = b.cert) => a.expiry = b.expiry
    BY <1>1, <1>8 DEF RunOnce
  <2>6. \A a, b \in todo \cup runs[c].marks :
           (a.utm = b.utm /\ a.cert = b.cert) => a.expiry = b.expiry
    BY <1>4, <2>4, <2>5
  <2>7. \A l \in runs[c].lines : l[2] \in runs[c].marks
    BY <1>1, <1>8 DEF RunOnce
  <2>8. \A a \in runs[c].marks : RowOf(a) \notin sent
    BY <1>1, <1>8, <1>9 DEF RunOnce, AllSent
  <2> QED
    BY <1>7, <2>1, <2>2, <2>3, <2>6, <2>7, <2>8 DEF RunOnce
<1>11. \A d : ~Told(runs[c], d)
  BY <1>9 DEF Told
<1> QED
  BY <1>5, <1>10, <1>11, SettleOnce, RunsOnce DEF ListTelegramChatsForUTM, tables, history

LEMMA AlreadySentOnce ==
    ASSUME TypeOK, Once, NEW c \in Runs, NotificationAlreadySent(c)
    PROVE  Once'
<1>1. runs[c] \in Run /\ runs[c].pc = "run"
  BY RunType DEF NotificationAlreadySent, TypeOK
<1>2. PICK a \in runs[c].todo, failed \in BOOLEAN :
         LET r == [runs[c] EXCEPT !.todo = @ \ {a}] IN
         runs' = [runs EXCEPT ![c] =
                    Settle(IF failed \/ AlreadySent(a) THEN r
                           ELSE [r EXCEPT !.lines = @ \cup (r.to \X {a}),
                                          !.marks = @ \cup {a}])]
  BY DEF NotificationAlreadySent
<1> DEFINE r == [runs[c] EXCEPT !.todo = @ \ {a}]
           s == [r EXCEPT !.lines = @ \cup (r.to \X {a}), !.marks = @ \cup {a}]
<1>3. \/ runs' = [runs EXCEPT ![c] = Settle(r)]
      \/ RowOf(a) \notin sent /\ runs' = [runs EXCEPT ![c] = Settle(s)]
  BY <1>2 DEF AlreadySent
<1>4. /\ r.pc = "run" /\ r.left = runs[c].left /\ r.todo = runs[c].todo \ {a}
      /\ r.lines = runs[c].lines /\ r.marks = runs[c].marks
      /\ s.pc = "run" /\ s.left = runs[c].left /\ s.todo = runs[c].todo \ {a}
      /\ s.lines = runs[c].lines \cup (runs[c].to \X {a})
      /\ s.marks = runs[c].marks \cup {a}
  BY <1>1 DEF Run
<1> HIDE DEF r, s
<1>5. RunOnce(runs[c], sent, lastId)
  BY DEF Once
<1>6. ~Collected(runs[c])
  BY <1>2 DEF Collected
<1>7. \A b \in runs[c].marks : RowOf(b) \notin sent
  BY <1>1, <1>5, <1>6 DEF RunOnce, AllSent
<1>8. \A d : ~Told(runs[c], d)
  BY <1>6 DEF Told
<1>9. RunOnce(r, sent, lastId)
  BY <1>1, <1>4, <1>5, <1>7 DEF RunOnce
<1>10. ASSUME RowOf(a) \notin sent PROVE RunOnce(s, sent, lastId)
  <2>1. s.todo \cup s.marks \subseteq runs[c].todo \cup runs[c].marks
    BY <1>2, <1>4
  <2>2. \A l \in s.lines : l[2] \in s.marks
    BY <1>1, <1>4, <1>5 DEF RunOnce
  <2>3. \A b \in s.marks : RowOf(b) \notin sent
    BY <1>4, <1>7, <1>10
  <2> QED
    BY <1>1, <1>4, <1>5, <2>1, <2>2, <2>3 DEF RunOnce
<1>11. UNCHANGED <<utms, lastId, sent, delivered, repeated>>
  BY DEF NotificationAlreadySent, tables, history
<1>12. CASE runs' = [runs EXCEPT ![c] = Settle(r)]
  BY <1>8, <1>9, <1>11, <1>12, SettleOnce, RunsOnce
<1>13. CASE RowOf(a) \notin sent /\ runs' = [runs EXCEPT ![c] = Settle(s)]
  BY <1>8, <1>10, <1>11, <1>13, SettleOnce, RunsOnce
<1> QED
  BY <1>3, <1>12, <1>13

\* A digest: none of its alerts was delivered to the chat before, as runs do
\* not overlap.
LEMMA SendOnce ==
    ASSUME TypeOK, Once, NEW c \in Runs, NEW chat \in ChatIds, NEW arrives \in BOOLEAN,
           Send(c, chat, arrives), NoOverlap
    PROVE  Once'
<1> DEFINE digest == {l \in runs[c].lines : l[1] = chat}
           rows == {<<chat, RowOf(l[2])>> : l \in digest}
           r == [runs[c] EXCEPT !.lines = @ \ digest]
<1>1. runs[c] \in Run /\ runs[c].pc = "run" /\ Collected(runs[c])
  BY RunType DEF Send, Collected, TypeOK
<1>2. RunOnce(runs[c], sent, lastId)
  BY DEF Once
<1>3. digest # {} /\ runs' = [runs EXCEPT ![c] = r]
  BY DEF Send
<1>4. UNCHANGED <<utms, lastId, sent>>
  BY DEF Send, tables
<1>5. \/ delivered' = delivered \cup rows /\ repeated' = repeated \cup (rows \cap delivered)
      \/ delivered' = delivered /\ repeated' = repeated
  BY DEF Send
<1>6. ASSUME NEW d \in rows
      PROVE  \E a \in runs[c].marks : /\ d = <<chat, RowOf(a)>> /\ <<chat, a>> \in digest
                                      /\ a \in Alert
  <2>1. PICK l \in digest : d = <<chat, RowOf(l[2])>>
    OBVIOUS
  <2>2. l \in ChatIds \X Alert /\ l[1] = chat /\ l \in runs[c].lines
    BY <1>1 DEF Run
  <2>3. l = <<chat, l[2]>> /\ l[2] \in Alert
    BY <2>2
  <2>4. l[2] \in runs[c].marks
    BY <1>1, <1>2, <2>2 DEF RunOnce
  <2> QED
    BY <2>1, <2>3, <2>4
<1>7. \A a \in runs[c].marks : a \in Alert /\ RowOf(a) \notin sent /\ a.utm <= lastId
  <2>1. ~AllSent(runs[c])
    BY <1>3 DEF AllSent
  <2> QED
    BY <1>1, <1>2, <2>1 DEF RunOnce, Run
<1>8. /\ r.pc = "run" /\ r.left = runs[c].left /\ r.todo = runs[c].todo
      /\ r.lines = runs[c].lines \ digest /\ r.marks = runs[c].marks
  BY <1>1 DEF Run
<1> HIDE DEF digest, rows, r
<1>9. Collected(r)
  BY <1>1, <1>8 DEF Collected
<1>10. \A e \in Runs : RunOnce(runs'[e], sent', lastId')
  <2>1. RunOnce(r, sent, lastId)
    BY <1>1, <1>2, <1>7, <1>8 DEF RunOnce
  <2> QED
    BY <1>3, <1>4, <2>1 DEF TypeOK, Once
<1>11. runs'[c] = r
  BY <1>3 DEF TypeOK
<1>12. \A d : Told(runs[c], d) => Told(r, d)
  BY <1>8, <1>9 DEF Told
<1>13. ASSUME NEW d \in rows PROVE Told(r, d) /\ d[2].utm <= lastId
  <2>1. PICK a \in runs[c].marks :
           d = <<chat, RowOf(a)>> /\ <<chat, a>> \in digest /\ a \in Alert
    BY <1>6
  <2>2. d[1] = chat /\ d[2] = RowOf(a)
    BY <2>1
  <2>3. d[2].utm <= lastId
    BY <1>7, <2>1, <2>2, RowOfType
  <2> QED
    BY <1>8, <1>9, <2>1, <2>2, <2>3 DEF Told
<1>14. ASSUME NEW d \in rows, d \in delivered PROVE d[2].utm \notin Live
  <2> SUFFICES ASSUME d[2].utm \in Live PROVE FALSE
    OBVIOUS
  <2>1. PICK a \in runs[c].marks :
           d = <<chat, RowOf(a)>> /\ <<chat, a>> \in digest /\ a \in Alert
    BY <1>6
  <2>2. d[1] = chat /\ d[2] = RowOf(a)
    BY <2>1
  <2>3. d[2] \notin sent
    BY <1>7, <2>2
  <2>4. \E e \in Runs : Told(runs[e], d)
    BY <1>14, <2>3 DEF Once, DeliveredKept
  <2>5. \A e \in Runs : Told(runs[e], d) => e = c
    BY <1>1 DEF NoOverlap, Told, Collected
  <2>6. PICK b \in runs[c].marks : RowOf(b) = RowOf(a) /\ <<chat, b>> \notin runs[c].lines
    BY <2>2, <2>4, <2>5 DEF Told
  <2>7. (a.utm = b.utm /\ a.cert = b.cert) => a.expiry = b.expiry
    BY <1>1, <1>2 DEF RunOnce
  <2>8. b \in Alert
    BY <1>7
  <2>9. a = b
    BY <2>1, <2>6, <2>7, <2>8, RowOfInjective
  <2>10. <<chat, a>> \in runs[c].lines
    BY <2>1 DEF digest
  <2> QED
    BY <2>6, <2>9, <2>10
<1>15. DeliveredKept'
  <2> SUFFICES ASSUME NEW d \in delivered'
               PROVE  /\ d[2].utm <= lastId
                      /\ d[2].utm \in Live =>
                            (d[2] \in sent \/ \E e \in Runs : Told(runs'[e], d))
    BY <1>4 DEF DeliveredKept, Live
  <2>1. CASE d \in rows
    BY <1>11, <1>13, <2>1
  <2>2. CASE d \in delivered
    <3>1. \A e \in Runs : Told(runs[e], d) => Told(runs'[e], d)
      BY <1>3, <1>11, <1>12 DEF TypeOK
    <3> QED
      BY <2>2, <3>1 DEF Once, DeliveredKept
  <2> QED
    BY <1>5, <2>1, <2>2
<1>16. OnlyOnce'
  BY <1>4, <1>5, <1>14 DEF Once, OnlyOnce, Live
<1> QED
  BY <1>4, <1>10, <1>15, <1>16 DEF Once, Fresh

\* A mark that does not fail: the alert is on record, or its device is gone.
LEMMA MarkOnce ==
    ASSUME TypeOK, Once, NEW c \in Runs, MarkNotificationSent(c),
           NoOverlap, ~StoreErrors
    PROVE  Once'
<1>1. runs[c] \in Run /\ runs[c].pc = "run" /\ AllSent(runs[c])
  BY RunType DEF MarkNotificationSent, AllSent, Collected, TypeOK
<1>2. PICK a \in runs[c].marks, failed \in BOOLEAN :
         /\ failed => StoreErrors
         /\ sent' = IF failed THEN sent ELSE Marked(a)
         /\ runs' = [runs EXCEPT ![c] = Settle([runs[c] EXCEPT !.marks = @ \ {a}])]
  BY Zenon DEF MarkNotificationSent
<1> DEFINE r == [runs[c] EXCEPT !.marks = @ \ {a}]
<1>3. sent' = Marked(a) /\ runs' = [runs EXCEPT ![c] = Settle(r)]
  BY <1>2
<1>4. /\ r.pc = "run" /\ r.left = runs[c].left /\ r.todo = runs[c].todo
      /\ r.lines = runs[c].lines /\ r.marks = runs[c].marks \ {a}
  BY <1>1 DEF Run
<1> HIDE DEF r
<1>5. UNCHANGED <<utms, lastId, delivered, repeated>>
  BY DEF MarkNotificationSent, history
<1>6. RunOnce(r, sent', lastId)
  <2>1. AllSent(r)
    BY <1>1, <1>4 DEF AllSent, Collected
  <2>2. RunOnce(runs[c], sent, lastId)
    BY DEF Once
  <2>3. \A l \in r.lines : l[2] \in r.marks
    BY <1>1, <1>4 DEF AllSent
  <2> QED
    BY <1>1, <1>4, <2>1, <2>2, <2>3 DEF RunOnce
<1>7. runs'[c] = Settle(r)
  BY <1>3 DEF TypeOK
<1>8. \A e \in Runs : RunOnce(runs'[e], sent', lastId')
  <2>1. \A e \in Runs \ {c} : runs'[e] = runs[e] /\ runs[e].pc # "run"
    BY <1>1, <1>3 DEF TypeOK, NoOverlap
  <2>2. \A e \in Runs \ {c} : RunOnce(runs'[e], sent', lastId')
    BY <2>1 DEF RunOnce
  <2> QED
    BY <1>5, <1>6, <1>7, <2>2, SettleOnce
<1>9. a \in Alert
  BY <1>1 DEF Run
<1>10. ASSUME NEW d, Told(runs[c], d), d[2].utm \in Live
       PROVE  d[2] \in sent' \/ Told(Settle(r), d)
  <2>1. PICK b \in runs[c].marks : RowOf(b) = d[2] /\ <<d[1], b>> \notin runs[c].lines
    BY <1>10 DEF Told
  <2>2. CASE b = a
    <3>1. a.utm \in Live /\ d[2] = RowOf(a)
      BY <1>9, <1>10, <2>1, <2>2, RowOfType
    <3> QED
      BY <1>3, <3>1 DEF Marked
  <2>3. CASE b # a
    <3>1. Told(r, d)
      BY <1>1, <1>4, <2>1, <2>3 DEF Told, AllSent, Collected
    <3> QED
      BY <3>1, SettleTold
  <2> QED
    BY <2>2, <2>3
<1>11. sent \subseteq sent'
  BY <1>3 DEF Marked
<1>12. \A e \in Runs : e # c => runs'[e] = runs[e]
  BY <1>3 DEF TypeOK
<1>13. ASSUME NEW d \in delivered, d[2].utm \in Live
       PROVE  d[2] \in sent' \/ \E e \in Runs : Told(runs'[e], d)
  <2>1. CASE d[2] \in sent
    BY <1>11, <2>1
  <2>2. CASE \E e \in Runs : Told(runs[e], d)
    BY <1>7, <1>10, <1>12, <1>13, <2>2, Zenon
  <2> QED
    BY <1>13, <2>1, <2>2 DEF Once, DeliveredKept
<1>14. DeliveredKept'
  BY <1>5, <1>13 DEF Once, DeliveredKept, Live
<1> QED
  BY <1>5, <1>8, <1>14 DEF Once, Fresh, OnlyOnce, Live

\* A step of a handler, or the clock: devices and records only go together.
LEMMA OtherOnce ==
    ASSUME TypeOK, Once, UNCHANGED <<runs, delivered, repeated>>,
           lastId' \in Nat, lastId <= lastId', Fresh', sent' \subseteq sent,
           \A id \in Live' : id \in Live \/ id > lastId,
           \A s \in sent : s.utm \in Live' => s \in sent'
    PROVE  Once'
<1>1. lastId \in Nat
  BY Constants DEF TypeOK
<1>2. ASSUME NEW c \in Runs PROVE RunOnce(runs'[c], sent', lastId')
  <2>1. RunOnce(runs[c], sent, lastId)
    BY DEF Once
  <2>2. runs[c].pc = "run" => runs[c] \in Run
    BY RunType DEF TypeOK
  <2>3. runs[c].pc = "run" =>
           /\ \A u \in runs[c].left : u.id \in Nat
           /\ \A a \in runs[c].todo \cup runs[c].marks : a.utm \in Nat
    BY <2>2, Constants DEF Run, Alert, Ids
  <2> QED
    BY <1>1, <2>1, <2>3 DEF RunOnce
<1>3. \A d \in delivered : d[2].utm \in Nat /\ d[2].utm <= lastId
  BY Constants DEF Once, DeliveredKept, TypeOK, SentRow, Ids
<1>4. \A d \in delivered : d[2].utm \in Live' => d[2].utm \in Live
  BY <1>1, <1>3
<1>5. DeliveredKept'
  <2> SUFFICES ASSUME NEW d \in delivered
               PROVE  /\ d[2].utm <= lastId'
                      /\ d[2].utm \in Live' =>
                            (d[2] \in sent' \/ \E c \in Runs : Told(runs[c], d))
    BY DEF DeliveredKept
  <2>1. d[2].utm <= lastId'
    BY <1>1, <1>3
  <2>2. ASSUME d[2].utm \in Live'
        PROVE  d[2] \in sent' \/ \E c \in Runs : Told(runs[c], d)
    BY <1>4, <2>2 DEF Once, DeliveredKept
  <2> QED
    BY <2>1, <2>2
<1>6. OnlyOnce'
  BY <1>4 DEF Once, OnlyOnce, TypeOK
<1> QED
  BY <1>2, <1>5, <1>6 DEF Once

LEMMA TablesOnce ==
    ASSUME TypeOK, Once, UNCHANGED <<utms, lastId, sent, runs, delivered, repeated>>
    PROVE  Once'
  BY DEF Once, Fresh, DeliveredKept, OnlyOnce, Live

LEMMA CreateOnce ==
    ASSUME TypeOK, Once, CreateUTM
    PROVE  Once'
<1>1. lastId \in Nat /\ lastId' = lastId + 1 /\ lastId' \in Ids
  BY Constants DEF CreateUTM, TypeOK, Ids
<1>2. Fresh'
  BY <1>1, Constants DEF CreateUTM, Once, Fresh, TypeOK, Ids
<1>3. \A id \in Live' : id \in Live \/ id > lastId
  BY <1>1 DEF CreateUTM, Live, TypeOK
<1> QED
  BY <1>1, <1>2, <1>3, OtherOnce DEF CreateUTM, history

LEMMA SetExpiryOnce ==
    ASSUME TypeOK, Once, NEW id \in Ids, NEW cert \in Certs,
           NEW expiry \in Expiries \cup {Absent}, SetExpiry(id, cert, expiry)
    PROVE  Once'
<1>1. lastId \in Nat
  BY Constants DEF TypeOK
<1>2. \A x \in Ids \ {id} : utms'[x] = utms[x]
  BY DEF SetExpiry, TypeOK
<1>3. id \in Live
  BY DEF SetExpiry
<1>4. Fresh'
  BY <1>2, <1>3 DEF SetExpiry, Once, Fresh, Live
<1>5. Live' \subseteq Live
  BY <1>2, <1>3 DEF Live
<1> QED
  BY <1>1, <1>4, <1>5, OtherOnce DEF SetExpiry, history

LEMMA DeleteOnce ==
    ASSUME TypeOK, Once, NEW id \in Ids, handleUTMDelete(id)
    PROVE  Once'
<1>1. lastId \in Nat
  BY Constants DEF TypeOK
<1>2. Fresh'
  BY DEF handleUTMDelete, Once, Fresh, TypeOK
<1>3. Live' = Live \ {id}
  BY DEF handleUTMDelete, Live, TypeOK
<1>4. sent' \subseteq sent /\ \A s \in sent : s.utm \in Live' => s \in sent'
  BY <1>3 DEF handleUTMDelete
<1> QED
  BY <1>1, <1>2, <1>3, <1>4, OtherOnce DEF handleUTMDelete, history

LEMMA NextOnce ==
    ASSUME ~StoreErrors
    PROVE  TypeOK /\ NoOverlap /\ OnceInv /\ [Next]_vars => OnceInv'
<1> SUFFICES ASSUME TypeOK, NoOverlap, OnceInv, [Next]_vars PROVE OnceInv'
  OBVIOUS
<1>1. CASE Restart
  BY <1>1 DEF Restart, OnceInv, TypeOK
<1>2. ASSUME ~Restart, restarts' = 0 PROVE restarts = 0
  BY <1>2 DEF Next, CheckAndNotify, Step, ListUTMs, ListTelegramChatsForUTM,
              NotificationAlreadySent, Send, MarkNotificationSent, Web, CreateUTM,
              SetExpiry, handleUTMDelete, handleTelegramChatAdd,
              handleTelegramChatDelete, handleSettingsSave, Tick, vars
<1>3. ASSUME Once, NEW c \in Runs, CheckAndNotify(c) \/ Step(c)
      PROVE  Once'
  BY <1>3, StartOnce, ListOnce, ChatsForOnce, AlreadySentOnce, SendOnce, MarkOnce
     DEF Step
<1>4. ASSUME Once, NEW c \in ChatIds,
             handleTelegramChatDelete(c) \/ \E scope \in Scopes : handleTelegramChatAdd(c, scope)
      PROVE  Once'
  BY <1>4, TablesOnce DEF handleTelegramChatAdd, handleTelegramChatDelete, history
<1>5. ASSUME Once, \/ \E st \in Settings : handleSettingsSave(st)
                   \/ Tick
                   \/ UNCHANGED vars
      PROVE  Once'
  BY <1>5, TablesOnce DEF handleSettingsSave, Tick, vars, tables, history
<1>6. ASSUME Once, Web PROVE Once'
  BY <1>4, <1>5, <1>6, CreateOnce, SetExpiryOnce, DeleteOnce, Zenon DEF Web
<1>7. CASE ~Restart
  <2> SUFFICES ASSUME restarts' = 0 PROVE Once'
    BY DEF OnceInv
  <2>1. Once
    BY <1>2, <1>7 DEF OnceInv
  <2> QED
    BY <1>3, <1>5, <1>6, <1>7, <2>1, Zenon DEF Next
<1> QED
  BY <1>1, <1>7

\* In every behaviour in which no two runs are under way at a time, no statement
\* fails and none of the runs was cut short by a restart, no alert about a
\* registered device is delivered twice to a chat, whatever devices, recipients,
\* expiries and settings become during a run.
THEOREM AlertsOnce ==
    ASSUME ~StoreErrors
    PROVE  Spec /\ []NoOverlap => []OnceUnlessCutShort
<1>1. OnceInv => OnceUnlessCutShort
  BY DEF OnceInv, Once, OnceUnlessCutShort
<1>2. TypeOK /\ NoOverlap /\ OnceInv /\ [Next]_vars => OnceInv'
  BY NextOnce
<1> QED
  BY <1>1, <1>2, TypeCorrect, InitOnce, PTL DEF Spec

=============================================================================
