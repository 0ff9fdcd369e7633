---------------------------- MODULE DashboardProofs ----------------------------
(***************************************************************************)
(* Proofs about Dashboard: what it does to the registry, the sessions and  *)
(* the database each is a behaviour of that module; a session is worth     *)
(* what its owner was promised; the migration always gets through.         *)
(***************************************************************************)
EXTENDS Dashboard, RegistryProofs

-----------------------------------------------------------------------------
(* The parts.                                                              *)

LEMMA RegistrySteps == [Next]_vars => [RegistryNext]_registryVars
<1> SUFFICES ASSUME [Next]_vars PROVE [RegistryNext]_registryVars
  OBVIOUS
<1>1. ASSUME NEW r \in Requests, NEW t \in Cookie, requireAuth(r, t)
      PROVE  [RegistryNext]_registryVars
  BY <1>1 DEF requireAuth, RegistryNext
<1>2. ASSUME NEW r \in Requests, Handler(r) \/ handleSettingsSave(r)
      PROVE  RegistryNext
  BY <1>2 DEF Handler, handleSettingsSave, RegistryNext, Handle
<1>3. CASE Public \/ Boot \/ Tick
  BY <1>3 DEF Public, Boot, Tick
<1>4. CASE Restart
  BY <1>4 DEF Restart, RegistryNext
<1>5. CASE UNCHANGED vars
  BY <1>5 DEF vars
<1> QED
  BY <1>1, <1>2, <1>3, <1>4, <1>5 DEF Next

\* The registry of the whole is a registry: next to logins, restarts that go
\* through the migration, and saved settings, its properties hold.
THEOREM RegistryOfDashboard == Spec => RegistrySpec
<1>1. Init => RegistryInit
  BY DEF Init
<1> QED
  BY <1>1, RegistrySteps, PTL DEF Spec, RegistrySpec

\* So in the whole, too, a list is worked through and a backup restored up to
\* INSERTs that failed, and a request is never past a device it added and did
\* not start to poll, but for a failed GetUTM and the end of the process:
\* although sessions end and processes stop at any point of a request.
COROLLARY DevicesKept ==
    Spec => [](ListRegistered /\ AddedArePolled /\ RestoresIPs)
  BY RegistryOfDashboard, ListsRegistered, AddedPolled, BackupRestores, PTL

LEMMA MigrationSteps == [Next]_vars => [MigrationNext]_migrationVars
<1> SUFFICES ASSUME [Next]_vars PROVE [MigrationNext]_migrationVars
  OBVIOUS
<1>1. ASSUME NEW r \in Requests, NEW t \in Cookie, requireAuth(r, t)
      PROVE  UNCHANGED migrationVars
  BY <1>1 DEF requireAuth
<1>2. ASSUME NEW r \in Requests, Handler(r) \/ handleSettingsSave(r)
      PROVE  [MigrationNext]_migrationVars
  BY <1>2 DEF Handler, handleSettingsSave, MigrationNext
<1>3. CASE Public \/ Tick
  BY <1>3 DEF Public, Tick
<1>4. CASE Boot \/ Restart
  BY <1>4 DEF Boot, Restart, MigrationNext
<1>5. CASE UNCHANGED vars
  BY <1>5 DEF vars
<1> QED
  BY <1>1, <1>2, <1>3, <1>4, <1>5 DEF Next

\* And so for the database.
THEOREM MigrationOfDashboard == Spec => MigrationSpec
<1>1. Init => MigrationInit
  BY DEF Init
<1> QED
  BY <1>1, MigrationSteps, PTL DEF Spec, MigrationSpec

-----------------------------------------------------------------------------
(* Sessions.                                                               *)

\* An entry of the map is a current token's or one whose time is over; a
\* current token has its entry.
Entries ==
    \A t \in Tokens :
       /\ sessions[t] # NoSession =>
             t \in 1..lastToken /\ t \notin closed /\ sessions[t] = opened[t] + TTL
       /\ (t \in 1..lastToken /\ t \notin closed /\ sessions[t] = NoSession)
             => (configured => clock > opened[t] + TTL)

AuthInv == AuthTypeOK /\ Entries

LEMMA AuthConstants ==
    /\ TTL \in Nat /\ MaxToken \in Nat /\ MaxClock \in Nat
    /\ NoSession \notin Nat
  BY AuthAssumption

LEMMA TokenType ==
    ASSUME AuthTypeOK, NEW t \in Tokens
    PROVE  /\ sessions[t] \in Nat \cup {NoSession} /\ opened[t] \in Nat
           /\ clock \in Nat /\ lastToken \in Nat /\ t \in Nat
  BY AuthConstants DEF AuthTypeOK, Tokens

LEMMA PresentKeeps == ASSUME AuthInv, NEW t, Present(t) PROVE AuthInv'
<1>1. AuthTypeOK /\ Entries
  BY DEF AuthInv
<1>2. UNCHANGED <<configured, lastToken, clock, opened, closed>>
  BY DEF Present
<1>3. \A x \in Tokens : \/ sessions'[x] = sessions[x]
                        \/ sessions'[x] = NoSession /\ sessions[x] # NoSession /\ Expired(x)
  BY <1>1 DEF Present, AuthTypeOK
<1>4. sessions' \in [Tokens -> Nat \cup {NoSession}]
  BY <1>1 DEF Present, AuthTypeOK
<1>5. AuthTypeOK'
  BY <1>1, <1>2, <1>4 DEF AuthTypeOK
<1>6. Entries'
  BY <1>1, <1>2, <1>3 DEF Entries, Expired
<1> QED
  BY <1>5, <1>6 DEF AuthInv

LEMMA LoginKeeps == ASSUME AuthInv, handleLogin PROVE AuthInv'
<1>1. AuthTypeOK /\ Entries
  BY DEF AuthInv
<1>2. /\ lastToken < MaxToken /\ lastToken' = lastToken + 1
      /\ sessions' = [sessions EXCEPT ![lastToken + 1] = clock + TTL]
      /\ opened' = [opened EXCEPT ![lastToken + 1] = clock]
      /\ UNCHANGED <<configured, clock, closed>>
  BY DEF handleLogin
<1>3. lastToken + 1 \in Tokens /\ lastToken + 1 \in 0..MaxToken /\ clock + TTL \in Nat
      /\ 1..lastToken \subseteq 1..(lastToken + 1) /\ lastToken + 1 \notin 1..lastToken
      /\ \A t \in 1..(lastToken + 1) : t = lastToken + 1 \/ t \in 1..lastToken
  BY <1>1, <1>2, AuthConstants DEF AuthTypeOK, Tokens
<1>4. AuthTypeOK'
  BY <1>1, <1>2, <1>3 DEF AuthTypeOK
<1>5. Entries'
  <2> SUFFICES ASSUME NEW t \in Tokens
               PROVE  /\ sessions'[t] # NoSession =>
                           /\ t \in 1..(lastToken + 1) /\ t \notin closed
                           /\ sessions'[t] = opened'[t] + TTL
                      /\ (/\ t \in 1..(lastToken + 1) /\ t \notin closed
                          /\ sessions'[t] = NoSession)
                           => (configured => clock > opened'[t] + TTL)
    BY <1>2 DEF Entries
  <2>1. CASE t = lastToken + 1
    <3>1. sessions'[t] = clock + TTL /\ opened'[t] = clock
      BY <1>1, <1>2, <1>3, <2>1 DEF AuthTypeOK
    <3>2. t \in 1..(lastToken + 1) /\ t \notin closed
      BY <1>1, <1>3, <2>1, TokenType DEF AuthTypeOK
    <3>3. sessions'[t] # NoSession
      BY <1>3, <3>1, AuthConstants
    <3> QED
      BY <3>1, <3>2, <3>3
  <2>2. CASE t # lastToken + 1
    <3>1. sessions'[t] = sessions[t] /\ opened'[t] = opened[t]
      BY <1>1, <1>2, <2>2 DEF AuthTypeOK
    <3> QED
      BY <1>1, <1>3, <2>2, <3>1 DEF Entries
  <2> QED
    BY <2>1, <2>2
<1> QED
  BY <1>4, <1>5 DEF AuthInv

LEMMA LogoutKeeps == ASSUME AuthInv, NEW t, handleLogout(t) PROVE AuthInv'
<1>1. AuthTypeOK /\ Entries
  BY DEF AuthInv
<1>2. /\ sessions' = [x \in Tokens |-> IF x = t THEN NoSession ELSE sessions[x]]
      /\ closed' = closed \cup ({t} \cap 1..lastToken)
      /\ UNCHANGED <<configured, lastToken, clock, opened>>
  BY DEF handleLogout
<1>3. AuthTypeOK'
  BY <1>1, <1>2 DEF AuthTypeOK
<1>4. Entries'
  BY <1>1, <1>2 DEF Entries
<1> QED
  BY <1>3, <1>4 DEF AuthInv

LEMMA AuthRestartKeeps == ASSUME AuthInv, AuthRestart PROVE AuthInv'
  BY DEF AuthInv, AuthRestart, AuthTypeOK, Entries

LEMMA AuthTickKeeps == ASSUME AuthInv, AuthTick PROVE AuthInv'
<1>1. AuthTypeOK /\ Entries
  BY DEF AuthInv
<1>2. /\ clock < MaxClock /\ clock' = clock + 1
      /\ UNCHANGED <<configured, sessions, lastToken, opened, closed>>
  BY DEF AuthTick
<1>3. AuthTypeOK'
  BY <1>1, <1>2, AuthConstants DEF AuthTypeOK
<1>4. Entries'
  BY <1>1, <1>2, TokenType, AuthConstants DEF Entries
<1> QED
  BY <1>3, <1>4 DEF AuthInv

LEMMA AuthInvInit == AuthInit => AuthInv
<1> SUFFICES ASSUME AuthInit PROVE AuthInv
  OBVIOUS
<1>1. AuthTypeOK
  BY AuthConstants DEF AuthInit, AuthTypeOK
<1>2. Entries
  BY DEF AuthInit, Entries
<1> QED
  BY <1>1, <1>2 DEF AuthInv

LEMMA AuthInvNext == AuthInv /\ [AuthNext]_authVars => AuthInv'
<1>1. AuthInv /\ UNCHANGED authVars => AuthInv'
  BY DEF AuthInv, AuthTypeOK, Entries, authVars
<1> QED
  BY <1>1, PresentKeeps, LoginKeeps, LogoutKeeps, AuthRestartKeeps, AuthTickKeeps
     DEF AuthNext

LEMMA AuthSteps == AuthInv /\ [Next]_vars => [AuthNext]_authVars
<1> SUFFICES ASSUME AuthInv, [Next]_vars PROVE [AuthNext]_authVars
  OBVIOUS
<1>1. Cookie \subseteq Cookies
  BY AuthConstants DEF AuthInv, AuthTypeOK, Cookie, Cookies, Tokens
<1>2. ASSUME NEW r \in Requests, NEW t \in Cookie, requireAuth(r, t)
      PROVE  AuthNext
  BY <1>1, <1>2 DEF requireAuth, AuthNext
<1>3. ASSUME NEW r \in Requests, Handler(r) \/ handleSettingsSave(r)
      PROVE  UNCHANGED authVars
  BY <1>3 DEF Handler, handleSettingsSave
<1>4. CASE Public \/ Tick \/ Restart
  BY <1>1, <1>4 DEF Public, Tick, Restart, AuthNext
<1>5. CASE Boot \/ UNCHANGED vars
  BY <1>5 DEF Boot, vars
<1> QED
  BY <1>2, <1>3, <1>4, <1>5 DEF Next

LEMMA AuthInvariant == Spec => []AuthInv
<1>1. Init => AuthInv
  BY AuthInvInit DEF Init
<1>2. AuthInv /\ [Next]_vars => AuthInv'
  BY AuthSteps, AuthInvNext
<1> QED
  BY <1>1, <1>2, PTL DEF Spec

\* And so for the sessions.
THEOREM AuthOfDashboard == Spec => AuthSpec
<1>1. Init => AuthInit
  BY DEF Init
<1> QED
  BY <1>1, AuthSteps, AuthInvariant, PTL DEF Spec, AuthSpec

LEMMA Exact == AuthInv => SessionExact
<1> SUFFICES ASSUME AuthInv, configured, NEW t \in Cookies
             PROVE  Authenticated(t) <=> Current(t)
  BY DEF SessionExact
<1>1. AuthTypeOK /\ Entries
  BY DEF AuthInv
<1>2. CASE t \in Tokens
  <2>1. CASE sessions[t] = NoSession
    BY <1>1, <1>2, <2>1, TokenType, AuthConstants
       DEF Entries, Authenticated, Current
  <2>2. CASE sessions[t] # NoSession
    BY <1>1, <1>2, <2>2, TokenType, AuthConstants
       DEF Entries, Authenticated, Current, Expired
  <2> QED
    BY <2>1, <2>2
<1>3. CASE t \notin Tokens
  <2>1. t = NoCookie
    BY <1>3 DEF Cookies
  <2>2. t \notin 1..lastToken
    BY <1>1, <1>3, AuthConstants DEF AuthTypeOK, Tokens
  <2> QED
    BY <1>3, <2>2 DEF Authenticated, Current
<1> QED
  BY <1>2, <1>3

\* A password in force lets in exactly the sessions that are current.
THEOREM SessionsExact == Spec => []SessionExact
  BY Exact, AuthInvariant, PTL

\* Once every session has ended and the requests let in before are answered,
\* the list, the backup and the settings stay as they are.
THEOREM OnlyAdmittedChange == Spec => NothingUnlessAdmitted
<1> DEFINE Kept == LockedOut /\ Up => UNCHANGED <<utms, lastId, backup, stored>> /\
                      \A r \in Requests : requests'[r] = Idle
<1>1. AuthInv /\ [Next]_vars => [Kept]_vars
  <2> SUFFICES ASSUME AuthInv, Next, LockedOut, Up
               PROVE  /\ UNCHANGED <<utms, lastId, backup, stored>>
                      /\ \A r \in Requests : requests'[r] = Idle
    OBVIOUS
  <2>1. \A r \in Requests : requests[r] = Idle
    BY DEF LockedOut
  <2>2. \A t \in Cookie : ~Authenticated(t)
    <3>1. Cookie \subseteq Cookies /\ AuthTypeOK
      BY AuthConstants DEF AuthInv, AuthTypeOK, Cookie, Cookies, Tokens
    <3>2. \A t \in Cookies : ~Current(t)
      BY <3>1, AuthAssumption DEF LockedOut, Cookies, Current, AuthTypeOK
    <3> QED
      BY <3>1, <3>2, Exact DEF SessionExact, LockedOut
  <2>3. ASSUME NEW r \in Requests, NEW t \in Cookie, requireAuth(r, t)
        PROVE  UNCHANGED <<registryVars, migrationVars>>
    BY <2>2, <2>3 DEF requireAuth, LoggedIn
  <2>4. ASSUME NEW r \in Requests, Handler(r) \/ handleSettingsSave(r)
        PROVE  FALSE
    <3>1. requests[r] = Idle /\ Idle # Admitted /\ requests[r].pc = "idle"
      BY <2>1 DEF Idle, Admitted
    <3>2. Handle(r) => requests[r] = Admitted \/ requests[r].pc \in {"lines", "poll"}
      BY DEF Handle, handleUTMCreate, handleUTMBulkAdd, handleUTMImport, StartAdding,
         SkipLine, CreateUTM, InsertFails, PollAdded, Reply, handleUTMUpdate,
         handleUTMDelete, handleUTMExport, AtLine, Done
    <3> QED
      BY <2>4, <3>1, <3>2 DEF Handler, handleSettingsSave
  <2>5. CASE Public \/ Tick
    BY <2>1, <2>5 DEF Public, Tick, registryVars, migrationVars
  <2>6. CASE Boot
    BY <2>6 DEF Boot, Open
  <2>7. CASE Restart
    BY <2>7 DEF Restart, RegistryRestart, MigrationRestart
  <2> QED
    BY <2>1, <2>3, <2>4, <2>5, <2>6, <2>7 DEF Next, registryVars, migrationVars
<1>2. NothingUnlessAdmitted <=> [][Kept]_vars
  BY DEF NothingUnlessAdmitted
<1> QED
  BY <1>1, <1>2, AuthInvariant, PTL DEF Spec

-----------------------------------------------------------------------------
(* The migration.                                                          *)

\* What the statements done so far have left.
Begun ==
    /\ boot >= 1 => "utms" \in tables
    /\ boot >= 2 => "settings" \in tables
    /\ boot >= 3 => stored # "none"
    /\ boot >= 4 => "telegram_chats" \in tables
    /\ boot >= 5 => tables = Tables
    /\ \A i \in 1..8 : boot >= 5 + i => <<Alters[i].table, Alters[i].column>> \in columns

MigrationInv == MigrationTypeOK /\ Begun

LEMMA AltersAre ==
    /\ Len(Alters) = 8
    /\ \A i \in 1..8 : Alters[i].op = "alter" /\ Alters[i].table \in Tables
<1>1. Len(Alters) = 8
  BY DEF Alters
<1>2. \A i \in 1..8 : i = 1 \/ i = 2 \/ i = 3 \/ i = 4 \/ i = 5 \/ i = 6 \/ i = 7 \/ i = 8
  OBVIOUS
<1>3. \A i \in 1..8 : Alters[i].op = "alter" /\ Alters[i].table \in Tables
  BY <1>2 DEF Alters, Alter, Tables
<1> QED
  BY <1>1, <1>3

\* The statements of migrate add what schema.sql has and older versions lacked.
LEMMA ColumnsAre == Columns = {<<Alters[i].table, Alters[i].column>> : i \in 1..8}
<1> DEFINE Col(i) == <<Alters[i].table, Alters[i].column>>
<1>1. /\ Col(1) = <<"settings", "telegram_mode">>
      /\ Col(2) = <<"settings", "telegram_proxy_url">>
      /\ Col(3) = <<"settings", "telegram_relay_base_url">>
      /\ Col(4) = <<"settings", "telegram_relay_auth_key">>
      /\ Col(5) = <<"telegram_chats", "utm_id">>
      /\ Col(6) = <<"utms", "fsrar_id">>
      /\ Col(7) = <<"utms", "consecutive_poll_failures">>
      /\ Col(8) = <<"utms", "failing_since">>
  BY DEF Alters, Alter
<1>2. Columns = {Col(1), Col(2), Col(3), Col(4), Col(5), Col(6), Col(7), Col(8)}
  <2> HIDE DEF Col
  <2> QED
    BY <1>1 DEF Columns
<1>3. {Col(i) : i \in 1..8} = {Col(1), Col(2), Col(3), Col(4), Col(5), Col(6), Col(7), Col(8)}
  <2>1. 1..8 = {1, 2, 3, 4, 5, 6, 7, 8}
    OBVIOUS
  <2> HIDE DEF Col
  <2> QED
    BY <2>1
<1> QED
  BY <1>2, <1>3

LEMMA StatementsAre ==
    /\ Statements[1] = Create("utms") /\ Statements[2] = Create("settings")
    /\ Statements[3] = Insert("settings") /\ Statements[4] = Create("telegram_chats")
    /\ Statements[5] = Create("notifications_sent")
    /\ \A i \in 1..8 : Statements[5 + i] = Alters[i]
<1>1. /\ \A i \in 1..5 : Statements[i] = Schema[i]
      /\ \A i \in 1..8 : Statements[5 + i] = Alters[i]
  BY DEF Statements
<1>2. /\ Schema[1] = Create("utms") /\ Schema[2] = Create("settings")
      /\ Schema[3] = Insert("settings") /\ Schema[4] = Create("telegram_chats")
      /\ Schema[5] = Create("notifications_sent")
  BY DEF Schema
<1> QED
  BY <1>1, <1>2

LEMMA OpenKeeps == ASSUME MigrationInv, Open PROVE MigrationInv'
<1> DEFINE s == Statements[boot + 1]
<1>1. MigrationTypeOK /\ Begun /\ boot \in 0..12
  BY DEF MigrationInv, MigrationTypeOK, Open, Up
<1>2. restarts' = restarts /\ (CreateTable(s) \/ InsertRow(s) \/ AlterTable(s))
  BY DEF Open
<1>3. /\ boot' = boot + 1 /\ tables \subseteq tables' /\ columns \subseteq columns'
      /\ stored # "none" => stored' = stored
  BY <1>2 DEF CreateTable, InsertRow, AlterTable, AfterAlter, InsertedSettings
<1>4. CASE boot \in 0..4
  <2>1. boot = 0 \/ boot = 1 \/ boot = 2 \/ boot = 3 \/ boot = 4
    BY <1>4
  <2> HIDE DEF s
  <2>2. ASSUME NEW t \in Tables, s = Create(t)
        PROVE  /\ tables' = tables \cup {t} /\ stored' = stored /\ columns' \subseteq Columns
    <3>1. s.op = "create" /\ s.table = t
      BY <2>2 DEF Create
    <3>2. CreateTable(s)
      BY <1>2, <3>1 DEF InsertRow, AlterTable
    <3> QED
      BY <1>1, <3>1, <3>2 DEF CreateTable, MigrationTypeOK
  <2>3. ASSUME s = Insert("settings")
        PROVE  stored' = InsertedSettings /\ tables' = tables /\ columns' = columns
    <3>1. s.op = "insert"
      BY <2>3 DEF Insert
    <3>2. InsertRow(s)
      BY <1>2, <3>1 DEF CreateTable, AlterTable
    <3> QED
      BY <3>2 DEF InsertRow
  <2>4. /\ boot = 0 => s = Create("utms")
        /\ boot = 1 => s = Create("settings")
        /\ boot = 2 => s = Insert("settings")
        /\ boot = 3 => s = Create("telegram_chats")
        /\ boot = 4 => s = Create("notifications_sent")
    BY StatementsAre DEF s
  <2>5. MigrationTypeOK'
    <3>1. boot' \in 0..13
      BY <1>3, <1>4
    <3>2. tables' \subseteq Tables /\ columns' \subseteq Columns
          /\ stored' \in {"none", "default", "saved"}
      BY <1>1, <2>1, <2>2, <2>3, <2>4 DEF MigrationTypeOK, Tables, InsertedSettings
    <3> QED
      BY <1>1, <1>2, <3>1, <3>2 DEF MigrationTypeOK
  <2>6. Begun'
    <3>1. boot' < 6
      BY <1>3, <1>4
    <3>2. \A i \in 1..8 : ~(boot' >= 5 + i)
      BY <1>3, <1>4
    <3>3. CASE boot = 0
      BY <1>3, <3>2, <3>3, <2>2, <2>4 DEF Begun, Tables
    <3>4. CASE boot = 1
      BY <1>1, <1>3, <3>2, <3>4, <2>2, <2>4 DEF Begun, Tables
    <3>5. CASE boot = 2
      BY <1>1, <1>3, <3>2, <3>5, <2>3, <2>4 DEF Begun, InsertedSettings
    <3>6. CASE boot = 3
      BY <1>1, <1>3, <3>2, <3>6, <2>2, <2>4 DEF Begun, Tables
    <3>7. CASE boot = 4
      <4>1. tables' = Tables
        <5>1. tables' = tables \cup {"notifications_sent"}
          BY <3>7, <2>2, <2>4 DEF Tables
        <5>2. {"utms", "settings", "telegram_chats"} \subseteq tables
          BY <1>1, <3>7 DEF Begun
        <5> QED
          BY <1>1, <5>1, <5>2 DEF Tables, MigrationTypeOK
      <4> QED
        BY <1>1, <1>3, <3>2, <3>7, <4>1 DEF Begun, Tables
    <3> QED
      BY <2>1, <3>3, <3>4, <3>5, <3>6, <3>7
  <2> QED
    BY <2>5, <2>6 DEF MigrationInv
<1>5. CASE boot \in 5..12
  <2> DEFINE n == boot - 4
  <2>1. n \in 1..8 /\ boot + 1 = 5 + n
    BY <1>5
  <2>2. s = Alters[n] /\ s.op = "alter"
    BY <2>1, StatementsAre, AltersAre
  <2>3. <<s.table, s.column>> \in Columns
    BY <2>1, <2>2, ColumnsAre
  <2>4. /\ columns' = columns \cup {<<s.table, s.column>>}
        /\ tables' = tables /\ stored' = stored
    BY <1>2, <2>2 DEF CreateTable, InsertRow, AlterTable
  <2>5. MigrationTypeOK'
    BY <1>1, <1>2, <1>3, <2>3, <2>4 DEF MigrationTypeOK
  <2>6. \A i \in 1..8 : boot' >= 5 + i => i = n \/ boot >= 5 + i
    BY <1>3, <1>5
  <2>7. Begun'
    BY <1>1, <1>3, <1>5, <2>2, <2>4, <2>6 DEF Begun
  <2> QED
    BY <2>5, <2>7 DEF MigrationInv
<1> QED
  BY <1>1, <1>4, <1>5

LEMMA MigrationInvNext == MigrationInv /\ [MigrationNext]_migrationVars => MigrationInv'
<1>1. ASSUME MigrationInv, UpdateSettings PROVE MigrationInv'
  BY <1>1 DEF MigrationInv, MigrationTypeOK, Begun, UpdateSettings
<1>2. ASSUME MigrationInv, MigrationRestart PROVE MigrationInv'
  <2>1. MigrationTypeOK'
    BY <1>2, MigrationAssumption DEF MigrationInv, MigrationTypeOK, MigrationRestart
  <2>2. Begun'
    BY <1>2 DEF MigrationRestart, Begun
  <2> QED
    BY <2>1, <2>2 DEF MigrationInv
<1>3. ASSUME MigrationInv, UNCHANGED migrationVars PROVE MigrationInv'
  BY <1>3 DEF MigrationInv, MigrationTypeOK, Begun, migrationVars
<1> QED
  BY <1>1, <1>2, <1>3, OpenKeeps DEF MigrationNext

LEMMA MigrationInvInit == MigrationInit => MigrationInv
<1> SUFFICES ASSUME MigrationInit PROVE MigrationInv
  OBVIOUS
<1>1. columns \subseteq Columns
  <2>1. \A n \in 0..8 : 1..n \subseteq 1..8
    OBVIOUS
  <2> QED
    BY <2>1, ColumnsAre DEF MigrationInit
<1>2. MigrationTypeOK
  BY <1>1, MigrationAssumption DEF MigrationInit, MigrationTypeOK
<1>3. Begun
  BY DEF MigrationInit, Begun
<1> QED
  BY <1>2, <1>3 DEF MigrationInv

LEMMA MigrationInvariant == MigrationSpec => []MigrationInv
  BY MigrationInvInit, MigrationInvNext, PTL DEF MigrationSpec

\* A server that answers has every table, every column and the settings row,
\* wherever earlier starts were cut short.
THEOREM ServesWhole == Spec => []ServesComplete
<1>1. MigrationInv => ServesComplete
  <2> SUFFICES ASSUME MigrationInv, Up
               PROVE  tables = Tables /\ columns = Columns /\ stored # "none"
    BY DEF ServesComplete
  <2>1. MigrationTypeOK /\ Begun /\ boot = 13
    BY DEF MigrationInv, Up
  <2>2. \A i \in 1..8 : <<Alters[i].table, Alters[i].column>> \in columns
    BY <2>1 DEF Begun
  <2>3. columns = Columns
    BY <2>1, <2>2, ColumnsAre DEF MigrationTypeOK
  <2> QED
    BY <2>1, <2>3 DEF Begun
<1> QED
  BY <1>1, MigrationOfDashboard, MigrationInvariant, PTL

\* No start of the process takes saved settings back to their defaults.
THEOREM SettingsKept == Spec => SettingsSurvive
<1>1. [MigrationNext]_migrationVars => [stored = "saved" => stored' = "saved"]_migrationVars
  BY DEF MigrationNext, Open, CreateTable, InsertRow, AlterTable, UpdateSettings,
     MigrationRestart, InsertedSettings
<1>2. MigrationSpec => SettingsSurvive
  BY <1>1, PTL DEF MigrationSpec, SettingsSurvive
<1> QED
  BY <1>2, MigrationOfDashboard, PTL

\* Every variable of the whole keeps its type.
THEOREM TypeCorrect == Spec => []TypeOK
<1>1. RegistryTypeOK /\ AuthInv /\ MigrationInv => TypeOK
  BY DEF TypeOK, AuthInv, MigrationInv
<1> QED
  BY <1>1, RegistryOfDashboard, RegistryTypeCorrect, AuthInvariant, MigrationOfDashboard,
     MigrationInvariant, PTL

=============================================================================
