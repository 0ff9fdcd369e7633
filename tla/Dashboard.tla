------------------------------- MODULE Dashboard -------------------------------
(***************************************************************************)
(* The web server: requests go past requireAuth (module Auth) to the       *)
(* handlers (module Registry, and the settings of Migration) once the      *)
(* database is open (module Migration).  A session is looked at when its   *)
(* request arrives, never again while the handler works.                   *)
(***************************************************************************)
EXTENDS Registry, Auth, Migration

vars == <<registryVars, authVars, migrationVars>>

TypeOK == RegistryTypeOK /\ AuthTypeOK /\ MigrationTypeOK

Init == RegistryInit /\ AuthInit /\ MigrationInit

-----------------------------------------------------------------------------
\* Whatever cookie the request has, also one of a session that is over.
Cookie == (1..lastToken) \cup {NoCookie}

LetsIn(t) == TRUE   \* faulty: the handler is not wrapped

LoggedIn(t) == Authenticated(t)

requireAuth(r, t) ==
    /\ Up
    /\ Present(t)
    /\ IF LoggedIn(t) THEN Admit(r) ELSE UNCHANGED registryVars
    /\ UNCHANGED migrationVars

Handler(r) ==
    /\ Up
    /\ Handle(r)
    /\ UNCHANGED <<authVars, migrationVars>>

handleSettingsSave(r) ==
    /\ Reply(r) /\ requests[r] = Admitted
    /\ UpdateSettings
    /\ UNCHANGED authVars

\* The login page and the index are for everybody, and so is logging out; an
\* index page asks Authenticated as well.
Public ==
    /\ Up
    /\ handleLogin \/ \E t \in Cookie : handleLogout(t) \/ Present(t)
    /\ UNCHANGED <<registryVars, migrationVars>>

Boot == Open /\ UNCHANGED <<registryVars, authVars>>

Restart == RegistryRestart /\ AuthRestart /\ MigrationRestart

Tick == AuthTick /\ UNCHANGED <<registryVars, migrationVars>>

Next ==
    \/ \E r \in Requests, t \in Cookie : requireAuth(r, t)
    \/ \E r \in Requests : Handler(r) \/ handleSettingsSave(r)
    \/ Public
    \/ Boot \/ Restart \/ Tick

Spec == Init /\ [][Next]_vars

-----------------------------------------------------------------------------
(* Properties: those of the modules, and what only the whole can promise.  *)

LockedOut ==
    /\ configured
    /\ \A t \in Tokens : ~Current(t)
    /\ \A r \in Requests : requests[r] = Idle

\* Once every session has ended and the requests let in before are answered,
\* the list, the backup and the settings stay as they are until someone logs
\* in: what a page, a cookie of an earlier session or of an earlier process
\* asks for is refused.
NothingUnlessAdmitted ==
    [][LockedOut /\ Up => UNCHANGED <<utms, lastId, backup, stored>> /\
          \A r \in Requests : requests'[r] = Idle]_vars

=============================================================================
