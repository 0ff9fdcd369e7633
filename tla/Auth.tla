--------------------------------- MODULE Auth ---------------------------------
(***************************************************************************)
(* Sessions of administrators: auth.Manager.                               *)
(*                                                                         *)
(* Login hands out a random token; the map of tokens and the time each     *)
(* ends at is in memory.  A session is looked at when a request presents   *)
(* its token, and an expired one is removed only then.  Without a password *)
(* in the environment everybody is let in.                                 *)
(***************************************************************************)
EXTENDS Integers

CONSTANTS
    TTL,           \* sessionTTL
    NoSession,     \* no entry in the map
    NoCookie,      \* no token, or one that was never issued
    MaxToken,      \* bound on the tokens issued
    MaxClock       \* bound on the clock

ASSUME AuthAssumption ==
    /\ TTL \in Nat /\ MaxToken \in Nat /\ MaxClock \in Nat
    /\ NoSession \notin Int /\ NoCookie \notin Int

Tokens == 1..MaxToken
Cookies == Tokens \cup {NoCookie}

VARIABLES
    configured,    \* ADMIN_PASSWORD is set
    sessions,      \* the map: when the session of a token ends
    lastToken,     \* tokens issued so far: random, so never the same twice
    clock,         \* the wall clock
    opened,        \* history: when each token was issued
    closed         \* history: tokens logged out, or lost by a restart

authVars == <<configured, sessions, lastToken, clock, opened, closed>>

AuthTypeOK ==
    /\ configured \in BOOLEAN
    /\ sessions \in [Tokens -> Nat \cup {NoSession}]
    /\ lastToken \in 0..MaxToken
    /\ clock \in 0..MaxClock
    /\ opened \in [Tokens -> 0..MaxClock]
    /\ closed \subseteq 1..lastToken

AuthInit ==
    /\ configured \in BOOLEAN
    /\ sessions = [t \in Tokens |-> NoSession]
    /\ lastToken = 0
    /\ clock = 0
    /\ opened = [t \in Tokens |-> 0]
    /\ closed = {}

-----------------------------------------------------------------------------
ExpiredAtEnd(t) == clock >= sessions[t]   \* faulty: !Before for After

Expired(t) == clock > sessions[t]

Authenticated(t) ==
    configured => t \in Tokens /\ sessions[t] # NoSession /\ ~Expired(t)

\* Authenticated takes an expired session it is shown out of the map.
Present(t) ==
    /\ sessions' = IF configured /\ t \in Tokens /\ sessions[t] # NoSession /\ Expired(t)
                   THEN [sessions EXCEPT ![t] = NoSession] ELSE sessions
    /\ UNCHANGED <<configured, lastToken, clock, opened, closed>>

\* Only the right password, and none is right when none is configured.
handleLogin ==
    /\ configured
    /\ lastToken < MaxToken
    /\ lastToken' = lastToken + 1
    /\ sessions' = [sessions EXCEPT ![lastToken'] = clock + TTL]
    /\ opened' = [opened EXCEPT ![lastToken'] = clock]
    /\ UNCHANGED <<configured, clock, closed>>

handleLogout(t) ==
    /\ sessions' = [x \in Tokens |-> IF x = t THEN NoSession ELSE sessions[x]]
    /\ closed' = closed \cup ({t} \cap 1..lastToken)
    /\ UNCHANGED <<configured, lastToken, clock, opened>>

\* The map is empty again, and the password may be another, or none.
AuthRestart ==
    /\ sessions' = [t \in Tokens |-> NoSession]
    /\ configured' \in BOOLEAN
    /\ closed' = 1..lastToken
    /\ UNCHANGED <<lastToken, clock, opened>>

AuthTick ==
    /\ clock < MaxClock
    /\ clock' = clock + 1
    /\ UNCHANGED <<configured, sessions, lastToken, opened, closed>>

AuthNext ==
    \/ \E t \in Cookies : Present(t) \/ handleLogout(t)
    \/ handleLogin \/ AuthRestart \/ AuthTick

AuthSpec == AuthInit /\ [][AuthNext]_authVars

-----------------------------------------------------------------------------
\* A token issued and not logged out, for sessionTTL after it was issued.
Current(t) == t \in 1..lastToken /\ t \notin closed /\ clock <= opened[t] + TTL

\* A password in force lets in exactly the sessions that are current: removing
\* expired entries only when they are presented never shows, and logging one
\* session out ends that one only.
SessionExact == configured => \A t \in Cookies : Authenticated(t) <=> Current(t)

=============================================================================
