------------------------------ MODULE Session ------------------------------
(***************************************************************************)
(* Sessions and tokens of the Auth service.  A login makes a session in    *)
(* Redis, which expires when it is not used; the gateway asks Auth about   *)
(* each request of a user, and Auth answers with a token that the other    *)
(* services accept until it expires, without asking again.                 *)
(*                                                                         *)
(* The handlers are sequences of calls to Redis and PostgreSQL: a logout,  *)
(* the removal of the user and the clock run between any two of them.      *)
(*                                                                         *)
(* Sources: auth/infrastructure/transport/http/server.go, redis/           *)
(* sessionclient.go, auth/app/userservice.go, common/jwtauth/*.go.         *)
(***************************************************************************)
EXTENDS Integers

CONSTANTS
  Users, Sessions, AuthCalls,
  SessionTTL,    \* sessionLifetime
  TokenTTL,      \* tokenExpirationTime
  WriteTimeout,  \* of the HTTP server: later answers reach nobody
  MaxTime,       \* BOUND of the clock
  NoUser

ASSUME SessionAssumption ==
  /\ NoUser \notin Users
  /\ {SessionTTL, TokenTTL, WriteTimeout, MaxTime} \subseteq Nat

VARIABLES
  users,     \* auth_user
  sessions,  \* Redis: session -> [user, until]
  issued,    \* session ids used so far, each generated once
  login,     \* session -> the user who has passed the password check for it
  auth,      \* auth request -> [pc, session, user, since]
  tokens,    \* tokens that reached their client: [session, exp]
  ended,     \* history: session -> when it was closed or its user removed
  now

sessionVars == <<users, sessions, issued, login, auth, tokens, ended, now>>

Never == MaxTime + SessionTTL + 1
NoSession == [user |-> NoUser, until |-> 0]
NoAuth == [pc |-> "idle", session |-> CHOOSE s \in Sessions : TRUE,
           user |-> NoUser, since |-> 0]

SessionInit ==
  /\ users = Users
  /\ sessions = [s \in Sessions |-> NoSession]
  /\ issued = {}
  /\ login = [s \in Sessions |-> NoUser]
  /\ auth = [x \in AuthCalls |-> NoAuth]
  /\ tokens = {}
  /\ ended = [s \in Sessions |-> Never]
  /\ now = 0

\* Redis gives a key away until it expires.
Open(s) == sessions[s].user # NoUser /\ now < sessions[s].until

Earlier(a, b) == IF a < b THEN a ELSE b

\* A session ends when it is closed, expires or loses its user.
EndOf(s) ==
  IF sessions[s].user = NoUser THEN ended[s] ELSE Earlier(ended[s], sessions[s].until)

Tick ==
  /\ now < MaxTime
  /\ now' = now + 1
  /\ UNCHANGED <<users, sessions, issued, login, auth, tokens, ended>>

----------------------------------------------------------------------------
(* POST login, POST logout, DELETE user.                                   *)

\* FindUserByLoginAndPassword; the session id is generated afterwards.
CheckPassword(s, u) ==
  /\ s \notin issued
  /\ u \in users
  /\ issued' = issued \union {s}
  /\ login' = [login EXCEPT ![s] = u]
  /\ UNCHANGED <<users, sessions, auth, tokens, ended, now>>

Store(s) ==
  /\ login[s] # NoUser
  /\ sessions' = [sessions EXCEPT ![s] = [user |-> login[s], until |-> now + SessionTTL]]
  /\ login' = [login EXCEPT ![s] = NoUser]
  /\ UNCHANGED <<users, issued, auth, tokens, ended, now>>

LoginFails(s) ==
  /\ login[s] # NoUser
  /\ login' = [login EXCEPT ![s] = NoUser]
  /\ UNCHANGED <<users, sessions, issued, auth, tokens, ended, now>>

\* Del of a key that is not there succeeds as well.
Logout(s) ==
  /\ s \in issued /\ login[s] = NoUser
  /\ sessions' = [sessions EXCEPT ![s] = NoSession]
  /\ ended' = [ended EXCEPT ![s] = Earlier(EndOf(s), now)]
  /\ UNCHANGED <<users, issued, login, auth, tokens, now>>

\* The user is gone, his sessions stay in Redis until they expire.
RemoveUser(u) ==
  /\ u \in users
  /\ users' = users \ {u}
  /\ ended' = [s \in Sessions |-> IF u \in {sessions[s].user, login[s]}
                                  THEN Earlier(ended[s], now) ELSE ended[s]]
  /\ UNCHANGED <<sessions, issued, login, auth, tokens, now>>

----------------------------------------------------------------------------
(* GET auth, in the order of authHandler.                                  *)

AuthGoto(x, pc) == auth' = [auth EXCEPT ![x].pc = pc]
AuthUnchanged == UNCHANGED <<users, sessions, issued, login, tokens, ended, now>>

\* The gateway asks for a session whose cookie a client has.
AskAuth(x, s) ==
  /\ auth[x].pc = "idle"
  /\ s \in issued /\ login[s] = NoUser
  /\ auth' = [auth EXCEPT ![x] = [NoAuth EXCEPT !.pc = "asked", !.session = s, !.since = now]]
  /\ AuthUnchanged

\* 401: no such session.  Any error of Redis is taken for that as well, since
\* Get returns no data with it.
NotAuthorized(x) ==
  /\ auth[x].pc = "asked"
  /\ AuthGoto(x, "idle")
  /\ AuthUnchanged

FindSession(x) ==
  /\ auth[x].pc = "asked"
  /\ Open(auth[x].session)
  /\ auth' = [auth EXCEPT ![x] = [@ EXCEPT !.pc = "found", !.user = sessions[auth[x].session].user]]
  /\ AuthUnchanged

\* FindUserByID; 404 if the user is gone.
FindUser(x) ==
  /\ auth[x].pc = "found"
  /\ AuthGoto(x, IF auth[x].user \in users THEN "known" ELSE "idle")
  /\ AuthUnchanged

\* Mutant of UpdateSessionTTL: the session is stored again.
StoreAgain(x) ==
  /\ auth[x].pc = "known"
  /\ sessions' = [sessions EXCEPT ![auth[x].session] =
                    [user |-> auth[x].user, until |-> now + SessionTTL]]
  /\ AuthGoto(x, "refreshed")
  /\ UNCHANGED <<users, issued, login, tokens, ended, now>>

\* Expire changes a key that is there, and its error is ignored.
UpdateSessionTTL(x) ==
  /\ auth[x].pc = "known"
  /\ LET s == auth[x].session IN
       \/ Open(s) /\ sessions' = [sessions EXCEPT ![s].until = now + SessionTTL]
       \/ UNCHANGED sessions
  /\ AuthGoto(x, "refreshed")
  /\ UNCHANGED <<users, issued, login, tokens, ended, now>>

\* The token leaves Auth; after the write timeout it gets no further.
GenerateToken(x) ==
  /\ auth[x].pc = "refreshed"
  /\ tokens' = IF now <= auth[x].since + WriteTimeout
               THEN tokens \union {[session |-> auth[x].session, exp |-> now + TokenTTL]}
               ELSE tokens
  /\ AuthGoto(x, "idle")
  /\ UNCHANGED <<users, sessions, issued, login, ended, now>>

\* ParseToken: what the services accept.
Accepted(t) == now < t.exp

\* A token is forgotten when nobody would accept it.
DropToken(t) ==
  /\ ~Accepted(t)
  /\ tokens' = tokens \ {t}
  /\ UNCHANGED <<users, sessions, issued, login, auth, ended, now>>

----------------------------------------------------------------------------
\* What the Auth process does; a login or an auth request dies with it.
AuthServes ==
  \/ \E s \in Sessions :
       \/ \E u \in Users : CheckPassword(s, u)
       \/ Store(s) \/ LoginFails(s) \/ Logout(s)
  \/ \E u \in Users : RemoveUser(u)
  \/ \E x \in AuthCalls :
       \/ \E s \in Sessions : AskAuth(x, s)
       \/ NotAuthorized(x) \/ FindSession(x) \/ FindUser(x)
       \/ UpdateSessionTTL(x) \/ GenerateToken(x)

AuthGone ==
  /\ login' = [s \in Sessions |-> NoUser]
  /\ auth' = [x \in AuthCalls |-> NoAuth]
  /\ UNCHANGED <<users, sessions, issued, tokens, ended, now>>

TimePasses == Tick \/ \E t \in tokens : DropToken(t)

----------------------------------------------------------------------------
\* description.md: Auth generates the tokens of internal requests.  A token
\* outlives its session, since the services do not ask Auth about it, but by less
\* than the time an answer may take and the lifetime of a token; no interleaving
\* with a logout, an expiry or the removal of the user makes it live longer or
\* brings the session back.
TokenEndsWithSession ==
  \A t \in tokens : Accepted(t) => now < EndOf(t.session) + WriteTimeout + TokenTTL
============================================================================
