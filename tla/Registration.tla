---------------------------- MODULE Registration ----------------------------
(***************************************************************************)
(* Registration and profiles: the User service asks Auth to add the login, *)
(* then stores the profile and the user_registered event in a transaction  *)
(* of its own, and asks Auth to remove the login if that fails.  Emails    *)
(* and logins are looked up before anything is written; the UNIQUE columns *)
(* of user_profile and auth_user decide in the end.                        *)
(*                                                                         *)
(* Auth generates a new id for each login it adds, so a user is known here *)
(* by the registration call that made him.  Passwords are left out, and    *)
(* address stands for the name and address fields, which are all treated   *)
(* alike.                                                                  *)
(*                                                                         *)
(* Sources: user/app/userservice.go, auth/app/userservice.go, their        *)
(* repositories, user/infrastructure/transport/authservice/client.go.      *)
(***************************************************************************)
EXTENDS Integers, FiniteSets

CONSTANTS
  Calls,      \* POST register calls, and the users they make
  Updates,    \* goroutines that serve PUT profile
  Logins, Emails, Addresses,
  Requests,   \* X-Request-ID values of the updates
  None        \* no value: a row or a field that is not there

VARIABLES
  reg,        \* call -> [pc, login, email]
  authUsers,  \* Auth's auth_user: user -> login or None
  profiles,   \* User's user_profile: user -> row or None
  announced,  \* users whose user_registered event is stored
  upd,        \* update -> [pc, user, request, new, row]
  requests,   \* User's processed_request
  failed      \* history: has a request between the services, a database or the
              \* process failed during a registration?

vars == <<reg, authUsers, profiles, announced, upd, requests, failed>>

Profile == [login : Logins, email : Emails, address : Addresses]
ASSUME RegistrationAssumption ==
  None \notin Logins \union Emails \union Addresses \union Requests \union Calls \union Profile

Change  == [email : Emails \union {None}, address : Addresses \union {None}]
NoChange == [email |-> None, address |-> None]
IdleUpdate == [pc |-> "idle", user |-> None, request |-> None,
               new |-> NoChange, row |-> None]
Over == {"registered", "refused", "lost"}

Steps == {"idle", "checked", "adding", "added", "undo"} \union Over
RegState == [pc : Steps, login : Logins \union {None}, email : Emails \union {None}]
UpdState == [pc : {"idle", "checked", "read"}, user : Calls \union {None},
             request : Requests \union {None}, new : Change, row : Profile \union {None}]

TypeOK ==
  /\ reg \in [Calls -> RegState]
  /\ authUsers \in [Calls -> Logins \union {None}]
  /\ profiles \in [Calls -> Profile \union {None}]
  /\ announced \subseteq Calls
  /\ upd \in [Updates -> UpdState]
  /\ requests \subseteq Requests
  /\ failed \in BOOLEAN

Init ==
  /\ reg = [c \in Calls |-> [pc |-> "idle", login |-> None, email |-> None]]
  /\ authUsers = [c \in Calls |-> None]
  /\ profiles = [c \in Calls |-> None]
  /\ announced = {}
  /\ upd = [x \in Updates |-> IdleUpdate]
  /\ requests = {}
  /\ failed = FALSE

----------------------------------------------------------------------------
(* POST register.                                                          *)

Registered == { c \in Calls : profiles[c] # None }

\* FindByEmail, and the UNIQUE column email, for a user who may have it already.
EmailFree(e, user) == \A c \in Registered \ {user} : profiles[c].email # e
LoginFree(l) == \A c \in Calls : authUsers[c] # l

\* A call that is over needs its arguments no more.
At(call, step) ==
  IF step \in Over THEN [pc |-> step, login |-> None, email |-> None]
                   ELSE [call EXCEPT !.pc = step]
Goto(c, step) == reg' = [reg EXCEPT ![c] = At(@, step)]

Register(c, l, e) ==
  /\ reg[c].pc = "idle"
  /\ reg' = [reg EXCEPT ![c] =
               At([pc |-> "idle", login |-> l, email |-> e],
                  IF EmailFree(e, None) THEN "checked" ELSE "refused")]
  /\ UNCHANGED <<authUsers, profiles, announced, upd, requests, failed>>

\* Auth's Add: checkLogin, outside the transaction.
CheckLogin(c) ==
  /\ reg[c].pc = "checked"
  /\ Goto(c, IF LoginFree(reg[c].login) THEN "adding" ELSE "refused")
  /\ UNCHANGED <<authUsers, profiles, announced, upd, requests, failed>>

\* Mutant of AddUser: auth_user without its UNIQUE column login.
AddUserAnyway(c) ==
  /\ reg[c].pc = "adding"
  /\ authUsers' = [authUsers EXCEPT ![c] = reg[c].login]
  /\ Goto(c, "added")
  /\ UNCHANGED <<profiles, announced, upd, requests, failed>>

\* Auth's Add: the transaction.
AddUser(c) ==
  /\ reg[c].pc = "adding"
  /\ IF LoginFree(reg[c].login)
     THEN /\ authUsers' = [authUsers EXCEPT ![c] = reg[c].login]
          /\ Goto(c, "added")
     ELSE /\ Goto(c, "refused")
          /\ UNCHANGED authUsers
  /\ UNCHANGED <<profiles, announced, upd, requests, failed>>

\* The login is added and Auth's answer is lost, or its request was: RegisterUser
\* returns an error and Add has no id to remove.
LoseAnswer(c) ==
  /\ reg[c].pc \in {"checked", "adding", "added"}
  /\ Goto(c, "refused")
  /\ failed' = TRUE
  /\ UNCHANGED <<authUsers, profiles, announced, upd, requests>>

\* The UNIQUE columns of user_profile.
Storable(c) ==
  /\ EmailFree(reg[c].email, c)
  /\ \A d \in Registered : profiles[d].login # reg[c].login

\* Mutant of StoreProfile: the event is not stored with the profile.
StoreProfileUnannounced(c, a) ==
  /\ reg[c].pc = "added"
  /\ Storable(c)
  /\ profiles' = [profiles EXCEPT ![c] =
                    [login |-> reg[c].login, email |-> reg[c].email, address |-> a]]
  /\ \/ Goto(c, "registered") /\ UNCHANGED failed
     \/ Goto(c, "undo") /\ failed' = TRUE
  /\ UNCHANGED <<authUsers, announced, upd, requests>>

\* The User service's transaction: profile and event.  When the commit takes
\* effect and its answer is lost, Complete reports an error like any other.
StoreProfile(c, a) ==
  /\ reg[c].pc = "added"
  /\ Storable(c)
  /\ profiles' = [profiles EXCEPT ![c] =
                    [login |-> reg[c].login, email |-> reg[c].email, address |-> a]]
  /\ announced' = announced \union {c}
  /\ \/ Goto(c, "registered") /\ UNCHANGED failed
     \/ Goto(c, "undo") /\ failed' = TRUE
  /\ UNCHANGED <<authUsers, upd, requests>>

\* The transaction fails, and neither is stored.
ProfileFails(c) ==
  /\ reg[c].pc = "added"
  /\ failed' = (failed \/ Storable(c))
  /\ Goto(c, "undo")
  /\ UNCHANGED <<authUsers, profiles, announced, upd, requests>>

\* Mutant of RemoveUser: nothing is removed.
RemoveNothing(c) ==
  /\ reg[c].pc = "undo"
  /\ Goto(c, "refused")
  /\ UNCHANGED <<authUsers, profiles, announced, upd, requests, failed>>

\* RemoveUser; its error, if any, is dropped.
RemoveUser(c) ==
  /\ reg[c].pc = "undo"
  /\ \/ authUsers' = [authUsers EXCEPT ![c] = None] /\ UNCHANGED failed
     \/ failed' = TRUE /\ UNCHANGED authUsers
  /\ Goto(c, "refused")
  /\ UNCHANGED <<profiles, announced, upd, requests>>

\* The User service's process ends.
Crash ==
  /\ failed' = TRUE
  /\ reg' = [c \in Calls |-> IF reg[c].pc \in {"idle"} \union Over
                             THEN reg[c] ELSE At(reg[c], "lost")]
  /\ upd' = [x \in Updates |-> IdleUpdate]
  /\ UNCHANGED <<authUsers, profiles, announced, requests>>

----------------------------------------------------------------------------
(* PUT profile.                                                            *)

\* Update up to its transaction: the new email is looked up.
BeginUpdate(x, user, r, new) ==
  /\ upd[x].pc = "idle"
  /\ user \in Registered
  /\ new.email # None => EmailFree(new.email, user)
  /\ upd' = [upd EXCEPT ![x] = [pc |-> "checked", user |-> user, request |-> r,
                                new |-> new, row |-> None]]
  /\ UNCHANGED <<reg, authUsers, profiles, announced, requests, failed>>

\* SetRequestProcessed, which waits for another transaction with this request
\* id, and FindByID, which takes no lock.
ReadProfile(x) ==
  /\ upd[x].pc = "checked"
  /\ upd[x].request \notin requests
  /\ \A y \in Updates : upd[y].pc = "read" => upd[y].request # upd[x].request
  /\ upd' = [upd EXCEPT ![x] = [@ EXCEPT !.pc = "read", !.row = profiles[upd[x].user]]]
  /\ UNCHANGED <<reg, authUsers, profiles, announced, requests, failed>>

\* Mutant of Overlay: fields the request does not name are blanked.
OverlayBlank(new, old) == [old EXCEPT !.email = new.email, !.address = new.address]

\* A field the request names, or else what is there.
Overlay(new, old) ==
  [old EXCEPT !.email   = IF new.email   # None THEN new.email   ELSE @,
              !.address = IF new.address # None THEN new.address ELSE @]

\* Mutant of UpdatedEmail: user_profile without its UNIQUE column.
UpdatedEmailAnyway(x) == TRUE

\* The UNIQUE column email, once more.
UpdatedEmail(x) == EmailFree(Overlay(upd[x].new, upd[x].row).email, upd[x].user)

\* All fields of the row are stored, those read before among them.
StoreUpdate(x) ==
  LET u == upd[x].user IN
  /\ upd[x].pc = "read"
  /\ UpdatedEmail(x)
  /\ profiles' = [profiles EXCEPT ![u] = Overlay(upd[x].new, upd[x].row)]
  /\ requests' = requests \union {upd[x].request}
  /\ upd' = [upd EXCEPT ![x] = IdleUpdate]
  /\ UNCHANGED <<reg, authUsers, announced, failed>>

\* Request id seen, email taken, or a failure of the database.
UpdateFails(x) ==
  /\ upd[x].pc # "idle"
  /\ upd' = [upd EXCEPT ![x] = IdleUpdate]
  /\ UNCHANGED <<reg, authUsers, profiles, announced, requests, failed>>

----------------------------------------------------------------------------
AddLogin(c) == CheckLogin(c) \/ AddUser(c)
AddProfile(c) == (\E a \in Addresses : StoreProfile(c, a)) \/ ProfileFails(c)

Progress(c) == AddLogin(c) \/ AddProfile(c) \/ RemoveUser(c)

Update(x) ==
  \/ \E user \in Calls, r \in Requests, new \in Change : BeginUpdate(x, user, r, new)
  \/ ReadProfile(x) \/ StoreUpdate(x) \/ UpdateFails(x)

Next ==
  \/ \E c \in Calls :
       \/ \E l \in Logins, e \in Emails : Register(c, l, e)
       \/ Progress(c) \/ LoseAnswer(c)
  \/ \E x \in Updates : Update(x)
  \/ Crash

Spec == Init /\ [][Next]_vars

\* A call that has begun goes on.
FairSpec == Spec /\ \A c \in Calls : WF_vars(Progress(c))

----------------------------------------------------------------------------
(* Properties.                                                             *)

\* description.md: the user will be registered and can log in.  Whoever has a
\* profile has his login in Auth, unless something failed and he was told that
\* the registration did: RemoveUser follows any error of the transaction, also
\* that of a commit that took effect.  No two users have the same login, and an
\* unsuccessful registration never takes one away from another user.
RegisteredCanLogIn ==
  /\ \A c \in Registered :
       \/ authUsers[c] = profiles[c].login
       \/ failed /\ reg[c].pc = "refused"
  /\ \A c, d \in Calls : c # d /\ authUsers[c] # None => authUsers[c] # authUsers[d]

\* No two profiles have the same email, though registrations and updates look
\* it up before their transactions.
EmailsDistinct ==
  \A c, d \in Registered : c # d => profiles[c].email # profiles[d].email

\* Two services, one outcome: as long as no request between them fails, a
\* login that is in Auth without a profile belongs to a call under way.
NoOrphanLogin ==
  \A c \in Calls :
    ~failed /\ authUsers[c] # None => c \in Registered \/ reg[c].pc \in {"added", "undo"}

\* A registration under way ends, and a login without a profile is free again.
RegistrationEnds ==
  \A c \in Calls :
    reg[c].pc = "checked" /\ ~failed
      ~> \/ failed
         \/ reg[c].pc = "registered" /\ c \in announced
         \/ reg[c].pc = "refused" /\ authUsers[c] = None
============================================================================
