------------------------- MODULE RegistrationProofs -------------------------
(***************************************************************************)
(* Theorems about Registration, for any number of registrations, updates   *)
(* and values.                                                             *)
(*                                                                         *)
(* Auth and the User service agree on a user because of where his          *)
(* registration is (Agreed), and go on to agree because an update writes   *)
(* back the login it has read, which nobody changes (LoginsRead).  Only    *)
(* when the answer of a commit is lost does a registration go on to remove *)
(* the login of a profile, and is refused.                                 *)
(***************************************************************************)
EXTENDS Registration, TLAPS

\* What each service has stored of a user while his registration runs.
Agreed(c) ==
  /\ reg[c].pc \in {"checked", "adding", "added", "undo"}
       => reg[c].login \in Logins /\ reg[c].email \in Emails
  /\ reg[c].pc \in {"idle", "checked", "adding"} => authUsers[c] = None
  /\ reg[c].pc = "added" => authUsers[c] = reg[c].login
  /\ reg[c].pc = "refused" /\ ~failed => authUsers[c] = None
  /\ reg[c].pc = "lost" => failed
  /\ reg[c].pc \in {"idle", "checked", "adding", "added"} => profiles[c] = None
  /\ reg[c].pc = "registered" => profiles[c] # None
  /\ profiles[c] # None => reg[c].pc = "registered" \/ failed
  /\ profiles[c] # None /\ reg[c].pc # "refused" => authUsers[c] = profiles[c].login

\* The user of an update has a profile, with the login the update has read.
LoginsRead ==
  \A x \in Updates :
    /\ upd[x].pc # "idle" => upd[x].user \in Registered /\ upd[x].request \in Requests
    /\ upd[x].pc = "read" => /\ upd[x].row \in Profile
                             /\ upd[x].row.login = profiles[upd[x].user].login

LoginsDistinct ==
  \A c, d \in Calls : c # d /\ authUsers[c] # None => authUsers[c] # authUsers[d]

IInv ==
  /\ TypeOK
  /\ \A c \in Calls : Agreed(c)
  /\ LoginsRead
  /\ LoginsDistinct
  /\ EmailsDistinct

----------------------------------------------------------------------------
LEMMA IdleUpdateType == IdleUpdate \in UpdState
<1>1. NoChange \in Change
  BY DEF NoChange, Change
<1>2. QED
  BY <1>1 DEF IdleUpdate, UpdState

LEMMA AtStep ==
  ASSUME NEW call \in RegState, NEW step \in Steps
  PROVE  /\ At(call, step) \in RegState
         /\ At(call, step).pc = step
         /\ step \notin Over => /\ At(call, step).login = call.login
                               /\ At(call, step).email = call.email
BY DEF At, RegState

LEMMA GotoStep ==
  ASSUME TypeOK, NEW c \in Calls, NEW step \in Steps, Goto(c, step)
  PROVE  /\ reg' \in [Calls -> RegState]
         /\ reg'[c].pc = step
         /\ step \notin Over => reg'[c].login = reg[c].login /\ reg'[c].email = reg[c].email
         /\ \A d \in Calls \ {c} : reg'[d] = reg[d]
<1>1. reg' = [reg EXCEPT ![c] = At(reg[c], step)]
  BY DEF Goto
<1>2. QED
  BY <1>1, AtStep DEF TypeOK

LEMMA InitIInv == Init => IInv
<1> SUFFICES ASSUME Init PROVE IInv
  OBVIOUS
<1>1. [pc |-> "idle", login |-> None, email |-> None] \in RegState
  BY DEF RegState, Steps
<1>2. TypeOK
  BY <1>1, IdleUpdateType DEF Init, TypeOK
<1>3. QED
  BY <1>2 DEF Init, IInv, Agreed, LoginsRead, LoginsDistinct,
     EmailsDistinct, Registered, IdleUpdate

\* A step of one registration that stores no profile and adds no login.
LEMMA RegStep ==
  ASSUME IInv, NEW c \in Calls, TypeOK', Agreed(c)',
         UNCHANGED <<profiles, upd>>,
         \A d \in Calls \ {c} : reg'[d] = reg[d] /\ authUsers'[d] = authUsers[d],
         failed => failed',
         LoginsDistinct'
  PROVE  IInv'
<1>1. \A d \in Calls \ {c} : Agreed(d)'
  BY DEF IInv, Agreed
<1>2. LoginsRead' /\ EmailsDistinct'
  BY DEF IInv, LoginsRead, EmailsDistinct, Registered
<1>3. QED
  BY <1>1, <1>2 DEF IInv

LEMMA NextIInv == IInv /\ [Next]_vars => IInv'
<1> SUFFICES ASSUME IInv, [Next]_vars PROVE IInv'
  OBVIOUS
<1>0. TypeOK /\ \A c \in Calls : Agreed(c)
  BY DEF IInv
<1>1. CASE UNCHANGED vars
  BY <1>1 DEF vars, IInv, TypeOK, Agreed, LoginsRead, LoginsDistinct, EmailsDistinct, Registered
<1>2. ASSUME NEW c \in Calls, NEW l \in Logins, NEW e \in Emails, Register(c, l, e)
      PROVE  IInv'
  <2> DEFINE step == IF EmailFree(e, None) THEN "checked" ELSE "refused"
             call == [pc |-> "idle", login |-> l, email |-> e]
  <2>1. step \in {"checked", "refused"} /\ step \in Steps /\ call \in RegState
    BY DEF Steps, Over, RegState
  <2>2. call.login = l /\ call.email = e
    OBVIOUS
  <2>3. reg' = [reg EXCEPT ![c] = At(call, step)]
    BY <1>2 DEF Register
  <2> HIDE DEF step, call
  <2>4. /\ reg' \in [Calls -> RegState]
        /\ reg'[c].pc = step
        /\ step \notin Over => reg'[c].login = l /\ reg'[c].email = e
        /\ \A d \in Calls \ {c} : reg'[d] = reg[d]
    BY <1>0, <2>1, <2>2, <2>3, AtStep DEF TypeOK
  <2>5. TypeOK'
    BY <1>0, <1>2, <2>4 DEF Register, TypeOK
  <2>6. Agreed(c)'
    BY <1>0, <1>2, <2>1, <2>4 DEF Register, Agreed, Over
  <2>7. LoginsDistinct'
    BY <1>2 DEF Register, IInv, LoginsDistinct
  <2>8. QED
    BY <1>2, <2>4, <2>5, <2>6, <2>7, RegStep DEF Register
<1>3. ASSUME NEW c \in Calls, CheckLogin(c) \/ LoseAnswer(c) PROVE IInv'
  <2>1. PICK step \in {"adding", "refused"} :
          /\ Goto(c, step)
          /\ step = "adding" => reg[c].pc = "checked" /\ UNCHANGED failed
          /\ step = "refused" => reg[c].pc = "checked" \/ failed'
    BY <1>3 DEF CheckLogin, LoseAnswer
  <2>2. /\ reg' \in [Calls -> RegState]
        /\ reg'[c].pc = step
        /\ step \notin Over => reg'[c].login = reg[c].login /\ reg'[c].email = reg[c].email
        /\ \A d \in Calls \ {c} : reg'[d] = reg[d]
    BY <1>0, <2>1, GotoStep DEF Steps, Over
  <2>3. /\ reg[c].pc \in {"checked", "adding", "added"}
        /\ UNCHANGED <<authUsers, profiles, announced, upd, requests>>
        /\ failed' \in BOOLEAN /\ (failed => failed')
    BY <1>0, <1>3 DEF CheckLogin, LoseAnswer, TypeOK
  <2>4. TypeOK'
    BY <1>0, <2>2, <2>3 DEF TypeOK
  <2>5. Agreed(c)'
    BY <1>0, <2>1, <2>2, <2>3 DEF Agreed, Over
  <2>6. LoginsDistinct'
    BY <2>3 DEF IInv, LoginsDistinct
  <2>7. QED
    BY <2>2, <2>3, <2>4, <2>5, <2>6, RegStep
<1>4. ASSUME NEW c \in Calls, AddUser(c) PROVE IInv'
  <2>1. PICK step \in {"added", "refused"} :
          /\ Goto(c, step)
          /\ step = "added" => authUsers' = [authUsers EXCEPT ![c] = reg[c].login]
          /\ step = "refused" => UNCHANGED authUsers
    BY <1>4 DEF AddUser
  <2>2. /\ reg' \in [Calls -> RegState]
        /\ reg'[c].pc = step
        /\ step \notin Over => reg'[c].login = reg[c].login /\ reg'[c].email = reg[c].email
        /\ \A d \in Calls \ {c} : reg'[d] = reg[d]
    BY <1>0, <2>1, GotoStep DEF Steps, Over
  <2>3. /\ reg[c].pc = "adding" /\ reg[c].login \in Logins
        /\ UNCHANGED <<profiles, announced, upd, requests, failed>>
    BY <1>0, <1>4 DEF AddUser, Agreed
  <2>4. TypeOK'
    BY <1>0, <2>1, <2>2, <2>3 DEF TypeOK
  <2>5. Agreed(c)'
    BY <1>0, <2>1, <2>2, <2>3 DEF Agreed, Over, TypeOK
  <2>6. LoginsDistinct'
    BY <1>0, <1>4 DEF AddUser, LoginFree, IInv, LoginsDistinct, TypeOK
  <2>7. \A d \in Calls \ {c} : authUsers'[d] = authUsers[d]
    BY <1>0, <2>1 DEF TypeOK
  <2>8. QED
    BY <2>2, <2>3, <2>4, <2>5, <2>6, <2>7, RegStep
<1>5. ASSUME NEW c \in Calls, ProfileFails(c) PROVE IInv'
  <2>1. /\ reg[c].pc = "added" /\ Goto(c, "undo")
        /\ UNCHANGED <<authUsers, profiles, announced, upd, requests>>
        /\ failed' \in BOOLEAN /\ (failed => failed')
    BY <1>0, <1>5 DEF ProfileFails, TypeOK
  <2>2. /\ reg' \in [Calls -> RegState]
        /\ reg'[c].pc = "undo"
        /\ reg'[c].login = reg[c].login /\ reg'[c].email = reg[c].email
        /\ \A d \in Calls \ {c} : reg'[d] = reg[d]
    BY <1>0, <2>1, GotoStep DEF Steps, Over
  <2>3. TypeOK'
    BY <1>0, <2>1, <2>2 DEF TypeOK
  <2>4. Agreed(c)'
    BY <1>0, <2>1, <2>2 DEF Agreed
  <2>5. LoginsDistinct'
    BY <2>1 DEF IInv, LoginsDistinct
  <2>6. QED
    BY <2>1, <2>2, <2>3, <2>4, <2>5, RegStep
<1>6. ASSUME NEW c \in Calls, RemoveUser(c) PROVE IInv'
  <2>1. /\ reg[c].pc = "undo" /\ Goto(c, "refused")
        /\ UNCHANGED <<profiles, announced, upd, requests>>
        /\ \/ authUsers' = [authUsers EXCEPT ![c] = None] /\ UNCHANGED failed
           \/ failed' = TRUE /\ UNCHANGED authUsers
    BY <1>6 DEF RemoveUser
  <2>2. /\ reg' \in [Calls -> RegState]
        /\ reg'[c].pc = "refused"
        /\ \A d \in Calls \ {c} : reg'[d] = reg[d]
    BY <1>0, <2>1, GotoStep DEF Steps, Over
  <2>3. TypeOK'
    <3>1. failed' \in BOOLEAN
      BY <1>0, <2>1 DEF TypeOK
    <3>2. QED
      BY <1>0, <2>1, <2>2, <3>1 DEF TypeOK
  <2>4. Agreed(c)'
    BY <1>0, <2>1, <2>2 DEF Agreed, TypeOK
  <2>5. LoginsDistinct'
    BY <1>0, <2>1 DEF IInv, LoginsDistinct, TypeOK
  <2>6. \A d \in Calls \ {c} : authUsers'[d] = authUsers[d]
    BY <1>0, <2>1 DEF TypeOK
  <2>7. QED
    BY <2>1, <2>2, <2>3, <2>4, <2>5, <2>6, RegStep
<1>7. ASSUME NEW c \in Calls, NEW a \in Addresses, StoreProfile(c, a) PROVE IInv'
  <2> DEFINE p == [login |-> reg[c].login, email |-> reg[c].email, address |-> a]
  <2>1. p \in Profile /\ p.login = reg[c].login /\ p.email = reg[c].email
    BY <1>0, <1>7 DEF StoreProfile, Agreed, Profile
  <2>2. profiles' = [profiles EXCEPT ![c] = p]
    BY <1>7 DEF StoreProfile
  <2> HIDE DEF p
  <2>3. PICK step \in {"registered", "undo"} :
          /\ Goto(c, step)
          /\ step = "registered" => UNCHANGED failed
          /\ step = "undo" => failed' = TRUE
    BY <1>7 DEF StoreProfile
  <2>4. /\ reg' \in [Calls -> RegState]
        /\ reg'[c].pc = step
        /\ step \notin Over => reg'[c].login = reg[c].login /\ reg'[c].email = reg[c].email
        /\ \A d \in Calls \ {c} : reg'[d] = reg[d]
    BY <1>0, <2>3, GotoStep DEF Steps, Over
  <2>5. /\ reg[c].pc = "added"
        /\ UNCHANGED <<authUsers, upd, requests>>
        /\ announced' = announced \union {c}
    BY <1>7 DEF StoreProfile
  <2>6. TypeOK'
    <3>1. failed' \in BOOLEAN
      BY <1>0, <2>3 DEF TypeOK
    <3>2. QED
      BY <1>0, <2>1, <2>2, <2>4, <2>5, <3>1 DEF TypeOK
  <2>7. /\ profiles[c] = None /\ profiles'[c] = p /\ p # None
        /\ \A d \in Calls \ {c} : profiles'[d] = profiles[d]
    BY <1>0, <2>1, <2>2, <2>5, RegistrationAssumption DEF Agreed, TypeOK
  <2>8. Agreed(c)'
    BY <1>0, <2>1, <2>3, <2>4, <2>5, <2>7 DEF Agreed, Over
  <2>9. \A d \in Calls \ {c} : Agreed(d)'
    BY <1>0, <2>3, <2>4, <2>5, <2>7 DEF Agreed
  <2>10. LoginsRead' /\ LoginsDistinct'
    BY <2>5, <2>7 DEF IInv, LoginsRead, LoginsDistinct, Registered
  <2>11. EmailsDistinct'
    BY <1>0, <1>7, <2>1, <2>2, <2>7
    DEF StoreProfile, Storable, EmailFree, IInv, EmailsDistinct, Registered, TypeOK
  <2>12. QED
    BY <2>6, <2>8, <2>9, <2>10, <2>11 DEF IInv
<1>8. CASE Crash
  <2> DEFINE Left(c) == IF reg[c].pc \in {"idle"} \union Over THEN reg[c] ELSE At(reg[c], "lost")
  <2>1. reg' = [c \in Calls |-> Left(c)]
    BY <1>8 DEF Crash
  <2>2. \A c \in Calls : /\ Left(c) \in RegState
                         /\ reg[c].pc \in {"idle"} \union Over => Left(c) = reg[c]
                         /\ reg[c].pc \notin {"idle"} \union Over => Left(c).pc = "lost"
    BY <1>0, AtStep DEF TypeOK, Steps, Over
  <2> HIDE DEF Left
  <2>3. /\ failed' = TRUE
        /\ upd' = [x \in Updates |-> IdleUpdate]
        /\ UNCHANGED <<authUsers, profiles, announced, requests>>
    BY <1>8 DEF Crash
  <2>4. TypeOK'
    <3>1. reg' \in [Calls -> RegState] /\ upd' \in [Updates -> UpdState]
      BY <2>1, <2>2, <2>3, IdleUpdateType
    <3>2. QED
      BY <1>0, <2>3, <3>1 DEF TypeOK
  <2>5. ASSUME NEW c \in Calls PROVE Agreed(c)'
    <3>1. reg'[c] = Left(c)
      BY <2>1
    <3>2. QED
      BY <1>0, <2>2, <2>3, <3>1 DEF Agreed, Over
  <2>6. LoginsRead' /\ LoginsDistinct' /\ EmailsDistinct'
    BY <2>3 DEF IInv, LoginsRead, LoginsDistinct, EmailsDistinct, Registered, IdleUpdate
  <2>7. QED
    BY <2>4, <2>5, <2>6 DEF IInv
<1>9. ASSUME NEW x \in Updates, NEW user \in Calls, NEW r \in Requests, NEW new \in Change,
             BeginUpdate(x, user, r, new)
      PROVE  IInv'
  <2>1. TypeOK'
    BY <1>0, <1>9 DEF BeginUpdate, TypeOK, UpdState
  <2>2. LoginsRead'
    BY <1>0, <1>9 DEF BeginUpdate, IInv, LoginsRead, Registered, TypeOK, UpdState
  <2>3. QED
    BY <1>9, <2>1, <2>2 DEF BeginUpdate, IInv, Agreed, LoginsDistinct, EmailsDistinct, Registered
<1>10. ASSUME NEW x \in Updates, ReadProfile(x) PROVE IInv'
  <2>1. upd[x].user \in Calls /\ profiles[upd[x].user] \in Profile
    BY <1>0, <1>10 DEF ReadProfile, IInv, LoginsRead, Registered, TypeOK, UpdState
  <2>2. TypeOK'
    <3> DEFINE new == [upd[x] EXCEPT !.pc = "read", !.row = profiles[upd[x].user]]
    <3>1. new \in UpdState
      BY <1>0, <2>1 DEF TypeOK, UpdState
    <3>2. upd' = [upd EXCEPT ![x] = new]
      BY <1>10 DEF ReadProfile
    <3>3. QED
      BY <1>0, <1>10, <3>1, <3>2 DEF ReadProfile, TypeOK
  <2>3. LoginsRead'
    BY <1>0, <1>10, <2>1 DEF ReadProfile, IInv, LoginsRead, Registered, TypeOK, UpdState
  <2>4. QED
    BY <1>10, <2>2, <2>3 DEF ReadProfile, IInv, Agreed, LoginsDistinct, EmailsDistinct, Registered
<1>11. ASSUME NEW x \in Updates, StoreUpdate(x) PROVE IInv'
  <2> DEFINE u == upd[x].user
             p == Overlay(upd[x].new, upd[x].row)
  <2>1. u \in Registered /\ u \in Calls /\ upd[x].row \in Profile /\ upd[x].row.login = profiles[u].login
    BY <1>11 DEF StoreUpdate, IInv, LoginsRead, Registered
  <2>2. p \in Profile /\ p.login = profiles[u].login
    BY <1>0, <2>1 DEF Overlay, Profile, TypeOK, UpdState, Change
  <2>3. p # None
    BY <2>2, RegistrationAssumption
  <2>4. /\ profiles' = [profiles EXCEPT ![u] = p]
        /\ UNCHANGED <<reg, authUsers, announced, failed>>
        /\ upd' = [upd EXCEPT ![x] = IdleUpdate]
        /\ \A d \in Registered \ {u} : profiles[d].email # p.email
    BY <1>11 DEF StoreUpdate, UpdatedEmail, EmailFree
  <2> HIDE DEF u, p
  <2>5. TypeOK'
    <3>1. upd[x].request \in Requests /\ requests' = requests \union {upd[x].request}
      BY <1>11 DEF StoreUpdate, IInv, LoginsRead
    <3>2. profiles' \in [Calls -> Profile \union {None}]
      BY <1>0, <2>2, <2>4 DEF TypeOK
    <3>3. upd' \in [Updates -> UpdState]
      BY <1>0, <2>4, IdleUpdateType DEF TypeOK
    <3>4. QED
      BY <1>0, <2>4, <3>1, <3>2, <3>3 DEF TypeOK
  <2>6. Registered' = Registered /\ profiles'[u] = p /\ \A d \in Calls \ {u} : profiles'[d] = profiles[d]
    BY <1>0, <2>1, <2>3, <2>4 DEF Registered, TypeOK
  <2>7. \A c \in Calls : Agreed(c)'
    BY <1>0, <2>1, <2>2, <2>4, <2>6 DEF Agreed, Registered
  <2>8. LoginsRead'
    BY <1>0, <2>1, <2>2, <2>4, <2>6 DEF IInv, LoginsRead, IdleUpdate, TypeOK, UpdState, Registered
  <2>9. LoginsDistinct' /\ EmailsDistinct'
    BY <2>1, <2>4, <2>6 DEF IInv, LoginsDistinct, EmailsDistinct, Registered
  <2>10. QED
    BY <2>5, <2>7, <2>8, <2>9 DEF IInv
<1>12. ASSUME NEW x \in Updates, UpdateFails(x) PROVE IInv'
  <2>1. TypeOK'
    BY <1>0, <1>12, IdleUpdateType DEF UpdateFails, TypeOK
  <2>2. LoginsRead'
    BY <1>0, <1>12 DEF UpdateFails, IInv, LoginsRead, Registered, TypeOK, UpdState, IdleUpdate
  <2>3. QED
    BY <1>12, <2>1, <2>2 DEF UpdateFails, IInv, Agreed, LoginsDistinct, EmailsDistinct, Registered
<1>13. QED
  BY <1>1, <1>2, <1>3, <1>4, <1>5, <1>6, <1>7, <1>8, <1>9, <1>10, <1>11, <1>12
  DEF Next, Progress, AddLogin, AddProfile, Update

LEMMA IInvForever == Spec => []IInv
  BY InitIInv, NextIInv, PTL DEF Spec

\* Registrations and profiles stay typed; a profile an update has read is one.
THEOREM RegistrationTypeCorrect == Spec => []TypeOK
<1>1. IInv => TypeOK
  BY DEF IInv
<1>2. QED
  BY <1>1, IInvForever, PTL

\* Who has a profile has his login in Auth, unless he was told that his
\* registration had failed, and no two users have the same login, whichever
\* requests and transactions fail, commits that take effect and report an error
\* included, and whatever registrations overlap.
THEOREM RegisteredUsersCanLogIn == Spec => []RegisteredCanLogIn
<1>1. IInv => RegisteredCanLogIn
  BY DEF IInv, Agreed, LoginsDistinct, Registered, RegisteredCanLogIn
<1>2. QED
  BY <1>1, IInvForever, PTL

\* No registration and no update, however they overlap, gives two profiles the
\* same email.
THEOREM ProfileEmailsDistinct == Spec => []EmailsDistinct
<1>1. IInv => EmailsDistinct
  BY DEF IInv
<1>2. QED
  BY <1>1, IInvForever, PTL

\* As long as no request between the two services fails, a login without a
\* profile belongs to a registration under way.
THEOREM NoLoginIsOrphaned == Spec => []NoOrphanLogin
<1>1. IInv => NoOrphanLogin
  <2> SUFFICES ASSUME IInv, NEW c \in Calls, ~failed, authUsers[c] # None, c \notin Registered
               PROVE  reg[c].pc \in {"added", "undo"}
    BY DEF NoOrphanLogin
  <2>1. reg[c].pc # "registered"
    BY DEF IInv, Agreed, Registered
  <2>2. QED
    BY <2>1 DEF IInv, Agreed, TypeOK, RegState, Steps, Over
<1>2. QED
  BY <1>1, IInvForever, PTL
============================================================================
