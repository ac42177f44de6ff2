--------------------------- MODULE ServicesProofs ---------------------------
(***************************************************************************)
(* Theorems about Services, for any number of requests, sessions, users,   *)
(* lots and readers, any lifetimes and any number of failures.             *)
(*                                                                         *)
(* The three parts of the state, the requests of a process, the sessions   *)
(* of Auth and the queries of the Lot service, have an invariant each, and *)
(* the end of the process keeps all three.                                 *)
(***************************************************************************)
EXTENDS Services, SequenceTheorems, TLAPS

CommandStages == {"token", "id", "body", "check", "seen", "peer", "tx"}
CallState == [todo : Seq(CommandStages \union {"read"}),
              flaw : {None, "token", "id", "body"}, open : BOOLEAN]

\* An open transaction is at its last stage and has a new id.
CallOK(c) ==
  /\ call[c].todo # <<>> => endpoint \in DOMAIN HandlerOf
  /\ endpoint \in Commands => call[c].todo \in Seq(CommandStages)
  /\ call[c].open => /\ call[c].todo # <<>> /\ Head(call[c].todo) = "tx"
                     /\ RequestOf[c] \notin recorded

OpenDistinct ==
  \A c, d \in Calls : call[c].open /\ call[d].open /\ c # d => RequestOf[c] # RequestOf[d]

\* What is recorded has been done, once.
RecordedOnce ==
  /\ done \in [Requests -> Nat]
  /\ \A r \in Requests : done[r] = IF r \in recorded THEN 1 ELSE 0

\* Who is answered 200 or 409 is recorded.
Answered200 ==
  /\ DOMAIN answer = Requests
  /\ \A r \in Requests : endpoint \in Commands /\ answer[r] \in {200, 409} => r \in recorded

Requesting ==
  /\ call \in [Calls -> CallState]
  /\ \A c \in Calls : CallOK(c)
  /\ OpenDistinct /\ RecordedOnce /\ Answered200

----------------------------------------------------------------------------
(* Requests.                                                               *)

\* No refusal has the status of success or repetition.
LEMMA ErrorCodes ==
  ASSUME endpoint \in DOMAIN HandlerOf, NEW e \in {"token", "id", "body", "refused", "missing", "forbidden"}
  PROVE  StatusOf(e) \notin {200, 409}
<1>1. Service \in {"lot", "billing", "delivery", "user", "notification"}
  BY DEF Service, ServiceOf, HandlerOf
<1>2. CASE Service = "lot"
  BY <1>2 DEF StatusOf, CodesOf, LotCodes
<1>3. CASE Service = "billing"
  BY <1>3 DEF StatusOf, CodesOf, BillingCodes
<1>4. CASE Service = "delivery"
  BY <1>4 DEF StatusOf, CodesOf, DeliveryCodes
<1>5. CASE Service = "user"
  BY <1>5 DEF StatusOf, CodesOf, UserCodes
<1>6. CASE Service = "notification"
  BY <1>6 DEF StatusOf, CodesOf, NotificationCodes
<1>7. QED
  BY <1>1, <1>2, <1>3, <1>4, <1>5, <1>6

\* The stages of a handler; a command reads nothing back.
LEMMA HandlerStages ==
  ASSUME NEW e \in DOMAIN HandlerOf
  PROVE  /\ HandlerOf[e] \in Seq(CommandStages \union {"read"})
         /\ e \in Commands => HandlerOf[e] \in Seq(CommandStages)
<1>1. CreateLot \in Seq(CommandStages)
  BY DEF CreateLot, CommandStages
<1>2. CreateBid \in Seq(CommandStages)
  BY DEF CreateBid, CommandStages
<1>3. TopUp \in Seq(CommandStages)
  BY DEF TopUp, CommandStages
<1>4. Payment \in Seq(CommandStages)
  BY DEF Payment, CommandStages
<1>5. LotSent \in Seq(CommandStages)
  BY DEF LotSent, CommandStages
<1>6. LotReceived \in Seq(CommandStages)
  BY DEF LotReceived, CommandStages
<1>7. UpdateProfile \in Seq(CommandStages)
  BY DEF UpdateProfile, CommandStages
<1>8. <<"token", "read">> \in Seq(CommandStages \union {"read"})
  BY DEF CommandStages
<1>9. HandlerOf[e] \in Seq(CommandStages) \/ HandlerOf[e] = <<"token", "read">>
  BY <1>1, <1>2, <1>3, <1>4, <1>5, <1>6, <1>7
  DEF HandlerOf, AccountStatus, LotDelivery, UserProfile, Notifications
<1>10. HandlerOf[e] = <<"token", "read">> => e \notin Commands
  <2>1. Len(<<"token", "read">>) = 2 /\ <<"token", "read">>[2] # "tx"
    OBVIOUS
  <2>2. QED
    BY <2>1 DEF Commands
<1>11. QED
  BY <1>8, <1>9, <1>10, SeqMonotonic

LEMMA NoCallType == NoCall \in CallState
  BY EmptySeq DEF NoCall, CallState

LEMMA RequestOfCall == \A c \in Calls : RequestOf[c] \in Requests
  BY DEF Requests

LEMMA InitRequesting == ProcessInit => Requesting
<1> SUFFICES ASSUME ProcessInit PROVE Requesting
  OBVIOUS
<1>1. call \in [Calls -> CallState]
  BY NoCallType DEF ProcessInit
<1>2. \A c \in Calls : call[c].todo = <<>> /\ ~call[c].open
  BY DEF ProcessInit, NoCall
<1>3. <<>> \in Seq(CommandStages)
  BY EmptySeq
<1>4. DOMAIN answer = Requests /\ \A r \in Requests : answer[r] \notin {200, 409}
  BY ProcessAssumption DEF ProcessInit
<1>5. \A c \in Calls : CallOK(c)
  BY <1>2, <1>3 DEF CallOK
<1>6. QED
  BY <1>1, <1>2, <1>4, <1>5 DEF ProcessInit, Requesting, OpenDistinct, RecordedOnce, Answered200

\* The end of a request: what it is told is true.
LEMMA RespondStep ==
  ASSUME Requesting, NEW c \in Calls, NEW code, Respond(c, code),
         TxUnchanged \/ (call[c].open /\ Committed(c)),
         endpoint \in Commands /\ code \in {200, 409} => RequestOf[c] \in recorded'
  PROVE  Requesting'
<1>1. endpoint' = endpoint /\ call' = [call EXCEPT ![c] = NoCall]
  BY DEF Respond
<1>2. call' \in [Calls -> CallState] /\ call'[c] = NoCall /\ \A d \in Calls \ {c} : call'[d] = call[d]
  BY <1>1, NoCallType DEF Requesting
<1>3. NoCall.todo = <<>> /\ ~NoCall.open /\ <<>> \in Seq(CommandStages)
  BY EmptySeq DEF NoCall
<1>4. recorded \subseteq recorded' /\ recorded' \subseteq recorded \union {RequestOf[c]}
  BY DEF TxUnchanged, Committed
<1>5. \A d \in Calls : call'[d].open => d # c /\ call[d].open /\ RequestOf[d] \notin recorded'
  <2>1. CASE TxUnchanged
    BY <1>2, <1>3, <2>1 DEF TxUnchanged, Requesting, CallOK
  <2>2. CASE call[c].open /\ Committed(c)
    BY <1>2, <1>3, <1>4, <2>2 DEF Requesting, CallOK, OpenDistinct
  <2>3. QED
    BY <2>1, <2>2
<1>6. done' \in [Requests -> Nat] /\ \A r \in Requests : done'[r] = IF r \in recorded' THEN 1 ELSE 0
  <2>1. CASE TxUnchanged
    BY <2>1 DEF TxUnchanged, Requesting, RecordedOnce
  <2>2. CASE call[c].open /\ Committed(c)
    BY <2>2, RequestOfCall DEF Committed, Requesting, CallOK, RecordedOnce
  <2>3. QED
    BY <2>1, <2>2
<1>7. DOMAIN answer' = Requests
  <2>1. CASE code = 500
    BY <2>1 DEF Respond, Requesting, Answered200
  <2>2. CASE code # 500
    <3>1. answer' = [answer EXCEPT ![RequestOf[c]] = code]
      BY <2>2 DEF Respond
    <3>2. QED
      BY <3>1 DEF Requesting, Answered200
  <2>3. QED
    BY <2>1, <2>2
<1>8. \A r \in Requests : answer'[r] = answer[r] \/ (r = RequestOf[c] /\ answer'[r] = code)
  BY DEF Respond, Requesting, Answered200
<1>9. \A r \in Requests : endpoint' \in Commands /\ answer'[r] \in {200, 409} => r \in recorded'
  BY <1>1, <1>4, <1>8 DEF Requesting, Answered200
<1>10. \A d \in Calls : CallOK(d)'
  BY <1>1, <1>2, <1>3, <1>5 DEF Requesting, CallOK
<1>11. OpenDistinct'
  BY <1>2, <1>5 DEF Requesting, OpenDistinct
<1>12. QED
  BY <1>2, <1>6, <1>7, <1>9, <1>10, <1>11 DEF Requesting, RecordedOnce, Answered200

\* A request that passes a check.
LEMMA ProceedStep ==
  ASSUME Requesting, NEW c \in Calls, Proceed(c), TxUnchanged,
         call[c].todo # <<>>, Head(call[c].todo) # "tx"
  PROVE  Requesting'
<1> DEFINE new == [call[c] EXCEPT !.todo = Tail(call[c].todo)]
<1>1. Tail(call[c].todo) \in Seq(CommandStages \union {"read"})
      /\ (endpoint \in Commands => Tail(call[c].todo) \in Seq(CommandStages))
  BY HeadTailProperties DEF Requesting, CallState, CallOK
<1>2. new \in CallState /\ new.todo = Tail(call[c].todo) /\ new.open = call[c].open
  <2>1. call[c] \in CallState
    BY DEF Requesting
  <2>2. QED
    BY <1>1, <2>1 DEF CallState
<1>3. call' = [call EXCEPT ![c] = new] /\ UNCHANGED <<endpoint, answer, recorded, done>>
  BY DEF Proceed, TxUnchanged
<1> HIDE DEF new
<1>4. call'[c] = new /\ call' \in [Calls -> CallState] /\ \A d \in Calls \ {c} : call'[d] = call[d]
  BY <1>2, <1>3 DEF Requesting
<1>5. ~call[c].open
  BY DEF Requesting, CallOK
<1>6. \A d \in Calls : CallOK(d)'
  BY <1>1, <1>2, <1>3, <1>4, <1>5 DEF Requesting, CallOK
<1>7. QED
  BY <1>2, <1>3, <1>4, <1>5, <1>6 DEF Requesting, OpenDistinct, RecordedOnce, Answered200

LEMMA CallStepRequesting ==
  ASSUME Requesting, NEW c \in Calls, CallStep(c)
  PROVE  Requesting'
<1>1. ASSUME NEW flaw \in {None, "token", "id", "body"}, Send(c, flaw) PROVE Requesting'
  <2> DEFINE new == [todo |-> HandlerOf[endpoint], flaw |-> flaw, open |-> FALSE]
  <2>1. /\ endpoint \in DOMAIN HandlerOf /\ call' = [call EXCEPT ![c] = new]
        /\ UNCHANGED <<endpoint, answer, recorded, done>>
    BY <1>1 DEF Send, TxUnchanged
  <2>2. new \in CallState /\ ~new.open /\ (endpoint \in Commands => new.todo \in Seq(CommandStages))
    BY <2>1, HandlerStages DEF CallState
  <2> HIDE DEF new
  <2>3. call'[c] = new /\ call' \in [Calls -> CallState] /\ \A d \in Calls \ {c} : call'[d] = call[d]
    BY <2>1, <2>2 DEF Requesting
  <2>4. \A d \in Calls : CallOK(d)'
    BY <2>1, <2>2, <2>3 DEF Requesting, CallOK
  <2>5. QED
    BY <2>1, <2>2, <2>3, <2>4 DEF Requesting, OpenDistinct, RecordedOnce, Answered200
<1>2. ASSUME NEW stage, At(c, stage) PROVE call[c].todo # <<>> /\ Head(call[c].todo) = stage
             /\ endpoint \in DOMAIN HandlerOf
  BY <1>2 DEF At, Requesting, CallOK
<1>3. ASSUME At(c, "check") \/ At(c, "peer") \/ At(c, "tx") \/ At(c, "read"), Refuse(c), TxUnchanged
      PROVE  Requesting'
  <2>1. PICK e \in {"refused", "missing", "forbidden"} : Respond(c, StatusOf(e))
    BY <1>3 DEF Refuse
  <2>2. StatusOf(e) \notin {200, 409}
    BY <1>2, <1>3, <2>1, ErrorCodes
  <2>3. QED
    BY <1>3, <2>1, <2>2, RespondStep
<1>4. CASE CheckRequest(c)
  <2>1. PICK stage \in {"token", "id", "body"} :
          At(c, stage) /\ (Respond(c, StatusOf(stage)) \/ Proceed(c))
    BY <1>4 DEF CheckRequest
  <2>2. TxUnchanged /\ StatusOf(stage) \notin {200, 409}
    BY <1>2, <1>4, <2>1, ErrorCodes DEF CheckRequest
  <2>3. QED
    BY <1>2, <2>1, <2>2, RespondStep, ProceedStep
<1>5. CASE CheckCommand(c)
  BY <1>2, <1>3, <1>5, ProceedStep DEF CheckCommand
<1>6. CASE CheckSeen(c)
  <2>1. CASE RequestOf[c] \in recorded
    <3>1. Respond(c, StatusOf("processed")) /\ TxUnchanged /\ RequestOf[c] \in recorded'
      BY <1>6, <2>1 DEF CheckSeen, TxUnchanged
    <3>2. QED
      BY <3>1, RespondStep
  <2>2. CASE RequestOf[c] \notin recorded
    BY <1>2, <1>6, <2>2, ProceedStep DEF CheckSeen
  <2>3. QED
    BY <2>1, <2>2
<1>7. CASE Read(c)
  <2>1. endpoint \notin Commands
    <3>1. call[c].todo # <<>> /\ Head(call[c].todo) = "read"
      BY <1>2, <1>7 DEF Read
    <3>2. endpoint \in Commands => Head(call[c].todo) \in CommandStages
      BY <3>1, HeadTailProperties DEF Requesting, CallOK
    <3>3. QED
      BY <3>1, <3>2 DEF CommandStages
  <2>2. TxUnchanged /\ (Respond(c, 200) \/ Refuse(c)) /\ At(c, "read")
    BY <1>7 DEF Read
  <2>3. QED
    BY <1>3, <2>1, <2>2, RespondStep
<1>8. CASE BeginCommand(c)
  <2>1. CASE RequestOf[c] \in recorded
    <3>1. Respond(c, StatusOf("processed")) /\ TxUnchanged /\ RequestOf[c] \in recorded'
      BY <1>8, <2>1 DEF BeginCommand, TxUnchanged
    <3>2. QED
      BY <3>1, RespondStep
  <2>2. CASE RequestOf[c] \notin recorded
    <3> DEFINE new == [call[c] EXCEPT !.open = TRUE]
    <3>1. /\ call' = [call EXCEPT ![c] = new]
          /\ UNCHANGED <<endpoint, answer, recorded, done>>
      BY <1>8, <2>2 DEF BeginCommand, TxUnchanged
    <3>2. new \in CallState /\ new.todo = call[c].todo
      <4>1. call[c] \in CallState
        BY DEF Requesting
      <4>2. QED
        BY <4>1 DEF CallState
    <3> HIDE DEF new
    <3>3. call'[c] = new /\ call' \in [Calls -> CallState] /\ \A d \in Calls \ {c} : call'[d] = call[d]
      BY <3>1, <3>2 DEF Requesting
    <3>4. /\ call[c].todo # <<>> /\ Head(call[c].todo) = "tx"
          /\ \A d \in Calls : call[d].open => RequestOf[d] # RequestOf[c]
      BY <1>2, <1>8 DEF BeginCommand
    <3>5. \A d \in Calls : CallOK(d)'
      BY <2>2, <3>1, <3>2, <3>3, <3>4 DEF Requesting, CallOK
    <3>6. OpenDistinct'
      BY <3>3, <3>4 DEF Requesting, OpenDistinct
    <3>7. QED
      BY <3>1, <3>3, <3>5, <3>6 DEF Requesting, RecordedOnce, Answered200
  <2>3. QED
    BY <2>1, <2>2
<1>9. CASE CommitCommand(c)
  <2>1. Respond(c, 200) /\ call[c].open /\ Committed(c) /\ RequestOf[c] \in recorded'
    BY <1>9 DEF CommitCommand, Committed
  <2>2. QED
    BY <2>1, RespondStep
<1>10. CASE RefuseCommand(c)
  BY <1>3, <1>10 DEF RefuseCommand
<1>11. CASE DatabaseAway(c) \/ RequestFails(c)
  <2>1. Respond(c, 500) /\ (TxUnchanged \/ (call[c].open /\ Committed(c)))
    BY <1>11 DEF DatabaseAway, RequestFails
  <2>2. QED
    BY <2>1, RespondStep
<1>12. QED
  BY <1>1, <1>4, <1>5, <1>6, <1>7, <1>8, <1>9, <1>10, <1>11 DEF CallStep, Serve

LEMMA GoneRequesting == Requesting /\ Gone => Requesting'
<1> SUFFICES ASSUME Requesting, Gone PROVE Requesting'
  OBVIOUS
<1>1. call' \in [Calls -> CallState] /\ UNCHANGED <<endpoint, recorded, done, answer>>
  BY NoCallType DEF Gone
<1>2. \A c \in Calls : call'[c].todo = <<>> /\ ~call'[c].open
  BY DEF Gone, NoCall
<1>3. <<>> \in Seq(CommandStages)
  BY EmptySeq
<1>4. \A c \in Calls : CallOK(c)'
  BY <1>2, <1>3 DEF CallOK
<1>5. QED
  BY <1>1, <1>2, <1>4 DEF Requesting, OpenDistinct, RecordedOnce, Answered200

LEMMA NextRequesting == Requesting /\ [Next]_allVars => Requesting'
<1> SUFFICES ASSUME Requesting, [Next]_allVars PROVE Requesting'
  OBVIOUS
<1>1. ASSUME UNCHANGED <<endpoint, callVars>> PROVE Requesting'
  BY <1>1 DEF Requesting, CallOK, OpenDistinct, RecordedOnce, Answered200, callVars
<1>2. ASSUME Ends \/ Gone PROVE Requesting'
  BY <1>2, GoneRequesting DEF Ends, StartFails, ProbeFails, Killed, FatalAfterShutdown
<1>3. CASE ProcessStep
  BY <1>1, <1>3, CallStepRequesting
  DEF ProcessStep, Boot, Start, NextStartStep, PingSucceeds, PingFails, Shutdown,
      DatabaseFails, DatabaseRecovers
<1>4. CASE UNCHANGED processVars
  BY <1>1, <1>4 DEF processVars
<1>5. QED
  BY <1>2, <1>3, <1>4 DEF Next, ProcessEnds, RuntimeEndsIt, allVars

----------------------------------------------------------------------------
(* Sessions.                                                               *)

SessionType ==
  /\ users \subseteq Users
  /\ sessions \in [Sessions -> [user : Users \union {NoUser}, until : Nat]]
  /\ issued \subseteq Sessions
  /\ login \in [Sessions -> Users \union {NoUser}]
  /\ auth \in [AuthCalls -> [pc : {"idle", "asked", "found", "known", "refreshed"},
                             session : Sessions \union {NoAuth.session},
                             user : Users \union {NoUser}, since : Nat]]
  /\ ended \in [Sessions -> Nat]
  /\ now \in 0 .. MaxTime
  /\ \A t \in tokens : t.session \in Sessions /\ t.exp \in Nat

\* A session that is used was issued and its login is over.
Used(s) == s \in issued /\ login[s] = NoUser

\* A session is stored once, lives no longer than its TTL, and has not ended
\* as long as its user is there.
SessionOK(s) ==
  /\ sessions[s].user # NoUser => Used(s)
  /\ login[s] # NoUser => s \in issued
  /\ sessions[s].until <= now + SessionTTL
  /\ s \notin issued => ended[s] = Never
  /\ sessions[s].user \in users \/ login[s] \in users => ended[s] = Never

\* A request that has found a session was made before the session's end.
AuthOK(x) ==
  auth[x].pc # "idle" =>
    LET s == auth[x].session IN
    /\ s \in Sessions /\ Used(s) /\ auth[x].since <= now
    /\ auth[x].pc = "found" =>
         /\ auth[x].user # NoUser
         /\ auth[x].user \in users => auth[x].since <= EndOf(s)
    /\ auth[x].pc \in {"known", "refreshed"} => auth[x].since <= EndOf(s)

TokenOK(t) ==
  /\ Used(t.session)
  /\ t.exp <= now + TokenTTL
  /\ t.exp <= EndOf(t.session) + WriteTimeout + TokenTTL

SessionsOK ==
  /\ SessionType
  /\ \A s \in Sessions : SessionOK(s)
  /\ \A x \in AuthCalls : AuthOK(x)
  /\ \A t \in tokens : TokenOK(t)

LEMMA EndIsNat ==
  ASSUME NEW s \in Sessions
  PROVE  (SessionType => EndOf(s) \in Nat) /\ (SessionType' => EndOf(s)' \in Nat)
BY DEF SessionType, EndOf, Earlier

LEMMA Lifetimes ==
  SessionTTL \in Nat /\ TokenTTL \in Nat /\ WriteTimeout \in Nat /\ MaxTime \in Nat /\ Never \in Nat
BY SessionAssumption DEF Never

LEMMA NoAuthType ==
  /\ NoAuth.pc = "idle" /\ NoAuth.user = NoUser /\ NoAuth.since = 0
  /\ NoAuth \in [pc : {"idle", "asked", "found", "known", "refreshed"},
                 session : Sessions \union {NoAuth.session},
                 user : Users \union {NoUser}, since : Nat]
BY DEF NoAuth

LEMMA InitSessions == SessionInit => SessionsOK
<1> SUFFICES ASSUME SessionInit PROVE SessionsOK
  OBVIOUS
<1>1. NoSession \in [user : Users \union {NoUser}, until : Nat] /\ NoSession.user = NoUser
      /\ NoSession.until = 0
  BY DEF NoSession
<1>2. SessionType
  BY <1>1, NoAuthType, Lifetimes DEF SessionInit, SessionType
<1>3. \A s \in Sessions : SessionOK(s)
  BY <1>1, Lifetimes, SessionAssumption DEF SessionInit, SessionOK
<1>4. QED
  BY <1>2, <1>3, NoAuthType DEF SessionInit, SessionsOK, AuthOK

\* A step that ends no session before its time, keeps what was used, and leaves
\* the requests under way alone.
LEMMA SessionStep ==
  ASSUME SessionsOK, SessionType', \A s \in Sessions : SessionOK(s)',
         users' \subseteq users, now <= now',
         \A s \in Sessions : Used(s) => Used(s)',
         \A s \in Sessions : Used(s) => EndOf(s) <= EndOf(s)' \/ now <= EndOf(s)'
  PROVE  /\ \A x \in AuthCalls : auth'[x] = auth[x] => AuthOK(x)'
         /\ \A t \in tokens : TokenOK(t)'
<1>1. ASSUME NEW x \in AuthCalls, auth'[x] = auth[x] PROVE AuthOK(x)'
  <2> SUFFICES ASSUME auth[x].pc # "idle" PROVE AuthOK(x)'
    BY <1>1 DEF AuthOK
  <2>0. PICK s : s = auth[x].session
    OBVIOUS
  <2>1. s \in Sessions /\ Used(s) /\ auth[x].since <= now /\ auth[x].since \in Nat
    BY <2>0 DEF SessionsOK, AuthOK, SessionType
  <2>2. EndOf(s) \in Nat /\ EndOf(s)' \in Nat /\ now \in Nat /\ now' \in Nat
    BY <1>1, <2>1, EndIsNat DEF SessionsOK, SessionType
  <2>3. auth[x].since <= EndOf(s) => auth[x].since <= EndOf(s)'
    BY <1>1, <2>1, <2>2
  <2>4. QED
    BY <1>1, <2>0, <2>1, <2>2, <2>3 DEF SessionsOK, AuthOK
<1>2. ASSUME NEW t \in tokens PROVE TokenOK(t)'
  <2>1. t.session \in Sessions /\ t.exp \in Nat /\ Used(t.session) /\ TokenOK(t)
    BY DEF SessionsOK, SessionType, TokenOK
  <2>2. EndOf(t.session) \in Nat /\ EndOf(t.session)' \in Nat /\ now \in Nat /\ now' \in Nat
    BY <2>1, EndIsNat DEF SessionsOK, SessionType
  <2>3. QED
    BY <2>1, <2>2, Lifetimes DEF TokenOK
<1>3. QED
  BY <1>1, <1>2

\* A step that changes nothing but one auth request.
LEMMA AuthStep ==
  ASSUME SessionsOK, NEW x \in AuthCalls, UNCHANGED <<users, sessions, issued, login, tokens, ended, now>>,
         SessionType', AuthOK(x)', \A y \in AuthCalls \ {x} : auth'[y] = auth[y]
  PROVE  SessionsOK'
<1>1. \A s \in Sessions : EndOf(s)' = EndOf(s) /\ SessionOK(s)' /\ (Used(s) => Used(s)')
  BY DEF SessionsOK, SessionOK, Used, EndOf
<1>2. \A s \in Sessions : EndOf(s) <= EndOf(s)'
  BY <1>1, EndIsNat DEF SessionsOK
<1>3. now <= now'
  BY DEF SessionsOK, SessionType
<1>4. /\ \A y \in AuthCalls : auth'[y] = auth[y] => AuthOK(y)'
      /\ \A t \in tokens : TokenOK(t)'
  BY <1>1, <1>2, <1>3, SessionStep
<1>5. QED
  BY <1>1, <1>4 DEF SessionsOK

\* A step that leaves the auth requests and the tokens alone.
LEMMA LoginStep ==
  ASSUME SessionsOK, UNCHANGED <<auth, tokens, now>>, SessionType',
         users' \subseteq users, \A s \in Sessions : SessionOK(s)',
         \A s \in Sessions : Used(s) => Used(s)' /\ (EndOf(s) <= EndOf(s)' \/ now <= EndOf(s)')
  PROVE  SessionsOK'
<1>1. now <= now'
  BY DEF SessionsOK, SessionType
<1>2. QED
  BY <1>1, SessionStep DEF SessionsOK

LEMMA AuthServesSessions == SessionsOK /\ AuthServes => SessionsOK'
<1> SUFFICES ASSUME SessionsOK, AuthServes PROVE SessionsOK'
  OBVIOUS
<1>0. /\ SessionType /\ NoUser \notin users /\ now \in Nat /\ now < Never
      /\ \A s \in Sessions : SessionOK(s) /\ EndOf(s) \in Nat
      /\ \A s \in Sessions : EndOf(s) <= EndOf(s)
  BY EndIsNat, Lifetimes, SessionAssumption DEF SessionsOK, SessionType, Never
<1>1. ASSUME NEW s \in Sessions, NEW u \in Users, CheckPassword(s, u) PROVE SessionsOK'
  <2>1. SessionType'
    BY <1>0, <1>1 DEF CheckPassword, SessionType
  <2>2. sessions[s].user = NoUser /\ ended[s] = Never /\ u # NoUser
    BY <1>0, <1>1, SessionAssumption DEF CheckPassword, SessionOK, Used
  <2>3. \A r \in Sessions : SessionOK(r)'
    BY <1>0, <1>1, <2>2 DEF CheckPassword, SessionOK, Used, SessionType
  <2>4. \A r \in Sessions : EndOf(r)' = EndOf(r) /\ (Used(r) => Used(r)')
    BY <1>0, <1>1 DEF CheckPassword, EndOf, Used, SessionType
  <2>5. QED
    BY <1>0, <1>1, <2>1, <2>3, <2>4, LoginStep DEF CheckPassword
<1>2. ASSUME NEW s \in Sessions, Store(s) PROVE SessionsOK'
  <2> DEFINE new == [user |-> login[s], until |-> now + SessionTTL]
  <2>1. new \in [user : Users \union {NoUser}, until : Nat] /\ new.user = login[s]
        /\ new.until = now + SessionTTL
    BY <1>0, Lifetimes DEF SessionType
  <2>2. sessions' = [sessions EXCEPT ![s] = new]
    BY <1>2 DEF Store
  <2> HIDE DEF new
  <2>3. SessionType'
    BY <1>0, <1>2, <2>1, <2>2 DEF Store, SessionType
  <2>4. /\ s \in issued /\ login[s] # NoUser /\ ~Used(s)
        /\ (login[s] \in users => ended[s] = Never)
    BY <1>0, <1>2 DEF Store, SessionOK, Used
  <2>5. \A r \in Sessions : r # s => sessions'[r] = sessions[r] /\ login'[r] = login[r]
    BY <1>0, <1>2, <2>2 DEF Store, SessionType
  <2>6. sessions'[s] = new /\ login'[s] = NoUser
    BY <1>0, <1>2, <2>2 DEF Store, SessionType
  <2>7. SessionOK(s)'
    BY <1>0, <1>2, <2>1, <2>4, <2>6, Lifetimes DEF Store, SessionOK, Used, SessionType
  <2>8. \A r \in Sessions : SessionOK(r)'
    BY <1>0, <1>2, <2>5, <2>7 DEF Store, SessionOK, Used
  <2>9. \A r \in Sessions : Used(r) => Used(r)' /\ EndOf(r)' = EndOf(r)
    BY <1>2, <2>4, <2>5 DEF Store, EndOf, Used
  <2>10. QED
    BY <1>0, <1>2, <2>3, <2>8, <2>9, LoginStep DEF Store
<1>3. ASSUME NEW s \in Sessions, LoginFails(s) PROVE SessionsOK'
  <2>1. SessionType'
    BY <1>0, <1>3 DEF LoginFails, SessionType
  <2>2. \A r \in Sessions : SessionOK(r)'
    BY <1>0, <1>3 DEF LoginFails, SessionOK, Used, SessionType
  <2>3. \A r \in Sessions : EndOf(r)' = EndOf(r) /\ (Used(r) => Used(r)')
    BY <1>0, <1>3 DEF LoginFails, EndOf, Used, SessionType
  <2>4. QED
    BY <1>0, <1>3, <2>1, <2>2, <2>3, LoginStep DEF LoginFails
<1>4. ASSUME NEW s \in Sessions, Logout(s) PROVE SessionsOK'
  <2>1. NoSession \in [user : Users \union {NoUser}, until : Nat] /\ NoSession.user = NoUser
        /\ NoSession.until = 0
    BY DEF NoSession
  <2>2. Earlier(EndOf(s), now) \in Nat /\ (EndOf(s) <= Earlier(EndOf(s), now) \/ now <= Earlier(EndOf(s), now))
    BY <1>0 DEF Earlier
  <2>3. SessionType'
    BY <1>0, <1>4, <2>1, <2>2 DEF Logout, SessionType
  <2>4. \A r \in Sessions : r # s => sessions'[r] = sessions[r] /\ ended'[r] = ended[r]
    BY <1>0, <1>4 DEF Logout, SessionType
  <2>5. sessions'[s] = NoSession /\ ended'[s] = Earlier(EndOf(s), now) /\ Used(s)
    BY <1>0, <1>4 DEF Logout, SessionType, Used
  <2>6. SessionOK(s)'
    BY <1>0, <1>4, <2>1, <2>5, Lifetimes DEF Logout, SessionOK, Used
  <2>7. \A r \in Sessions : SessionOK(r)'
    BY <1>0, <1>4, <2>4, <2>6 DEF Logout, SessionOK, Used
  <2>8. EndOf(s)' = Earlier(EndOf(s), now)
    BY <2>1, <2>5 DEF EndOf
  <2>9. \A r \in Sessions : r # s => EndOf(r)' = EndOf(r)
    BY <2>4 DEF EndOf
  <2>10. \A r \in Sessions : Used(r) => Used(r)'
    BY <1>4 DEF Logout, Used
  <2>11. QED
    BY <1>0, <1>4, <2>2, <2>3, <2>7, <2>8, <2>9, <2>10, LoginStep DEF Logout
<1>5. ASSUME NEW u \in Users, RemoveUser(u) PROVE SessionsOK'
  <2>1. \A s \in Sessions :
          ended'[s] = IF u \in {sessions[s].user, login[s]} THEN Earlier(ended[s], now) ELSE ended[s]
    BY <1>5 DEF RemoveUser
  <2>2. ended' \in [Sessions -> Nat]
    <3> DEFINE E(s) == IF u \in {sessions[s].user, login[s]} THEN Earlier(ended[s], now) ELSE ended[s]
    <3>1. \A s \in Sessions : E(s) \in Nat
      BY <1>0 DEF Earlier, SessionType
    <3>2. ended' = [s \in Sessions |-> E(s)]
      BY <1>5 DEF RemoveUser
    <3> HIDE DEF E
    <3>3. QED
      BY <3>1, <3>2
  <2>3. SessionType'
    BY <1>0, <1>5, <2>2 DEF RemoveUser, SessionType
  <2>4. \A s \in Sessions : SessionOK(s)'
    BY <1>0, <1>5, <2>1, SessionAssumption DEF RemoveUser, SessionOK, Used, SessionType
  <2>5. ASSUME NEW s \in Sessions
        PROVE  (EndOf(s) <= EndOf(s)' \/ now <= EndOf(s)') /\ (Used(s) => Used(s)')
    <3>1. ended[s] \in Nat /\ sessions[s].until \in Nat
      BY <1>0 DEF SessionType
    <3>2. ended'[s] = ended[s] \/ ended'[s] = Earlier(ended[s], now)
      BY <2>1
    <3>3. sessions' = sessions /\ login' = login /\ issued' = issued
      BY <1>5 DEF RemoveUser
    <3>4. EndOf(s) <= EndOf(s)' \/ now <= EndOf(s)'
      BY <1>0, <3>1, <3>2, <3>3 DEF EndOf, Earlier
    <3>5. QED
      BY <3>3, <3>4 DEF Used
  <2>6. QED
    BY <1>5, <2>3, <2>4, <2>5, LoginStep DEF RemoveUser
<1>6. ASSUME NEW x \in AuthCalls, NEW s \in Sessions, AskAuth(x, s) PROVE SessionsOK'
  <2> DEFINE new == [NoAuth EXCEPT !.pc = "asked", !.session = s, !.since = now]
  <2>1. /\ new \in [pc : {"idle", "asked", "found", "known", "refreshed"},
                    session : Sessions \union {NoAuth.session},
                    user : Users \union {NoUser}, since : Nat]
        /\ new.pc = "asked" /\ new.session = s /\ new.since = now
    BY <1>0, NoAuthType
  <2>2. auth' = [auth EXCEPT ![x] = new] /\ Used(s) /\ UNCHANGED <<users, sessions, issued, login, tokens, ended, now>>
    BY <1>6 DEF AskAuth, AuthUnchanged, Used
  <2> HIDE DEF new
  <2>3. SessionType' /\ auth'[x] = new /\ \A y \in AuthCalls \ {x} : auth'[y] = auth[y]
    BY <1>0, <2>1, <2>2 DEF SessionType
  <2>4. AuthOK(x)'
    BY <1>0, <2>1, <2>2, <2>3 DEF AuthOK, Used
  <2>5. QED
    BY <2>2, <2>3, <2>4, AuthStep
<1>7. ASSUME NEW x \in AuthCalls, NotAuthorized(x) \/ FindUser(x) PROVE SessionsOK'
  <2>1. PICK pc \in {"idle", "known"} : auth' = [auth EXCEPT ![x].pc = pc]
    BY <1>7 DEF NotAuthorized, FindUser, AuthGoto
  <2>2. SessionType' /\ UNCHANGED <<users, sessions, issued, login, tokens, ended, now>>
    BY <1>0, <1>7, <2>1 DEF NotAuthorized, FindUser, AuthUnchanged, SessionType
  <2>3. /\ auth'[x].pc = pc /\ auth'[x].session = auth[x].session /\ auth'[x].since = auth[x].since
        /\ \A y \in AuthCalls \ {x} : auth'[y] = auth[y]
    BY <1>0, <2>1 DEF SessionType
  <2>4. pc = "known" => auth[x].pc = "found" /\ auth[x].user \in users
    BY <1>0, <1>7, <2>1 DEF NotAuthorized, FindUser, AuthGoto, SessionType
  <2>5. AuthOK(x)'
    BY <2>2, <2>3, <2>4 DEF SessionsOK, AuthOK, Used, EndOf
  <2>6. QED
    BY <2>2, <2>3, <2>5, AuthStep
<1>8. ASSUME NEW x \in AuthCalls, FindSession(x) PROVE SessionsOK'
  <2>0. PICK s : s = auth[x].session
    OBVIOUS
  <2> DEFINE new == [auth[x] EXCEPT !.pc = "found", !.user = sessions[s].user]
  <2>1. /\ auth[x].pc = "asked" /\ s \in Sessions /\ Used(s) /\ auth[x].since <= now
        /\ sessions[s].user # NoUser /\ now < sessions[s].until
    BY <1>8, <2>0 DEF FindSession, Open, SessionsOK, AuthOK
  <2>2. auth' = [auth EXCEPT ![x] = new]
        /\ UNCHANGED <<users, sessions, issued, login, tokens, ended, now>>
    BY <1>8, <2>0 DEF FindSession, AuthUnchanged
  <2>3. auth'[x].pc = "found" /\ auth'[x].session = s /\ auth'[x].since = auth[x].since
        /\ auth'[x].user = sessions[s].user /\ \A y \in AuthCalls \ {x} : auth'[y] = auth[y]
    BY <1>0, <2>0, <2>2 DEF SessionType
  <2>4. SessionType'
    <3>1. new \in [pc : {"idle", "asked", "found", "known", "refreshed"},
                    session : Sessions \union {NoAuth.session},
                    user : Users \union {NoUser}, since : Nat]
      BY <1>0, <2>1 DEF SessionType
    <3> HIDE DEF new
    <3>2. QED
      BY <1>0, <2>2, <3>1 DEF SessionType
  <2>5. sessions[s].user \in users => auth[x].since <= EndOf(s)
    <3> SUFFICES ASSUME sessions[s].user \in users PROVE auth[x].since <= EndOf(s)
      OBVIOUS
    <3>1. ended[s] = Never /\ auth[x].since \in Nat /\ sessions[s].until \in Nat
      BY <1>0, <2>1 DEF SessionOK, SessionType
    <3>2. QED
      BY <1>0, <2>1, <3>1, Lifetimes DEF EndOf, Earlier
  <2>6. EndOf(s)' = EndOf(s)
    BY <2>2 DEF EndOf
  <2>7. AuthOK(x)'
    BY <2>1, <2>2, <2>3, <2>5, <2>6 DEF AuthOK, Used
  <2>8. QED
    BY <2>2, <2>3, <2>4, <2>7, AuthStep
<1>9. ASSUME NEW x \in AuthCalls, UpdateSessionTTL(x) PROVE SessionsOK'
  <2>0. PICK s : s = auth[x].session
    OBVIOUS
  <2>1. /\ auth[x].pc = "known" /\ auth' = [auth EXCEPT ![x].pc = "refreshed"] /\ s \in Sessions
        /\ Used(s) /\ UNCHANGED <<users, issued, login, tokens, ended, now>>
        /\ \/ sessions' = [sessions EXCEPT ![s].until = now + SessionTTL]
           \/ sessions' = sessions
    BY <1>9, <2>0 DEF UpdateSessionTTL, AuthGoto, SessionsOK, AuthOK
  <2>2. auth'[x].pc = "refreshed" /\ auth'[x].session = s /\ auth'[x].since = auth[x].since
        /\ \A y \in AuthCalls \ {x} : auth'[y] = auth[y]
    BY <1>0, <2>0, <2>1 DEF SessionType
  <2>3. /\ \A r \in Sessions : r # s => sessions'[r] = sessions[r]
        /\ sessions'[s].user = sessions[s].user
        /\ sessions'[s].until = sessions[s].until \/ sessions'[s].until = now + SessionTTL
    BY <1>0, <2>1 DEF SessionType
  <2>4. SessionType'
    <3>1. auth' \in [AuthCalls -> [pc : {"idle", "asked", "found", "known", "refreshed"},
                             session : Sessions \union {NoAuth.session},
                             user : Users \union {NoUser}, since : Nat]]
      BY <1>0, <2>1 DEF SessionType
    <3>2. sessions' \in [Sessions -> [user : Users \union {NoUser}, until : Nat]]
      BY <1>0, <2>1, Lifetimes DEF SessionType
    <3>3. QED
      BY <1>0, <2>1, <3>1, <3>2 DEF SessionType
  <2>5. \A r \in Sessions : SessionOK(r)'
    <3>1. sessions[s].until \in Nat
      BY <1>0, <2>1 DEF SessionType
    <3>2. SessionOK(s)'
      BY <1>0, <2>1, <2>3, <3>1, Lifetimes DEF SessionOK, Used
    <3>3. QED
      BY <1>0, <2>1, <2>3, <3>2 DEF SessionOK, Used
  <2>6. \A r \in Sessions : EndOf(r) <= EndOf(r)' /\ (Used(r) => Used(r)')
    <3>1. \A r \in Sessions : r # s => EndOf(r)' = EndOf(r)
      BY <2>1, <2>3 DEF EndOf
    <3>2. sessions[s].until \in Nat /\ ended[s] \in Nat /\ sessions[s].until <= now + SessionTTL
      BY <1>0, <2>1 DEF SessionType, SessionOK
    <3>3. EndOf(s) <= EndOf(s)'
      BY <1>0, <2>1, <2>3, <3>2, Lifetimes DEF EndOf, Earlier
    <3>4. QED
      BY <1>0, <2>1, <3>1, <3>3 DEF Used
  <2>7. /\ \A y \in AuthCalls : auth'[y] = auth[y] => AuthOK(y)'
        /\ \A t \in tokens : TokenOK(t)'
    BY <1>0, <2>1, <2>4, <2>5, <2>6, SessionStep
  <2>8. AuthOK(x)'
    <3>1. auth[x].since \in Nat /\ auth[x].since <= now /\ auth[x].since <= EndOf(s)
      BY <1>0, <2>0, <2>1 DEF SessionsOK, AuthOK, SessionType
    <3>2. EndOf(s)' \in Nat
      BY <2>1, <2>4, EndIsNat
    <3>3. auth[x].since <= EndOf(s)'
      BY <1>0, <2>1, <2>6, <3>1, <3>2
    <3>4. QED
      BY <2>1, <2>2, <3>1, <3>3 DEF AuthOK, Used
  <2>9. QED
    BY <2>1, <2>2, <2>4, <2>5, <2>7, <2>8 DEF SessionsOK
<1>10. ASSUME NEW x \in AuthCalls, GenerateToken(x) PROVE SessionsOK'
  <2>0. PICK s : s = auth[x].session
    OBVIOUS
  <2>token. PICK t : t = [session |-> s, exp |-> now + TokenTTL]
    OBVIOUS
  <2>1. /\ auth[x].pc = "refreshed" /\ auth' = [auth EXCEPT ![x].pc = "idle"] /\ s \in Sessions
        /\ Used(s) /\ UNCHANGED <<users, sessions, issued, login, ended, now>>
        /\ auth[x].since <= EndOf(s) /\ auth[x].since \in Nat
    BY <1>0, <1>10, <2>0 DEF GenerateToken, AuthGoto, SessionsOK, AuthOK, SessionType
  <2>2. tokens' \subseteq tokens \union {t} /\ (tokens' # tokens => now <= auth[x].since + WriteTimeout)
    BY <1>10, <2>0, <2>token DEF GenerateToken
  <2>3. \A r \in Sessions : EndOf(r)' = EndOf(r) /\ SessionOK(r)' /\ (Used(r) => Used(r)')
    BY <1>0, <2>1 DEF SessionOK, Used, EndOf
  <2>4. SessionType'
    <3>1. t.session \in Sessions /\ t.exp \in Nat
      BY <1>0, <2>1, <2>token, Lifetimes
    <3>2. QED
      BY <1>0, <2>1, <2>2, <3>1 DEF SessionType
  <2>5. auth'[x].pc = "idle" /\ \A y \in AuthCalls \ {x} : auth'[y] = auth[y]
    BY <1>0, <2>1 DEF SessionType
  <2>6. /\ \A y \in AuthCalls : auth'[y] = auth[y] => AuthOK(y)'
        /\ \A u \in tokens : TokenOK(u)'
    BY <1>0, <2>1, <2>3, <2>4, SessionStep
  <2>7. tokens' # tokens => TokenOK(t)'
    <3> SUFFICES ASSUME tokens' # tokens PROVE TokenOK(t)'
      OBVIOUS
    <3>1. t.session = s /\ t.exp = now + TokenTTL /\ EndOf(s) \in Nat
      BY <1>0, <2>1, <2>token
    <3>2. t.exp <= now' + TokenTTL /\ Used(t.session)'
      BY <1>0, <2>1, <2>3, <3>1, Lifetimes
    <3>3. t.exp <= EndOf(s) + WriteTimeout + TokenTTL
      BY <1>0, <2>1, <2>2, <3>1, Lifetimes
    <3>4. QED
      BY <2>1, <2>3, <3>1, <3>2, <3>3 DEF TokenOK
  <2>8. AuthOK(x)'
    BY <2>5 DEF AuthOK
  <2>9. QED
    BY <2>2, <2>3, <2>4, <2>5, <2>6, <2>7, <2>8 DEF SessionsOK
<1>11. QED
  BY <1>1, <1>2, <1>3, <1>4, <1>5, <1>6, <1>7, <1>8, <1>9, <1>10 DEF AuthServes

LEMMA NextSessions == SessionsOK /\ [Next]_allVars => SessionsOK'
<1> SUFFICES ASSUME SessionsOK, [Next]_allVars PROVE SessionsOK'
  OBVIOUS
<1>0. SessionType /\ now \in Nat /\ \A s \in Sessions : EndOf(s) \in Nat
  BY EndIsNat DEF SessionsOK, SessionType
<1>1. CASE UNCHANGED sessionVars
  BY <1>1 DEF sessionVars, SessionsOK, SessionType, SessionOK, AuthOK, TokenOK, Used, EndOf
<1>2. CASE AuthGone
  <2>1. SessionType'
    BY <1>0, <1>2, NoAuthType DEF AuthGone, SessionType
  <2>2. \A s \in Sessions : SessionOK(s)' /\ EndOf(s)' = EndOf(s) /\ (Used(s) => Used(s)')
    BY <1>0, <1>2, SessionAssumption DEF AuthGone, SessionsOK, SessionOK, Used, EndOf, SessionType
  <2>3. \A x \in AuthCalls : AuthOK(x)'
    BY <1>2, NoAuthType DEF AuthGone, AuthOK
  <2>4. \A t \in tokens : TokenOK(t)'
    <3>1. users' \subseteq users /\ now <= now' /\ \A s \in Sessions : EndOf(s) <= EndOf(s)'
      BY <1>0, <1>2, <2>2 DEF AuthGone
    <3>2. QED
      BY <2>1, <2>2, <3>1, SessionStep
  <2>5. QED
    BY <1>2, <2>1, <2>2, <2>3, <2>4 DEF AuthGone, SessionsOK
<1>3. CASE Tick
  <2>1. SessionType' /\ now < now'
    BY <1>0, <1>3, Lifetimes DEF Tick, SessionType
  <2>2. \A s \in Sessions : EndOf(s)' = EndOf(s) /\ (Used(s) => Used(s)')
    BY <1>3 DEF Tick, EndOf, Used
  <2>3. \A s \in Sessions : SessionOK(s)'
    <3> SUFFICES ASSUME NEW s \in Sessions PROVE SessionOK(s)'
      OBVIOUS
    <3>1. sessions[s].until \in Nat /\ sessions[s].until <= now + SessionTTL
      BY <1>0 DEF SessionsOK, SessionOK, SessionType
    <3>2. sessions[s].until <= now' + SessionTTL
      BY <1>0, <1>3, <3>1, Lifetimes DEF Tick
    <3>3. QED
      BY <1>3, <3>2 DEF Tick, SessionsOK, SessionOK, Used
  <2>4. \A x \in AuthCalls : AuthOK(x)'
    <3>1. users' \subseteq users /\ now <= now' /\ \A s \in Sessions : EndOf(s) <= EndOf(s)'
      BY <1>0, <1>3, <2>1, <2>2 DEF Tick
    <3>2. QED
      BY <1>3, <2>1, <2>2, <2>3, <3>1, SessionStep DEF Tick
  <2>5. \A t \in tokens : TokenOK(t)'
    <3>1. users' \subseteq users /\ now <= now' /\ \A s \in Sessions : EndOf(s) <= EndOf(s)'
      BY <1>0, <1>3, <2>1, <2>2 DEF Tick
    <3>2. QED
      BY <2>1, <2>2, <2>3, <3>1, SessionStep
  <2>6. QED
    BY <1>3, <2>1, <2>3, <2>4, <2>5 DEF Tick, SessionsOK
<1>4. ASSUME NEW t \in tokens, DropToken(t) PROVE SessionsOK'
  BY <1>4 DEF DropToken, SessionsOK, SessionType, SessionOK, AuthOK, TokenOK, Used, EndOf
<1>5. QED
  BY <1>1, <1>2, <1>3, <1>4, AuthServesSessions
  DEF Next, ProcessEnds, RuntimeEndsIt, MemoryGone, TimePasses, allVars

----------------------------------------------------------------------------
(* Queries.                                                                *)

\* A reader is a record of five fields.
IsReader(r) == DOMAIN r = {"pc", "query", "rows", "bids", "missing"}

\* What a reader has read of lots that are over is what the tables say; and a
\* lot listed as won is over and led by who asked.
RowsTrue(r) ==
  /\ DOMAIN r.rows \subseteq Lots
  /\ \A l \in DOMAIN r.rows :
       /\ r.rows[l] # "active" => status[l] # "active"
       /\ r.rows[l] # "active" /\ r.pc \in {"logins", "writing"} => r.bids[l] = bids[l]
       /\ r.query.won /\ ~r.query.participation
            => status[l] # "active" /\ LeadsIn(bids[l], r.query.user)

Querying ==
  /\ DOMAIN status = Lots /\ DOMAIN bids = Lots
  /\ DOMAIN reader = Readers
  /\ \A q \in Readers : IsReader(reader[q]) /\ RowsTrue(reader[q])

LEMMA IdleReaderTrue ==
  IsReader(IdleReader) /\ RowsTrue(IdleReader) /\ RowsTrue(IdleReader)'
  /\ IdleReader.query = NoQuery /\ IdleReader.bids = NoRows
BY DEF IsReader, RowsTrue, IdleReader, NoQuery, NoRows

LEMMA InitQuerying == QueriesInit => Querying
BY IdleReaderTrue DEF QueriesInit, Querying

\* Tables only change where a lot is active; a step of one reader.
LEMMA ReaderStep ==
  ASSUME Querying, NEW q \in Readers, NEW new, reader' = [reader EXCEPT ![q] = new],
         UNCHANGED <<status, bids>>, IsReader(new), RowsTrue(new)
  PROVE  Querying'
<1>1. RowsTrue(new)' /\ \A p \in Readers : RowsTrue(reader[p])'
  BY DEF Querying, RowsTrue
<1>2. QED
  BY <1>1 DEF Querying

LEMMA QueryStep ==
  ASSUME Querying, NEW q \in Readers, Query(q)
  PROVE  Querying'
<1>1. IsReader(reader[q]) /\ RowsTrue(reader[q]) /\ DOMAIN status = Lots /\ DOMAIN bids = Lots
  BY DEF Querying
<1>2. ASSUME NEW new, reader' = [reader EXCEPT ![q] = new], UNCHANGED <<status, bids>>,
             reader[q].pc \in {"logins", "writing"}, IsReader(new),
             new.query = reader[q].query, new.rows = reader[q].rows, new.bids = reader[q].bids
      PROVE  Querying'
  <2>1. RowsTrue(new)
    BY <1>1, <1>2 DEF RowsTrue
  <2>2. QED
    BY <1>2, <2>1, ReaderStep
<1>3. CASE FindByOwnerID(q)
  <2> DEFINE new == [IdleReader EXCEPT !.pc = "lots", !.query = [NoQuery EXCEPT !.kind = "owned"],
                                       !.rows = status]
  <2>1. reader' = [reader EXCEPT ![q] = new] /\ UNCHANGED <<status, bids>>
    BY <1>3 DEF FindByOwnerID, TablesUnchanged
  <2>2. IsReader(new) /\ new.pc = "lots" /\ new.rows = status /\ ~new.query.won
    BY DEF IsReader, IdleReader, NoQuery
  <2> HIDE DEF new
  <2>3. RowsTrue(new)
    BY <1>1, <2>2 DEF RowsTrue
  <2>4. QED
    BY <2>1, <2>2, <2>3, ReaderStep
<1>4. CASE LotBidsMap(q)
  <2> DEFINE found == Some(bids, DOMAIN reader[q].rows)
             new == [reader[q] EXCEPT !.pc = "logins", !.bids = found,
                                      !.missing = BiddersIn(found)]
  <2>1. reader' = [reader EXCEPT ![q] = new] /\ UNCHANGED <<status, bids>>
    BY <1>4 DEF LotBidsMap, TablesUnchanged
  <2>2. \A l \in DOMAIN reader[q].rows : found[l] = bids[l]
    BY DEF Some
  <2>3. /\ IsReader(new) /\ new.pc = "logins" /\ new.rows = reader[q].rows
        /\ new.query = reader[q].query /\ new.bids = found
    BY <1>1 DEF IsReader
  <2> HIDE DEF new, found
  <2>4. RowsTrue(new)
    BY <1>1, <2>2, <2>3 DEF RowsTrue
  <2>5. QED
    BY <2>1, <2>3, <2>4, ReaderStep
<1>5. ASSUME NEW S \in SUBSET Lots, NEW query, Select(q, query, S),
             query.won /\ ~query.participation =>
               \A l \in S : status[l] # "active" /\ LeadsIn(bids[l], query.user)
      PROVE  Querying'
  <2> DEFINE new == [pc |-> "logins", query |-> query, rows |-> Some(status, S),
                     bids |-> Some(bids, S), missing |-> IF S = {} THEN {} ELSE {Owner}]
  <2>1. reader' = [reader EXCEPT ![q] = new] /\ UNCHANGED <<status, bids>>
    BY <1>5 DEF Select, TablesUnchanged
  <2>2. IsReader(new)
    BY DEF IsReader
  <2>3. /\ new.query = query /\ new.rows = Some(status, S) /\ new.bids = Some(bids, S)
    OBVIOUS
  <2> HIDE DEF new
  <2>4. /\ DOMAIN Some(status, S) = S
        /\ \A l \in S : Some(status, S)[l] = status[l] /\ Some(bids, S)[l] = bids[l]
    BY DEF Some
  <2>5. RowsTrue(new)
    BY <1>5, <2>3, <2>4 DEF RowsTrue
  <2>6. QED
    BY <2>1, <2>2, <2>5, ReaderStep
<1>6. CASE FindAvailable(q)
  <2>1. PICK u \in Bidders \union {Owner}, participation \in BOOLEAN, won \in BOOLEAN :
          LET query == [kind |-> "available", user |-> u, participation |-> participation, won |-> won]
          IN  Select(q, query, Available(query))
    BY <1>6 DEF FindAvailable
  <2> DEFINE query == [kind |-> "available", user |-> u, participation |-> participation, won |-> won]
  <2>2. /\ query.won = won /\ query.participation = participation /\ query.user = u
        /\ Select(q, query, Available(query))
    BY <2>1
  <2> HIDE DEF query
  <2>3. Available(query) \in SUBSET Lots
    BY DEF Available
  <2>4. query.won /\ ~query.participation =>
          \A l \in Available(query) : status[l] # "active" /\ LeadsIn(bids[l], query.user)
    BY <2>2 DEF Available, InStatus
  <2>5. QED
    BY <1>5, <2>2, <2>3, <2>4
<1>7. CASE Get(q)
  <2>1. PICK l \in Lots : Select(q, [NoQuery EXCEPT !.kind = "one"], {l})
    BY <1>7 DEF Get
  <2>2. ~[NoQuery EXCEPT !.kind = "one"].won
    BY DEF NoQuery
  <2>3. QED
    BY <1>5, <2>1, <2>2
<1>8. CASE KnownLogin(q)
  <2> DEFINE new == [reader[q] EXCEPT !.missing = reader[q].missing \ logins]
  <2>1. reader' = [reader EXCEPT ![q] = new] /\ UNCHANGED <<status, bids>>
    BY <1>8 DEF KnownLogin, TablesUnchanged
  <2>2. /\ IsReader(new) /\ new.query = reader[q].query /\ new.rows = reader[q].rows
        /\ new.bids = reader[q].bids
    BY <1>1 DEF IsReader
  <2> HIDE DEF new
  <2>3. QED
    BY <1>2, <1>8, <2>1, <2>2 DEF KnownLogin
<1>9. CASE AskUserService(q)
  <2> DEFINE new == [reader[q] EXCEPT !.pc = "writing"]
  <2>1. reader' = [reader EXCEPT ![q] = new] /\ UNCHANGED <<status, bids>>
    BY <1>9 DEF AskUserService, TablesUnchanged
  <2>2. /\ IsReader(new) /\ new.query = reader[q].query /\ new.rows = reader[q].rows
        /\ new.bids = reader[q].bids
    BY <1>1 DEF IsReader
  <2> HIDE DEF new
  <2>3. QED
    BY <1>2, <1>9, <2>1, <2>2 DEF AskUserService
<1>10. CASE KeepLogin(q)
  <2>1. PICK u \in reader[q].missing :
          reader' = [reader EXCEPT ![q] =
                       [@ EXCEPT !.pc = "logins", !.missing = reader[q].missing \ {u}]]
    BY <1>10 DEF KeepLogin
  <2> DEFINE new == [reader[q] EXCEPT !.pc = "logins", !.missing = reader[q].missing \ {u}]
  <2>2. reader' = [reader EXCEPT ![q] = new] /\ UNCHANGED <<status, bids>>
    BY <1>10, <2>1 DEF KeepLogin
  <2>3. /\ IsReader(new) /\ new.query = reader[q].query /\ new.rows = reader[q].rows
        /\ new.bids = reader[q].bids
    BY <1>1 DEF IsReader
  <2> HIDE DEF new
  <2>4. QED
    BY <1>2, <1>10, <2>2, <2>3 DEF KeepLogin
<1>11. CASE QueryFails(q) \/ WriteLots(q)
  BY <1>11, IdleReaderTrue, ReaderStep DEF QueryFails, WriteLots, TablesUnchanged
<1>12. QED
  BY <1>3, <1>4, <1>6, <1>7, <1>8, <1>9, <1>10, <1>11 DEF Query

\* A bid and a decision only touch a lot that is active, of which nothing has
\* been said that could become false.
LEMMA TablesStep ==
  ASSUME Querying, NEW l \in Lots, DecideLot(l) \/ \E u \in Bidders : StoreBid(l, u)
  PROVE  Querying'
<1>1. /\ status[l] = "active" /\ UNCHANGED reader
      /\ DOMAIN status' = Lots /\ DOMAIN bids' = Lots
      /\ \A k \in Lots \ {l} : status'[k] = status[k] /\ bids'[k] = bids[k]
  BY DEF DecideLot, StoreBid, Querying
<1>2. ASSUME NEW q \in Readers PROVE RowsTrue(reader[q])'
  BY <1>1 DEF Querying, RowsTrue
<1>3. QED
  BY <1>1, <1>2 DEF Querying

LEMMA NextQuerying == Querying /\ [Next]_allVars => Querying'
<1> SUFFICES ASSUME Querying, [Next]_allVars PROVE Querying'
  OBVIOUS
<1>1. CASE LotServes
  BY <1>1, QueryStep, TablesStep DEF LotServes
<1>2. CASE QueriesGone
  BY <1>2, IdleReaderTrue DEF QueriesGone, Querying, RowsTrue
<1>3. CASE UNCHANGED queryVars
  BY <1>3 DEF queryVars, Querying, RowsTrue
<1>4. QED
  BY <1>1, <1>2, <1>3 DEF Next, ProcessEnds, RuntimeEndsIt, MemoryGone, allVars

----------------------------------------------------------------------------
(* Theorems.                                                               *)

IInv == Requesting /\ SessionsOK /\ Querying

THEOREM ServicesInvariant == Spec => []IInv
<1>1. Init => IInv
  BY InitRequesting, InitSessions, InitQuerying DEF Init, IInv
<1>2. IInv /\ [Next]_allVars => IInv'
  BY NextRequesting, NextSessions, NextQuerying DEF IInv
<1>3. QED
  BY <1>1, <1>2, PTL DEF Spec

\* Whatever process ends, answer is lost or request is repeated: a command is
\* carried out at most once, and exactly once for a client that was answered 200
\* or 409 (SetRequestProcessed, in the transaction of the command).
THEOREM AnswersAreTrue == Spec => []AnswerIsTrue
<1>1. IInv => AnswerIsTrue
  BY DEF IInv, Requesting, RecordedOnce, Answered200, AnswerIsTrue
<1>2. QED
  BY <1>1, ServicesInvariant, PTL

\* No token of Auth is accepted longer than the write timeout and the lifetime
\* of a token after its session was closed or expired, or its user was removed
\* (authHandler, which reads and refreshes the session in several steps).
THEOREM TokensEndWithSessions == Spec => []TokenEndsWithSession
<1>1. SessionsOK => TokenEndsWithSession
  <2>1. SUFFICES ASSUME SessionsOK, NEW t \in tokens, Accepted(t)
                 PROVE  now < EndOf(t.session) + WriteTimeout + TokenTTL
    BY DEF TokenEndsWithSession
  <2>2. t.exp \in Nat /\ now \in Nat /\ EndOf(t.session) \in Nat
    BY <2>1, EndIsNat, Lifetimes DEF SessionsOK, SessionType
  <2>3. now < t.exp /\ t.exp <= EndOf(t.session) + WriteTimeout + TokenTTL
    BY <2>1 DEF SessionsOK, TokenOK, Accepted
  <2>4. QED
    BY <2>2, <2>3, Lifetimes
<1>2. QED
  BY <1>1, ServicesInvariant, PTL DEF IInv

\* A list of lots says nothing of a lot that is over which is not final, though
\* the lots and their bids are read one after the other (FindByOwnerID) and the
\* logins are asked for later.
THEOREM ListsAreFinal == Spec => []ListsAreTrue
<1>1. Querying => ListsAreTrue
  BY DEF Querying, RowsTrue, ListsAreTrue, Answered
<1>2. QED
  BY <1>1, ServicesInvariant, PTL DEF IInv
============================================================================
