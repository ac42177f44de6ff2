--------------------------- MODULE ServiceProcess ---------------------------
(***************************************************************************)
(* The process of a service and the requests it answers.  Each service     *)
(* starts in the order of its main and startServer, any failure of which   *)
(* ends it; Kubernetes starts it again.  A request is a goroutine that     *)
(* goes through the stages of its handler, and dies with the process.      *)
(* A client repeats a request, with the same X-Request-ID, until it has an *)
(* answer other than 500; it may do so while an earlier one is still       *)
(* served.                                                                 *)
(*                                                                         *)
(* What commands do to a service is modelled elsewhere (Auction, Billing,  *)
(* Delivery, Registration); here a command has been carried out or not.    *)
(*                                                                         *)
(* Sources: cmd/*/main.go, common/infrastructure/postgres/connector.go,    *)
(* the transport/http/server.go of each service.                           *)
(***************************************************************************)
EXTENDS Integers, Sequences

CONSTANTS
  Calls,       \* requests the process serves
  RequestOf,   \* call -> its X-Request-ID
  MaxPings,    \* maxConnectionRetry
  Faults,      \* BOUND, for each endpoint: failures and ill-formed requests
  None

Requests == { RequestOf[c] : c \in Calls }

ASSUME ProcessAssumption ==
  /\ DOMAIN RequestOf = Calls
  /\ None \notin Requests \union Nat
  /\ MaxPings \in Nat \ {0}

VARIABLES
  endpoint,   \* what the clients of this behaviour ask for; it never changes
  phase,      \* of the process: "down", "starting", "serving", "stopping"
  startup,    \* steps of the start still to take
  ready,      \* the connector's flag
  pings,      \* failed pings of WaitUntilReady
  dbUp,       \* is the database reachable?
  call,       \* call -> [todo, flaw, open]: the stages left, or none
  recorded,   \* processed_request: ids of the requests committed
  done,       \* history: request -> how often its command has been committed
  answer,     \* request -> status code its client has, or None
  faults

lifeVars == <<phase, startup, ready, pings, dbUp>>
callVars == <<call, recorded, done, answer>>
processVars == <<endpoint, lifeVars, callVars, faults>>

----------------------------------------------------------------------------
(* The start of each service: main, then startServer.                      *)

AuthMain == <<"open">>
BillingMain == <<"open", "broker">>
DeliveryMain == <<"open", "broker">>
LotMain == <<"open", "broker">>
NotificationMain == <<"open", "broker">>
UserMain == <<"open", "broker">>

AuthStartServer == <<"wait", "listen">>
BillingStartServer == <<"wait", "consumer", "listen">>
DeliveryStartServer == <<"wait", "sender", "listen">>
LotStartServer == <<"wait", "sender", "consumer", "completion", "listen">>
NotificationStartServer == <<"wait", "consumer", "listen">>
UserStartServer == <<"wait", "sender", "listen">>

StartOf ==
  [auth         |-> AuthMain \o AuthStartServer,
   billing      |-> BillingMain \o BillingStartServer,
   delivery     |-> DeliveryMain \o DeliveryStartServer,
   lot          |-> LotMain \o LotStartServer,
   notification |-> NotificationMain \o NotificationStartServer,
   user         |-> UserMain \o UserStartServer]

----------------------------------------------------------------------------
(* The handlers: the checks of a request and the work, in order.  "seen"   *)
(* and "tx" look the request id up, before and in the transaction; "peer"  *)
(* asks another service; "check" stands for what the service checks before *)
(* its transaction.                                                        *)

CreateLot == <<"token", "id", "body", "check", "tx">>
CreateBid == <<"token", "id", "body", "check", "seen", "peer", "tx">>
TopUp == <<"token", "id", "body", "check", "tx">>
Payment == <<"id", "body", "check", "tx">>
LotSent == <<"token", "body", "id", "peer", "tx">>
LotReceived == <<"token", "body", "id", "tx">>
UpdateProfile == <<"token", "id", "body", "check", "tx">>
AccountStatus == <<"token", "read">>
LotDelivery == <<"token", "read">>
UserProfile == <<"token", "read">>
Notifications == <<"token", "read">>

HandlerOf ==
  [createLot |-> CreateLot, createBid |-> CreateBid,
   topUp |-> TopUp, payment |-> Payment,
   lotSent |-> LotSent, lotReceived |-> LotReceived,
   updateProfile |-> UpdateProfile,
   accountStatus |-> AccountStatus, lotDelivery |-> LotDelivery,
   userProfile |-> UserProfile, notifications |-> Notifications]

ServiceOf ==
  [createLot |-> "lot", createBid |-> "lot", lists |-> "lot",
   topUp |-> "billing", payment |-> "billing", accountStatus |-> "billing",
   lotSent |-> "delivery", lotReceived |-> "delivery", lotDelivery |-> "delivery",
   updateProfile |-> "user", userProfile |-> "user",
   sessions |-> "auth", notifications |-> "notification"]

Commands == { e \in DOMAIN HandlerOf : HandlerOf[e][Len(HandlerOf[e])] = "tx" }

(* Status codes: writeErrorResponse of each service; the default is 500.   *)
BillingCodes == [token |-> 403, id |-> 400, processed |-> 409, refused |-> 400]
DeliveryCodes ==
  [token |-> 403, id |-> 400, processed |-> 409, refused |-> 400, missing |-> 404,
   forbidden |-> 403]
LotCodes ==
  [token |-> 403, id |-> 400, processed |-> 409, refused |-> 400, missing |-> 404]
NotificationCodes == [token |-> 403]
UserCodes ==
  [token |-> 403, id |-> 400, processed |-> 409, refused |-> 400, missing |-> 404]

CodesOf ==
  [billing |-> BillingCodes, delivery |-> DeliveryCodes, lot |-> LotCodes,
   notification |-> NotificationCodes, user |-> UserCodes]

Service == ServiceOf[endpoint]
StatusOf(error) ==
  IF error \in DOMAIN CodesOf[Service] THEN CodesOf[Service][error] ELSE 500

----------------------------------------------------------------------------
NoCall == [todo |-> <<>>, flaw |-> None, open |-> FALSE]

ProcessInit ==
  /\ endpoint \in DOMAIN ServiceOf
  /\ phase = "down" /\ startup = <<>> /\ ready = FALSE /\ pings = 0
  /\ dbUp \in BOOLEAN
  /\ call = [c \in Calls |-> NoCall]
  /\ recorded = {}
  /\ done = [r \in Requests |-> 0]
  /\ answer = [r \in Requests |-> None]
  /\ faults = 0

Fault == faults < Faults[endpoint] /\ faults' = faults + 1

(* The database comes and goes.                                            *)
DatabaseFails ==
  /\ dbUp /\ Fault
  /\ dbUp' = FALSE
  /\ UNCHANGED <<endpoint, phase, startup, ready, pings, callVars>>

DatabaseRecovers ==
  /\ ~dbUp
  /\ dbUp' = TRUE
  /\ UNCHANGED <<endpoint, phase, startup, ready, pings, callVars, faults>>

----------------------------------------------------------------------------
(* The life of the process.                                                *)

Start ==
  /\ phase = "down"
  /\ phase' = "starting" /\ startup' = StartOf[Service]
  /\ ready' = FALSE /\ pings' = 0
  /\ UNCHANGED <<endpoint, dbUp, callVars, faults>>

\* Client() panics before WaitUntilReady has succeeded, and nothing starts.
ClientReady == Head(startup) \in {"sender", "consumer", "listen"} => ready

NextStartStep ==
  /\ phase = "starting"
  /\ Head(startup) # "wait"
  /\ ClientReady
  /\ startup' = Tail(startup)
  /\ phase' = IF Head(startup) = "listen" THEN "serving" ELSE phase
  /\ UNCHANGED <<endpoint, ready, pings, dbUp, callVars, faults>>

Pinging == phase = "starting" /\ Head(startup) = "wait"

\* Mutant of PingSucceeds: the flag is never set.
PingSucceedsSilently ==
  /\ Pinging /\ dbUp
  /\ startup' = Tail(startup)
  /\ UNCHANGED <<endpoint, phase, ready, pings, dbUp, callVars, faults>>

PingSucceeds ==
  /\ Pinging /\ dbUp
  /\ ready' = TRUE /\ startup' = Tail(startup)
  /\ UNCHANGED <<endpoint, phase, pings, dbUp, callVars, faults>>

PingFails ==
  /\ Pinging /\ ~dbUp
  /\ pings < MaxPings
  /\ pings' = pings + 1
  /\ UNCHANGED <<endpoint, phase, startup, ready, dbUp, callVars, faults>>

\* The process and its goroutines are gone, PostgreSQL rolls back what they
\* have open, and clients wait for answers in vain.
Gone ==
  /\ phase' = "down" /\ startup' = <<>>
  /\ call' = [c \in Calls |-> NoCall]
  /\ UNCHANGED <<endpoint, ready, pings, dbUp, recorded, done, answer>>

\* logger.Fatal after a failed start step.
StartFails ==
  \/ Pinging /\ pings = MaxPings /\ Gone /\ UNCHANGED faults
  \/ phase = "starting" /\ ~Pinging /\ Fault /\ Gone

\* While WaitUntilReady waits nobody answers the liveness probe, and Kubernetes
\* ends the process.
ProbeFails == Pinging /\ pings > 0 /\ Gone /\ UNCHANGED faults

\* SIGKILL, a fatal error, or SIGTERM while nobody waits for the signal.
Killed == phase \in {"starting", "serving", "stopping"} /\ Fault /\ Gone

\* waitForKillSignal returns; Shutdown closes the listener.
Shutdown ==
  /\ phase = "serving" /\ Fault
  /\ phase' = "stopping"
  /\ UNCHANGED <<endpoint, startup, ready, pings, dbUp, callVars>>

\* ListenAndServe returns as soon as Shutdown has begun, and logger.Fatal ends
\* the process, whatever Shutdown is waiting for.
FatalAfterShutdown == phase = "stopping" /\ Gone /\ UNCHANGED faults

Boot == Start \/ NextStartStep \/ PingSucceeds \/ PingFails
Ends == StartFails \/ ProbeFails \/ Killed \/ FatalAfterShutdown

----------------------------------------------------------------------------
(* Requests.                                                               *)

Alive == phase \in {"serving", "stopping"}
At(c, stage) == Alive /\ call[c].todo # <<>> /\ Head(call[c].todo) = stage
TxUnchanged == UNCHANGED <<recorded, done>>

\* A client sends a request, or repeats it; flaw is a check it does not pass.
Send(c, flaw) ==
  /\ phase = "serving"
  /\ endpoint \in DOMAIN HandlerOf
  /\ call[c].todo = <<>>
  /\ answer[RequestOf[c]] = None
  /\ IF flaw = None THEN UNCHANGED faults ELSE Fault
  /\ call' = [call EXCEPT ![c] = [todo |-> HandlerOf[endpoint], flaw |-> flaw, open |-> FALSE]]
  /\ UNCHANGED <<endpoint, lifeVars, answer>> /\ TxUnchanged

\* The request ends.  After a 500 the client knows nothing and tries again.
Respond(c, code) ==
  /\ call' = [call EXCEPT ![c] = NoCall]
  /\ answer' = IF code = 500 THEN answer ELSE [answer EXCEPT ![RequestOf[c]] = code]
  /\ UNCHANGED <<endpoint, lifeVars>>

Proceed(c) ==
  /\ call' = [call EXCEPT ![c].todo = Tail(@)]
  /\ UNCHANGED <<endpoint, lifeVars, answer, faults>>

Refuse(c) ==
  /\ \E e \in {"refused", "missing", "forbidden"} \intersect DOMAIN CodesOf[Service] :
       Respond(c, StatusOf(e))
  /\ UNCHANGED faults

\* extractAuthorizationData, getRequestIDHeader and the parsing of the body.
CheckRequest(c) ==
  /\ \E stage \in {"token", "id", "body"} :
       /\ At(c, stage)
       /\ IF call[c].flaw = stage
          THEN Respond(c, StatusOf(stage)) /\ UNCHANGED faults
          ELSE Proceed(c)
  /\ TxUnchanged

\* What the service, or another one, says before the transaction.
CheckCommand(c) ==
  /\ At(c, "check") \/ At(c, "peer")
  /\ Proceed(c) \/ Refuse(c)
  /\ TxUnchanged

\* checkRequestID of the Lot service.
CheckSeen(c) ==
  /\ At(c, "seen") /\ dbUp
  /\ IF RequestOf[c] \in recorded
     THEN Respond(c, StatusOf("processed")) /\ UNCHANGED faults
     ELSE Proceed(c)
  /\ TxUnchanged

Read(c) ==
  /\ At(c, "read") /\ dbUp
  /\ \/ Respond(c, 200) /\ UNCHANGED faults
     \/ "missing" \in DOMAIN CodesOf[Service] /\ Refuse(c)
  /\ TxUnchanged

\* The transaction begins: SetRequestProcessed waits for another one that has
\* inserted the same id.
BeginCommand(c) ==
  /\ At(c, "tx") /\ ~call[c].open /\ dbUp
  /\ \A d \in Calls : call[d].open => RequestOf[d] # RequestOf[c]
  /\ IF RequestOf[c] \in recorded
     THEN Respond(c, StatusOf("processed"))
     ELSE /\ call' = [call EXCEPT ![c].open = TRUE]
          /\ UNCHANGED <<endpoint, lifeVars, answer>>
  /\ TxUnchanged /\ UNCHANGED faults

\* The id and the effects of the command, together.
Committed(c) ==
  /\ recorded' = recorded \union {RequestOf[c]}
  /\ done' = [done EXCEPT ![RequestOf[c]] = @ + 1]

CommitCommand(c) ==
  /\ At(c, "tx") /\ call[c].open /\ dbUp
  /\ Committed(c)
  /\ Respond(c, 200)
  /\ UNCHANGED faults

\* An error of the command: all is rolled back.
RefuseCommand(c) ==
  /\ At(c, "tx") /\ call[c].open
  /\ Refuse(c)
  /\ TxUnchanged

NeedsDatabase(c) == At(c, "seen") \/ At(c, "read") \/ At(c, "tx")

\* The database is away: an open transaction is rolled back.
DatabaseAway(c) ==
  /\ NeedsDatabase(c) /\ ~dbUp
  /\ Respond(c, 500)
  /\ TxUnchanged /\ UNCHANGED faults

\* Mutant of RequestFails: the id is recorded outside the transaction.
RequestFailsRecorded(c) ==
  /\ Alive /\ call[c].todo # <<>> /\ Fault
  /\ Respond(c, 500)
  /\ recorded' = IF call[c].open THEN recorded \union {RequestOf[c]} ELSE recorded
  /\ UNCHANGED done

\* Any other error, or an answer that is lost: the transaction may have been
\* committed or not.
RequestFails(c) ==
  /\ Alive /\ call[c].todo # <<>> /\ Fault
  /\ Respond(c, 500)
  /\ \/ TxUnchanged
     \/ call[c].open /\ dbUp /\ Committed(c)

Serve(c) ==
  \/ CheckRequest(c) \/ CheckCommand(c) \/ CheckSeen(c) \/ Read(c)
  \/ BeginCommand(c) \/ CommitCommand(c) \/ RefuseCommand(c) \/ DatabaseAway(c)

CallStep(c) ==
  \/ \E flaw \in {None, "token", "id", "body"} : Send(c, flaw)
  \/ Serve(c) \/ RequestFails(c)

ProcessStep ==
  \/ Boot \/ Shutdown
  \/ DatabaseFails \/ DatabaseRecovers
  \/ \E c \in Calls : CallStep(c)

----------------------------------------------------------------------------
(* Kubernetes starts the process again, a client repeats its request, and  *)
(* what has begun goes on.                                                 *)
ProcessFairness ==
  /\ WF_processVars(Boot) /\ WF_processVars(DatabaseRecovers)
  /\ WF_processVars(FatalAfterShutdown)
  /\ \A c \in Calls : WF_processVars(Serve(c)) /\ WF_processVars(Send(c, None))

\* lotapi.swagger.yaml: 409 means already processed.  Whatever is lost and
\* repeated, a client that is answered 200 or 409 can rely on his command having
\* been carried out, and no request id is carried out twice.
AnswerIsTrue ==
  \A r \in Requests :
    /\ done[r] <= 1
    /\ endpoint \in Commands /\ answer[r] \in {200, 409} => done[r] = 1

\* A client that repeats a well-formed request is answered in the end, though the
\* process ends, starts without its database or loses answers on the way.
RequestIsAnswered ==
  endpoint \in DOMAIN HandlerOf => \A r \in Requests : <>(answer[r] # None)
============================================================================
