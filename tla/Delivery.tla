------------------------------ MODULE Delivery ------------------------------
(***************************************************************************)
(* The handover of a won lot, across three services: the Delivery service  *)
(* takes the owner's "sent" and the winner's "received", the Lot service   *)
(* follows its events and overwrites the lot's status, and Billing settles *)
(* the payment when the Lot service says lot_received.                     *)
(*                                                                         *)
(* One lot: the rows of two lots have nothing in common.  A call that is   *)
(* refused (wrong user, wrong status, request id seen) changes nothing and *)
(* is left out.  Events arrive in the order of their commits; what else    *)
(* can happen to them is the subject of EventStream.                       *)
(*                                                                         *)
(* Sources: delivery/app/deliveryservice.go, its repositories and clients, *)
(* lot/app/eventhandler.go, SetLotSent and SetLotReceived of lotservice.go.*)
(***************************************************************************)
EXTENDS Integers, Sequences, FiniteSets

CONSTANTS
  Calls,          \* goroutines of the Delivery service serving a request
  Requests,       \* X-Request-ID values
  Users,
  Owner, Winner,  \* who sends the lot and who receives it
  NoRequest       \* the request of an idle call

ASSUME DeliveryAssumption ==
  /\ Owner \in Users /\ Winner \in Users /\ Owner # Winner
  /\ NoRequest \notin Requests

VARIABLES
  call,       \* call -> [pc, request]
  info,       \* status of the lot's row of table delivery, "none": no row
  requests,   \* Delivery's processed_request
  events,     \* Delivery's stored_event in commit order
  heard,      \* how many of them the Lot service has handled
  lot,        \* the lot's status in the Lot service
  lotEvents,  \* the Lot service's events about the handover
  settled,    \* how many of them Billing has handled
  blocked,    \* is the winner's payment still blocked?
  earned,     \* payments the owner has received for the lot
  overlapped  \* history: has a call been made while another was under way or
              \* the Lot service had not followed all earlier ones?

deliveryVars == <<call, info, requests, events, overlapped>>
lotVars      == <<heard, lot, lotEvents>>
billingVars  == <<settled, blocked, earned>>
vars == <<deliveryVars, lotVars, billingVars>>

Idle == [pc |-> "idle", request |-> NoRequest]
Steps == {"sent", "received"}

TypeOK ==
  /\ call \in [Calls -> [pc : {"idle", "sending", "receiving"},
                         request : Requests \union {NoRequest}]]
  /\ info \in {"none"} \union Steps
  /\ requests \subseteq Requests
  /\ events \in Seq(Steps)
  /\ heard \in 0 .. Len(events)
  /\ lot \in {"active", "finished"} \union Steps
  /\ lotEvents \in Seq(Steps)
  /\ settled \in 0 .. Len(lotEvents)
  /\ blocked \in BOOLEAN
  /\ earned \in {0, 1}
  /\ overlapped \in BOOLEAN

Init ==
  /\ call = [c \in Calls |-> Idle]
  /\ info = "none" /\ requests = {} /\ events = <<>>
  /\ heard = 0 /\ lot = "active" /\ lotEvents = <<>>
  /\ settled = 0 /\ blocked = TRUE /\ earned = 0
  /\ overlapped = FALSE

----------------------------------------------------------------------------
(* The Delivery service.                                                   *)

\* The calls before are over and the Lot service has followed their events.
Quiet == heard = Len(events) /\ \A c \in Calls : call[c] = Idle

\* A call starts at any time; nothing makes users wait until it is quiet.
MayStart(c) ==
  /\ call[c] = Idle
  /\ overlapped' = (overlapped \/ ~Quiet)

\* An insert of a request id waits for the transaction that has inserted it.
RequestFree(c) ==
  /\ call[c].request \notin requests
  /\ \A d \in Calls \ {c} :
       call[d].pc = "receiving" => call[d].request # call[c].request

\* Mutant of FinishedLot: any status of a lot that is over will do.
OverLot == lot # "active"

\* FindFinishedLotInfo, asked of the Lot service outside any transaction.
FinishedLot == lot = "finished"

StartSent(c, u, r) ==
  /\ MayStart(c)
  /\ FinishedLot
  /\ u = Owner
  /\ call' = [call EXCEPT ![c] = [pc |-> "sending", request |-> r]]
  /\ UNCHANGED <<info, requests, events, lotVars, billingVars>>

\* Mutant of StoreSent: the request id is not looked at.
StoreSentAgain(c) ==
  /\ call[c].pc = "sending"
  /\ requests' = requests \union {call[c].request}
  /\ info' = "sent"
  /\ events' = Append(events, "sent")
  /\ call' = [call EXCEPT ![c] = Idle]
  /\ UNCHANGED <<lotVars, billingVars, overlapped>>

\* The transaction of SetLotSent.  It does not look at the stored row and
\* overwrites it (ON CONFLICT DO UPDATE); nothing it does depends on what a
\* concurrent transaction has read, so it is one step.
StoreSent(c) ==
  /\ call[c].pc = "sending"
  /\ RequestFree(c)
  /\ requests' = requests \union {call[c].request}
  /\ info' = "sent"
  /\ events' = Append(events, "sent")
  /\ call' = [call EXCEPT ![c] = Idle]
  /\ UNCHANGED <<lotVars, billingVars, overlapped>>

\* Mutants of ReceivableBy: a lot may be received twice; or before it is sent.
ReceivableAgain(u) == info # "none" /\ u = Winner
ReceivableUnsent(u) == info # "received" /\ u = Winner

\* FindByLotID and the checks on what it returns.
ReceivableBy(u) == info = "sent" /\ u = Winner

\* The transaction of SetLotReceived up to its checks: the row is read without
\* a lock.
StartReceived(c, u, r) ==
  /\ MayStart(c)
  /\ r \notin requests
  /\ \A d \in Calls : call[d].pc = "receiving" => call[d].request # r
  /\ ReceivableBy(u)
  /\ call' = [call EXCEPT ![c] = [pc |-> "receiving", request |-> r]]
  /\ UNCHANGED <<info, requests, events, lotVars, billingVars>>

\* Mutant of StoreReceived: the row is not stored.
StoreReceivedEventOnly(c) ==
  /\ call[c].pc = "receiving"
  /\ requests' = requests \union {call[c].request}
  /\ events' = Append(events, "received")
  /\ call' = [call EXCEPT ![c] = Idle]
  /\ UNCHANGED <<info, lotVars, billingVars, overlapped>>

\* The rest of it: the event, the row and the commit.
StoreReceived(c) ==
  /\ call[c].pc = "receiving"
  /\ requests' = requests \union {call[c].request}
  /\ info' = "received"
  /\ events' = Append(events, "received")
  /\ call' = [call EXCEPT ![c] = Idle]
  /\ UNCHANGED <<lotVars, billingVars, overlapped>>

\* ErrAlreadyProcessed, a failure of the database or of a service asked, or
\* the end of the process: the transaction is rolled back.
Fail(c) ==
  /\ call[c] # Idle
  /\ call' = [call EXCEPT ![c] = Idle]
  /\ UNCHANGED <<info, requests, events, overlapped, lotVars, billingVars>>

----------------------------------------------------------------------------
(* The Lot service and Billing.                                            *)

\* The auction is won; before that the lot cannot be sent.
FinishLot ==
  /\ lot = "active"
  /\ lot' = "finished"
  /\ UNCHANGED <<deliveryVars, heard, lotEvents, billingVars>>

\* SetLotSent or SetLotReceived of the Lot service, whatever the lot's status.
HandleDelivery ==
  /\ heard < Len(events)
  /\ heard' = heard + 1
  /\ lot' = events[heard']
  /\ lotEvents' = Append(lotEvents, events[heard'])
  /\ UNCHANGED <<deliveryVars, billingVars>>

\* Mutant of IgnoreSent: an event of a type Billing has no handler for is an
\* error, and it is handled again.
RetrySent ==
  /\ settled < Len(lotEvents)
  /\ lotEvents[settled + 1] = "sent"
  /\ UNCHANGED vars

\* Billing handles the Lot service's events in order.  lot_sent is none of its
\* business; lot_received it cannot apply twice, and then it retries for ever.
IgnoreSent ==
  /\ settled < Len(lotEvents)
  /\ lotEvents[settled + 1] = "sent"
  /\ settled' = settled + 1
  /\ UNCHANGED <<deliveryVars, lotVars, blocked, earned>>

Settle ==
  /\ settled < Len(lotEvents)
  /\ lotEvents[settled + 1] = "received"
  /\ blocked
  /\ settled' = settled + 1
  /\ blocked' = FALSE
  /\ earned' = earned + 1
  /\ UNCHANGED <<deliveryVars, lotVars>>

----------------------------------------------------------------------------
Serve(c) == StoreSent(c) \/ StoreReceived(c)
Start(c, u, r) == StartSent(c, u, r) \/ StartReceived(c, u, r)
Bill == IgnoreSent \/ Settle

Next ==
  \/ \E c \in Calls :
       \/ \E u \in Users, r \in Requests : Start(c, u, r)
       \/ Serve(c) \/ Fail(c)
  \/ FinishLot \/ HandleDelivery \/ Bill

Spec == Init /\ [][Next]_vars

\* The consumers of the Lot service and of Billing keep handling events.
FairSpec == Spec /\ WF_vars(HandleDelivery) /\ WF_vars(Bill)

----------------------------------------------------------------------------
(* Properties.                                                             *)

\* Nothing is received that was not sent before, in the events the other
\* services see, though "sent" and "received" are checked by calls that
\* overlap, against two different services' states.
ReceivedAfterSent ==
  \A i \in DOMAIN events :
    events[i] = "received" => \E j \in 1 .. i - 1 : events[j] = "sent"

\* A request id takes effect once: there are as many events as requests
\* recorded, however often a client repeats a call.
OneEventPerRequest == Len(events) = Cardinality(requests)

\* Once the Lot service has handled all events, the two services agree on
\* the lot, although each overwrites its status without looking.
ServicesAgree ==
  heard = Len(events) /\ info # "none" => lot = info

\* description.md: on receipt the blocked funds are withdrawn and transferred
\* to the sender.  So a lot_received Billing has still to handle finds the
\* payment blocked.
ReceivedIsPaid ==
  \A i \in settled + 1 .. Len(lotEvents) :
    lotEvents[i] = "received" => blocked /\ \A j \in settled + 1 .. i - 1 : lotEvents[j] # "received"

\* Users who make one call at a time, and wait for the other services, are
\* always served so: a lot is received, and its payment asked for, once.
ReceivedOnce == ~overlapped => ReceivedIsPaid

\* For them the handover moves forward, in the Delivery service and in the
\* Lot service, though the latter never looks at the status it overwrites.
Stage == [none |-> 0, active |-> 1, finished |-> 2, sent |-> 3, received |-> 4]
HandoverMovesForward ==
  [][~overlapped => Stage[info'] >= Stage[info] /\ Stage[lot'] >= Stage[lot]]_vars

\* And the owner of a received lot is paid in the end, once.
ReceivedIsSettled ==
  info = "received" /\ ~overlapped ~> overlapped \/ (~blocked /\ earned = 1)
============================================================================
