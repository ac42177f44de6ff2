---------------------------- MODULE Notification ----------------------------
(***************************************************************************)
(* The Notification service, a consumer of the stream of EventStream: what *)
(* EventStream's atomic Handle stands for is here the transaction it is in *)
(* the code.  SetEventProcessed inserts the uid of the event, which waits  *)
(* for another transaction that has inserted the same one; AddNotification *)
(* inserts one row at a time, two for a lot that is won; Complete commits  *)
(* or rolls back, and the handler of a failed event is called again.       *)
(*                                                                         *)
(* Notifications have serial ids, taken when the row is inserted.          *)
(*                                                                         *)
(* Sources: notification/app/eventhandler.go, notificationservice.go,      *)
(* notification/infrastructure/postgres/*.go, integrationevent/parser.go,  *)
(* transport/http/server.go.                                               *)
(***************************************************************************)
EXTENDS EventStream, SequencesExt

CONSTANTS
  EventOf,   \* id of an event -> [type, owner, user]; all are of one lot
  Failures,  \* BOUND of the transactions rolled back
  NoTx       \* no transaction

VARIABLES
  notifications,  \* rows committed: [id, event, type, user]
  lastRow,        \* the last serial id taken
  tx,             \* process -> its transaction: [event, todo, rows], or NoTx
  failures

notifyVars == <<notifications, lastRow, tx, failures>>
allVars == <<vars, notifyVars>>

----------------------------------------------------------------------------
(* What an event means to a user.                                          *)

LotFinished(e) == [type |-> "lotFinished", user |-> e.owner]
LotWon(e) == [type |-> "lotWon", user |-> e.user]

\* handleLotWonEvent: the owner first, then the winner.
OfLotWon(e) == <<LotFinished(e), LotWon(e)>>
OfLotClosed(e) == <<[type |-> "lotClosed", user |-> e.owner]>>
OfLotSent(e) == <<[type |-> "lotSent", user |-> e.user]>>
OfLotReceived(e) == <<[type |-> "lotReceived", user |-> e.owner]>>
OfBidOutbid(e) == <<[type |-> "bidOutbid", user |-> e.user]>>

\* The parser: types it does not know become no event.
EventTypes == {"lot_won", "lot_closed", "lot_sent", "lot_received", "bid_outbid"}
Parsed(id) == EventOf[id].type \in EventTypes

NotificationsOf(id) ==
  LET e == EventOf[id] IN
  CASE e.type = "lot_won"      -> OfLotWon(e)
    [] e.type = "lot_closed"   -> OfLotClosed(e)
    [] e.type = "lot_sent"     -> OfLotSent(e)
    [] e.type = "lot_received" -> OfLotReceived(e)
    [] e.type = "bid_outbid"   -> OfBidOutbid(e)
    [] OTHER                   -> <<>>

ASSUME NotificationAssumption ==
  /\ Failures \in Nat
  /\ DOMAIN EventOf = 1 .. MaxEvents
  /\ Relevant = { id \in 1 .. MaxEvents : Parsed(id) }

Row(serial, id, n) == [id |-> serial, event |-> id, type |-> n.type, user |-> n.user]

----------------------------------------------------------------------------
(* The handler.                                                            *)

ConsumerGoesOn(k) == consumer' = [consumer EXCEPT ![k] = "handled"]
StreamUnchanged ==
  UNCHANGED <<serviceVars, stream, position, unstored, offset, ignored, faultVars>>

\* Mutant of Unlocked: the insert of an event uid waits for nobody.
UnlockedAlways(id) == TRUE

\* No open transaction has inserted this uid.
Unlocked(id) == \A k \in Consumers : tx[k] # NoTx => tx[k].event # id

\* ParseIntegrationEvent: nothing to do, or SetEventProcessed finds the uid.
NothingToDo(k) ==
  /\ consumer[k] = "ready" /\ tx[k] = NoTx
  /\ Delivered(k)
  /\ \/ ~Parsed(NextMessage(k))
     \/ Unlocked(NextMessage(k)) /\ NextMessage(k) \in processed
  /\ ConsumerGoesOn(k)
  /\ UNCHANGED <<processed, applied, notifyVars>> /\ StreamUnchanged

SetEventProcessed(k) ==
  /\ consumer[k] = "ready" /\ tx[k] = NoTx
  /\ Delivered(k)
  /\ LET id == NextMessage(k)
     IN  /\ Parsed(id) /\ Unlocked(id) /\ id \notin processed
         /\ tx' = [tx EXCEPT ![k] = [event |-> id, todo |-> NotificationsOf(id), rows |-> {}]]
  /\ UNCHANGED <<vars, notifications, lastRow, failures>>

\* Mutant of AddNotification: rows are visible before the transaction ends.
AddNotificationNow(k) ==
  /\ tx[k] # NoTx
  /\ tx[k].todo # <<>>
  /\ lastRow' = lastRow + 1
  /\ notifications' = notifications \union {Row(lastRow', tx[k].event, Head(tx[k].todo))}
  /\ tx' = [tx EXCEPT ![k].todo = Tail(@)]
  /\ UNCHANGED <<vars, failures>>

\* AddNotification: Store.
AddNotification(k) ==
  /\ tx[k] # NoTx
  /\ tx[k].todo # <<>>
  /\ lastRow' = lastRow + 1
  /\ tx' = [tx EXCEPT ![k] =
               [event |-> @.event, todo |-> Tail(@.todo),
                rows |-> @.rows \union {Row(lastRow', @.event, Head(@.todo))}]]
  /\ UNCHANGED <<vars, notifications, failures>>

\* Mutant of Complete: the rows are stored, the uid of the event is not.
CompleteUnrecorded(k) ==
  /\ tx[k] # NoTx
  /\ tx[k].todo = <<>>
  /\ notifications' = notifications \union tx[k].rows
  /\ applied' = Append(applied, tx[k].event)
  /\ tx' = [tx EXCEPT ![k] = NoTx]
  /\ ConsumerGoesOn(k)
  /\ UNCHANGED <<processed, lastRow, failures>> /\ StreamUnchanged

\* Complete(nil): the uid and the rows, together.
Complete(k) ==
  /\ tx[k] # NoTx
  /\ tx[k].todo = <<>>
  /\ notifications' = notifications \union tx[k].rows
  /\ processed' = processed \union {tx[k].event}
  /\ applied' = Append(applied, tx[k].event)
  /\ tx' = [tx EXCEPT ![k] = NoTx]
  /\ ConsumerGoesOn(k)
  /\ UNCHANGED <<lastRow, failures>> /\ StreamUnchanged

\* Mutant of HandleFails: the consumer goes on to the next message.
GiveUp(k) ==
  /\ tx[k] # NoTx
  /\ failures < Failures
  /\ failures' = failures + 1
  /\ tx' = [tx EXCEPT ![k] = NoTx]
  /\ ConsumerGoesOn(k)
  /\ UNCHANGED <<processed, applied, notifications, lastRow>> /\ StreamUnchanged

\* An insert or the commit fails: Rollback, and backoff.Retry calls Handle
\* again.
HandleFails(k) ==
  /\ tx[k] # NoTx
  /\ failures < Failures
  /\ failures' = failures + 1
  /\ tx' = [tx EXCEPT ![k] = NoTx]
  /\ UNCHANGED <<vars, notifications, lastRow>>

\* The transaction of a process that ends is rolled back.
NotifierStops(k) ==
  /\ ConsumerStops(k)
  /\ tx[k] # NoTx => failures < Failures
  /\ failures' = IF tx[k] # NoTx THEN failures + 1 ELSE failures
  /\ tx' = [tx EXCEPT ![k] = NoTx]
  /\ UNCHANGED <<notifications, lastRow>>

----------------------------------------------------------------------------
NotifyInit ==
  /\ Init
  /\ notifications = {} /\ lastRow = 0 /\ failures = 0
  /\ tx = [k \in Consumers |-> NoTx]

HandleEvent(k) ==
  NothingToDo(k) \/ SetEventProcessed(k) \/ AddNotification(k) \/ Complete(k)

NotifyNext ==
  \/ Publishing /\ UNCHANGED notifyVars
  \/ \E k \in Consumers :
       \/ (Receive(k) \/ Ignore(k)) /\ UNCHANGED notifyVars
       \/ HandleEvent(k) \/ HandleFails(k) \/ NotifierStops(k)

NotifySpec == NotifyInit /\ [][NotifyNext]_allVars

\* As in EventStream; a process of the service goes on handling its event.
NotifyFairSpec ==
  /\ NotifySpec
  /\ PublishingFairness
  /\ \A k \in Consumers :
       WF_allVars((Receive(k) /\ UNCHANGED notifyVars) \/ HandleEvent(k))

----------------------------------------------------------------------------
(* Properties.                                                             *)

NotifyTypeOK ==
  /\ TypeOK
  /\ \A k \in Consumers :
       tx[k] # NoTx =>
         /\ tx[k].event \in Relevant /\ consumer[k] = "ready"
         /\ \A row \in tx[k].rows : row.event = tx[k].event /\ row.id \in 1 .. lastRow
  /\ \A row \in notifications : row.id \in 1 .. lastRow
  /\ failures \in 0 .. Failures

\* FindAllByUserID: r comes before s, as the rows of a user are ordered by id.
ListedBefore(r, s) == r.user = s.user /\ r.id < s.id

\* Retries, redelivery and an overlapping second process notwithstanding, the
\* table holds each notification of each processed event once and no other:
\* never one of the two users of a won lot without the other.
NotifiedOnce ==
  { <<row.event, row.type, row.user>> : row \in notifications }
    = UNION { { <<id, n.type, n.user>> : n \in ToSet(NotificationsOf(id)) } : id \in processed }
  /\ \A r, s \in notifications :
       <<r.event, r.type, r.user>> = <<s.event, s.type, s.user>> => r = s

\* GET notifications lists a user's notifications in the order of the events
\* they tell of, but for events that first came before the handler: nobody reads
\* of a bid outbid after the lot was won.
ListedInOrder ==
  \A r, s \in notifications :
    r.user = s.user /\ r # s =>
      /\ ListedBefore(r, s) \/ ListedBefore(s, r)
      /\ ListedBefore(r, s) /\ r.event > s.event => s.event \in ignored

\* The detailed handler implements the atomic one: to the stream and its
\* offsets nothing is visible but Handle of EventStream.
StreamRefined == Spec
============================================================================
