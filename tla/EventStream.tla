---------------------------- MODULE EventStream ----------------------------
(***************************************************************************)
(* How integration events travel from a service to a consumer: the         *)
(* transactional outbox (table stored_event and its sender), the one       *)
(* RabbitMQ stream all services share, and the consumer loop that handles  *)
(* each event in a transaction and stores its offset now and then.  Which   *)
(* change a consumer makes is left open: Notification says it of one.      *)
(*                                                                         *)
(* An event is known here by its id in stored_event, a serial number.  The *)
(* sender passes it to the broker as the publishing id, and the broker     *)
(* drops, but confirms, a message whose publishing id is not greater than  *)
(* the last one it has accepted from the producer of that name.            *)
(*                                                                         *)
(* Sources: common/infrastructure/storedevent/sender.go,                   *)
(* common/infrastructure/streams/*.go, postgres/eventstore.go of the       *)
(* producing services, common/infrastructure/integrationevent/consumer.go. *)
(***************************************************************************)
EXTENDS Integers, Sequences, FiniteSets

CONSTANTS
  Writers,        \* goroutines of the service whose transactions add events
  Ticker,         \* the sender's own goroutine
  MaxEvents,      \* BOUND of the serial number
  Backlog,        \* events published before the consuming service first started
  Losses,         \* BOUND of the messages lost on the way to the broker
  Crashes,        \* BOUND of the restarts of the service
  Consumers,      \* processes of the consuming service: the old one and its
                  \* successor overlap while a new version is rolled out
  Relevant,       \* ids of the events whose type its parser knows
  Stops,          \* BOUND of the restarts of a consumer
  Sorted,         \* TRUE: queries without ORDER BY return rows by id
  CountBeforeStorage  \* messages between two stores of the offset: 2

ASSUME StreamAssumption ==
  /\ Ticker \notin Writers
  /\ Relevant \subseteq 1 .. MaxEvents
  /\ MaxEvents \in Nat /\ Backlog \in 0 .. MaxEvents
  /\ Losses \in Nat /\ Crashes \in Nat /\ Stops \in Nat
  /\ Sorted \in BOOLEAN
  /\ CountBeforeStorage \in Nat \ {0}

VARIABLES
  lastId,     \* the last serial number taken
  work,       \* writer -> its transaction: pc, the ids it has added, its start
  added,      \* addedEventUids, shared by all goroutines without a lock
  batch,      \* writer or ticker -> messages of its BatchSend to publish
  rows,       \* committed rows of stored_event
  created,    \* id -> created_at of its row: lastId when its transaction began
  confirmed,  \* rows with confirmed = TRUE
  acks,       \* confirmations of the broker not yet recorded
  stream,     \* the messages the broker has accepted
  consumer,   \* process -> "down", "starting": no handler yet, "ready", "handled"
  position,   \* process -> messages of the stream its connection has consumed
  unstored,   \* process -> messages since it last stored the offset
  offset,     \* the offset stored under the name of the service
  processed,  \* event ids in the consumer's processed_request
  applied,    \* ids in the order the consumer's transactions took effect
  ignored,    \* history: ids that arrived before the consumer had its handler
  losses, crashes, stops

serviceVars  == <<lastId, work, added, batch, rows, created, confirmed, acks>>
consumerVars == <<consumer, position, unstored, offset, processed, applied, ignored>>
faultVars == <<losses, crashes, stops>>
vars == <<serviceVars, stream, consumerVars, faultVars>>

Ids == 1 .. MaxEvents
Senders == Writers \union {Ticker}
Idle == [pc |-> "idle", ids |-> {}, since |-> 0]

TypeOK ==
  /\ lastId \in 0 .. MaxEvents
  /\ work \in [Writers -> [pc : {"idle", "open", "committed", "sending"},
                         ids : SUBSET Ids, since : 0 .. MaxEvents]]
  /\ created \in [Ids -> 0 .. MaxEvents]
  /\ added \subseteq Ids
  /\ batch \in [Senders -> Seq(Ids)]
  /\ rows \subseteq Ids /\ confirmed \subseteq rows /\ acks \subseteq rows
  /\ stream \in Seq(Ids)
  /\ consumer \in [Consumers -> {"down", "starting", "ready", "handled"}]
  /\ position \in [Consumers -> 0 .. Len(stream)] /\ offset \in 0 .. Len(stream)
  /\ unstored \in [Consumers -> 0 .. CountBeforeStorage - 1]
  /\ processed \subseteq Relevant
  /\ applied \in Seq(Ids)
  /\ ignored \subseteq Ids
  /\ losses \in 0 .. Losses /\ crashes \in 0 .. Crashes /\ stops \in 0 .. Stops

Init ==
  /\ lastId = Backlog
  /\ work = [w \in Writers |-> Idle]
  /\ added = {}
  /\ batch = [s \in Senders |-> <<>>]
  /\ rows = 1 .. Backlog /\ confirmed = 1 .. Backlog /\ acks = {}
  /\ created = [id \in Ids |-> 0]
  /\ stream = [id \in 1 .. Backlog |-> id]
  /\ consumer = [k \in Consumers |-> "down"]
  /\ position = [k \in Consumers |-> 0] /\ unstored = [k \in Consumers |-> 0]
  /\ offset = 0
  /\ processed = {} /\ applied = <<>> /\ ignored = {}
  /\ losses = 0 /\ crashes = 0 /\ stops = 0

----------------------------------------------------------------------------
(* The outbox.                                                             *)

Busy(w) == work[w].pc # "idle"

Begin(w) ==
  /\ ~Busy(w)
  /\ lastId < MaxEvents
  /\ work' = [work EXCEPT ![w] = [pc |-> "open", ids |-> {}, since |-> lastId]]
  /\ UNCHANGED <<lastId, added, batch, rows, created, confirmed, acks, stream,
                 consumerVars, faultVars>>

\* EventStore().Add and EventStored, inside the transaction: the serial number
\* and the entry of addedEventUids do not wait for its commit, and of two
\* racing appends one may be lost.
AddEvent(w) ==
  /\ work[w].pc = "open"
  /\ lastId < MaxEvents
  /\ lastId' = lastId + 1
  /\ work' = [work EXCEPT ![w].ids = @ \union {lastId'}]
  /\ \/ added' = added \union {lastId'}
     \/ (\E v \in Writers \ {w} : Busy(v)) /\ UNCHANGED added
  /\ UNCHANGED <<batch, rows, created, confirmed, acks, stream, consumerVars, faultVars>>

Commit(w) ==
  /\ work[w].pc = "open"
  /\ work[w].ids # {}
  /\ work' = [work EXCEPT ![w].pc = "committed"]
  /\ rows' = rows \union work[w].ids
  /\ created' = [id \in Ids |-> IF id \in work[w].ids THEN work[w].since ELSE created[id]]
  /\ UNCHANGED <<lastId, added, batch, confirmed, acks, stream, consumerVars, faultVars>>

Rollback(w) ==
  /\ work[w].pc = "open"
  /\ work' = [work EXCEPT ![w] = Idle]
  /\ UNCHANGED <<lastId, added, batch, rows, created, confirmed, acks, stream, consumerVars, faultVars>>

\* Mutant of Orders: the newest rows first.
OrdersDescending(S) ==
  { s \in [1 .. Cardinality(S) -> S] :
      \A i, j \in DOMAIN s : i < j => s[i] > s[j] }

\* The orders in which a query may return a set of rows.
Orders(S) ==
  { s \in [1 .. Cardinality(S) -> S] :
      \A i, j \in DOMAIN s : i < j => IF Sorted THEN s[i] < s[j] ELSE s[i] # s[j] }

\* SendStoredEvents: nothing was added, or FindByUIDs of what was added.
NothingToSend(w) ==
  /\ work[w].pc = "committed"
  /\ added = {}
  /\ work' = [work EXCEPT ![w] = Idle]
  /\ UNCHANGED <<lastId, added, batch, rows, created, confirmed, acks, stream, consumerVars, faultVars>>

\* Mutant of FindAdded: what was added is taken from memory, not from the table.
FindAddedUncommitted(w) ==
  /\ work[w].pc = "committed"
  /\ added # {}
  /\ work' = [work EXCEPT ![w].pc = "sending"]
  /\ \E found \in Orders(added) : batch' = [batch EXCEPT ![w] = found]
  /\ UNCHANGED <<lastId, added, rows, created, confirmed, acks, stream, consumerVars, faultVars>>

FindAdded(w) ==
  /\ work[w].pc = "committed"
  /\ added # {}
  /\ work' = [work EXCEPT ![w].pc = "sending"]
  /\ \E found \in Orders(added \intersect rows) : batch' = [batch EXCEPT ![w] = found]
  /\ UNCHANGED <<lastId, added, rows, created, confirmed, acks, stream, consumerVars, faultVars>>

\* The end of SendStoredEvents: addedEventUids = nil, whatever was added since.
Sent(w) ==
  /\ work[w].pc = "sending"
  /\ batch[w] = <<>>
  /\ work' = [work EXCEPT ![w] = Idle]
  /\ added' = {}
  /\ UNCHANGED <<lastId, batch, rows, created, confirmed, acks, stream, consumerVars, faultVars>>

\* The ticker's FindAllUnconfirmedBefore; how long ago is left open.
FindUnconfirmed ==
  /\ batch[Ticker] = <<>>
  /\ \E before \in 1 .. MaxEvents :
       LET old == { id \in rows \ confirmed : created[id] < before }
       IN  /\ old # {}
           /\ \E found \in Orders(old) : batch' = [batch EXCEPT ![Ticker] = found]
  /\ UNCHANGED <<lastId, work, added, rows, created, confirmed, acks, stream, consumerVars, faultVars>>

----------------------------------------------------------------------------
(* The broker.                                                             *)

LastPublished == IF stream = <<>> THEN 0 ELSE stream[Len(stream)]

\* A message is accepted or dropped as a duplicate, and confirmed.
Publish(s) ==
  /\ batch[s] # <<>>
  /\ LET id == Head(batch[s])
     IN  /\ stream' = IF id > LastPublished THEN Append(stream, id) ELSE stream
         /\ acks' = acks \union {id}
  /\ batch' = [batch EXCEPT ![s] = Tail(@)]
  /\ UNCHANGED <<lastId, work, added, rows, created, confirmed, consumerVars, faultVars>>

\* The rest of a batch does not reach the broker.
LoseBatch(s) ==
  /\ batch[s] # <<>>
  /\ losses < Losses
  /\ losses' = losses + 1
  /\ batch' = [batch EXCEPT ![s] = <<>>]
  /\ UNCHANGED <<lastId, work, added, rows, created, confirmed, acks, stream, consumerVars, crashes, stops>>

\* msgConfirmation: ConfirmDelivery.
Confirm(id) ==
  /\ id \in acks
  /\ acks' = acks \ {id}
  /\ confirmed' = confirmed \union {id}
  /\ UNCHANGED <<lastId, work, added, batch, rows, created, stream, consumerVars, faultVars>>

\* The service restarts: what it keeps in memory is gone.
RestartService ==
  /\ crashes < Crashes
  /\ crashes' = crashes + 1
  /\ work' = [w \in Writers |-> Idle]
  /\ added' = {}
  /\ batch' = [s \in Senders |-> <<>>]
  /\ acks' = {}
  /\ UNCHANGED <<lastId, rows, created, confirmed, stream, consumerVars, losses, stops>>

----------------------------------------------------------------------------
(* The consumer: its processes, one database and one stored offset.        *)

\* AddConsumer subscribes at the last stored offset; its message may come
\* again.
Subscribe(k) ==
  /\ consumer[k] = "down"
  /\ consumer' = [consumer EXCEPT ![k] = "starting"]
  /\ \E p \in { p \in 0 .. Len(stream) : p = offset \/ p + 1 = offset } :
       position' = [position EXCEPT ![k] = p]
  /\ unstored' = [unstored EXCEPT ![k] = 0]
  /\ UNCHANGED <<serviceVars, stream, offset, processed, applied, ignored, faultVars>>

\* The message a process is given next.
Delivered(k) == position[k] < Len(stream)
NextMessage(k) == stream[position[k] + 1]

\* Mutant of Consumed: the offset of the next message is stored.
ConsumedNext(k) ==
  /\ position' = [position EXCEPT ![k] = @ + 1]
  /\ unstored' = [unstored EXCEPT ![k] = (@ + 1) % CountBeforeStorage]
  /\ offset' = IF unstored'[k] = 0 THEN position'[k] + 1 ELSE offset

\* Auto commit: every CountBeforeStorage messages the offset is stored.
Consumed(k) ==
  /\ position' = [position EXCEPT ![k] = @ + 1]
  /\ unstored' = [unstored EXCEPT ![k] = (@ + 1) % CountBeforeStorage]
  /\ offset' = IF unstored'[k] = 0 THEN position'[k] ELSE offset

\* No consumer in the map, or no handler in it yet: the message is ignored.
Ignore(k) ==
  /\ consumer[k] = "starting"
  /\ Delivered(k)
  /\ Consumed(k)
  /\ ignored' = ignored \union {NextMessage(k)}
  /\ UNCHANGED <<serviceVars, stream, consumer, processed, applied, faultVars>>

SetMessageHandler(k) ==
  /\ consumer[k] = "starting"
  /\ consumer' = [consumer EXCEPT ![k] = "ready"]
  /\ UNCHANGED <<serviceVars, stream, position, unstored, offset, processed, applied,
                 ignored, faultVars>>

\* Mutant of Handle: processed_request is not looked at.
HandleAgain(k) ==
  /\ consumer[k] = "ready"
  /\ Delivered(k)
  /\ consumer' = [consumer EXCEPT ![k] = "handled"]
  /\ processed' = processed \union {NextMessage(k)}
  /\ applied' = Append(applied, NextMessage(k))
  /\ UNCHANGED <<serviceVars, stream, position, unstored, offset, ignored, faultVars>>

\* Handle: SetEventProcessed and the change in one transaction, or nothing
\* for an event of another type or one processed before.
Handle(k) ==
  /\ consumer[k] = "ready"
  /\ Delivered(k)
  /\ consumer' = [consumer EXCEPT ![k] = "handled"]
  /\ LET new == {NextMessage(k)} \intersect (Relevant \ processed)
     IN  /\ processed' = processed \union new
         /\ applied' = IF new = {} THEN applied ELSE Append(applied, NextMessage(k))
  /\ UNCHANGED <<serviceVars, stream, position, unstored, offset, ignored, faultVars>>

HandlerReturns(k) ==
  /\ consumer[k] = "handled"
  /\ consumer' = [consumer EXCEPT ![k] = "ready"]
  /\ Consumed(k)
  /\ UNCHANGED <<serviceVars, stream, processed, applied, ignored, faultVars>>

\* Mutant of ConsumerStops: the message it was given counts as consumed.
ConsumerStopsConsumed(k) ==
  /\ consumer[k] = "ready"
  /\ stops < Stops
  /\ stops' = stops + 1
  /\ consumer' = [consumer EXCEPT ![k] = "down"]
  /\ Delivered(k) /\ Consumed(k)
  /\ UNCHANGED <<serviceVars, stream, processed, applied, ignored, losses, crashes>>

\* Fatalf after the last retry, or the process ends.
ConsumerStops(k) ==
  /\ consumer[k] # "down"
  /\ stops < Stops
  /\ stops' = stops + 1
  /\ consumer' = [consumer EXCEPT ![k] = "down"]
  /\ UNCHANGED <<serviceVars, stream, position, unstored, offset, processed, applied,
                 ignored, losses, crashes>>

----------------------------------------------------------------------------
SendStored(w) == NothingToSend(w) \/ FindAdded(w) \/ Sent(w)
Publishing ==
  \/ \E w \in Writers : Begin(w) \/ AddEvent(w) \/ Commit(w) \/ Rollback(w) \/ SendStored(w)
  \/ FindUnconfirmed
  \/ \E s \in Senders : Publish(s) \/ LoseBatch(s)
  \/ \E id \in Ids : Confirm(id)
  \/ RestartService

Receive(k) == Subscribe(k) \/ SetMessageHandler(k) \/ HandlerReturns(k)

Next ==
  \/ Publishing
  \/ \E k \in Consumers : Receive(k) \/ Ignore(k) \/ Handle(k) \/ ConsumerStops(k)

Spec == Init /\ [][Next]_vars

\* Goroutines go on, the ticker ticks, the broker answers.
PublishingFairness ==
  /\ \A w \in Writers : WF_vars(SendStored(w))
  /\ WF_vars(FindUnconfirmed)
  /\ \A s \in Senders : WF_vars(Publish(s))
  /\ \A id \in Ids : WF_vars(Confirm(id))

\* And a consumer that stopped is started again.
FairSpec ==
  /\ Spec
  /\ PublishingFairness
  /\ \A k \in Consumers : WF_vars(Receive(k) \/ Handle(k))

----------------------------------------------------------------------------
(* Properties.                                                             *)

\* No event of a transaction that is open or rolled back is published, though
\* the sender learns of it before the commit and publishes the events of all
\* goroutines together.
PublishedIsCommitted ==
  \A i \in DOMAIN stream : stream[i] \in rows

\* The consumer applies each event once, and in the order of the ids but for
\* those it first ignored, whatever is resent, redelivered or lost.
AppliedInOrder ==
  \A i, j \in DOMAIN applied :
    i < j => /\ applied[i] # applied[j]
             /\ applied[i] < applied[j] \/ applied[j] \in ignored

\* A stored offset covers only messages whose handling is committed, and those
\* that came too early for the handler.
NothingSkipped ==
  \A i \in 1 .. offset : stream[i] \in Relevant => stream[i] \in processed \union ignored

\* description.md: funds of an outbid bid return to the account, Billing
\* listening to the event.  So no event is given up before it is in the
\* stream: a row marked as delivered is.
ConfirmedIsPublished ==
  \A id \in confirmed : \E i \in DOMAIN stream : stream[i] = id

\* A stored event is handled in the end, or came before its handler.
EveryEventHandled ==
  \A id \in Relevant : id \in rows ~> id \in processed \union ignored
============================================================================
