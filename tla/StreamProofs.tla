---------------------------- MODULE StreamProofs ----------------------------
(***************************************************************************)
(* Theorems about EventStream and about Notification, a consumer of it,    *)
(* for any number of writers, events, restarts, consumer processes and     *)
(* failed transactions, and whatever order rows are read in.               *)
(*                                                                         *)
(* The publishing side (Outbox) keeps the stream increasing and made of    *)
(* committed rows; its steps only lengthen the stream.  On the consuming   *)
(* side each process has dealt with all messages before its position       *)
(* (Done), and so has whoever applied an event with the messages before    *)
(* it: that is what makes the order of applied that of the stream.         *)
(*                                                                         *)
(* The transactions of Notification implement the atomic Handle of         *)
(* EventStream: an open transaction is about the message its process was   *)
(* given, which nobody has processed (TxOK).  The last part follows the    *)
(* rows from the sequence still to be stored to the open transaction and   *)
(* to the table.                                                           *)
(***************************************************************************)
EXTENDS Notification, FiniteSetTheorems, SequenceTheorems, TLAPS

WorkState == [pc : {"idle", "open", "committed", "sending"},
              ids : SUBSET Ids, since : 0 .. MaxEvents]

\* The service and the broker: what is to be published, or confirmed, or is in
\* the stream, is a committed row.
OutboxType ==
  /\ lastId \in 0 .. MaxEvents
  /\ work \in [Writers -> WorkState]
  /\ created \in [Ids -> 0 .. MaxEvents]
  /\ added \subseteq Ids
  /\ rows \subseteq Ids
  /\ batch \in [Senders -> Seq(rows)]
  /\ confirmed \subseteq rows /\ acks \subseteq rows
  /\ stream \in Seq(rows)
  /\ losses \in 0 .. Losses /\ crashes \in 0 .. Crashes

Increasing == \A i, j \in 1 .. Len(stream) : i < j => stream[i] < stream[j]

ConsumerType ==
  /\ consumer \in [Consumers -> {"down", "starting", "ready", "handled"}]
  /\ position \in [Consumers -> 0 .. Len(stream)] /\ offset \in 0 .. Len(stream)
  /\ unstored \in [Consumers -> 0 .. CountBeforeStorage - 1]
  /\ processed \subseteq Relevant
  /\ applied \in Seq(Ids)
  /\ ignored \subseteq Ids
  /\ stops \in 0 .. Stops
  /\ \A k \in Consumers : consumer[k] = "handled" => Delivered(k)

\* The first n messages are dealt with.
Done(n) == \A i \in 1 .. n : stream[i] \in Relevant => stream[i] \in processed \union ignored

\* x took effect when the messages before it had been dealt with.
AppliedInTurn(x) == \E n \in 1 .. Len(stream) : stream[n] = x /\ Done(n - 1)

Handling ==
  /\ Done(offset)
  /\ \A k \in Consumers : Done(position[k])
  /\ \A k \in Consumers :
       consumer[k] = "handled" /\ NextMessage(k) \in Relevant => NextMessage(k) \in processed
  /\ \A x \in processed : AppliedInTurn(x)
  /\ \A i \in 1 .. Len(applied) : applied[i] \in processed

IInv == OutboxType /\ Increasing /\ ConsumerType /\ Handling /\ AppliedInOrder

----------------------------------------------------------------------------
(* The publishing side.                                                    *)

\* A query returns its rows, in some order.
LEMMA OrdersReturnRows ==
  ASSUME NEW S \in SUBSET Ids, NEW s \in Orders(S)
  PROVE  s \in Seq(S)
<1>1. IsFiniteSet(Ids)
  BY StreamAssumption, FS_Interval DEF Ids
<1>2. Cardinality(S) \in Nat
  BY <1>1, FS_Subset, FS_CardinalityType
<1>3. s \in [1 .. Cardinality(S) -> S]
  BY DEF Orders
<1>4. QED
  BY <1>2, <1>3

LEMMA InitOutbox == Init => OutboxType /\ Increasing
<1> SUFFICES ASSUME Init PROVE OutboxType /\ Increasing
  OBVIOUS
<1>1. Backlog \in Nat /\ MaxEvents \in Nat /\ Backlog <= MaxEvents
  BY StreamAssumption
<1>2. rows \subseteq Ids /\ stream \in [1 .. Backlog -> rows]
  BY <1>1 DEF Init, Ids
<1>3. stream \in Seq(rows) /\ Len(stream) = Backlog
  BY <1>1, <1>2
<1>4. Idle \in WorkState
  BY <1>1 DEF Idle, WorkState
<1>5. batch \in [Senders -> Seq(rows)]
  BY EmptySeq DEF Init
<1>6. OutboxType
  BY <1>1, <1>2, <1>3, <1>4, <1>5, StreamAssumption DEF Init, OutboxType
<1>7. Increasing
  BY <1>3 DEF Init, Increasing
<1>8. QED
  BY <1>6, <1>7

\* How a step of the publishing side looks to the consumers.
StreamGrows ==
  /\ Len(stream) <= Len(stream')
  /\ \A i \in 1 .. Len(stream) : stream'[i] = stream[i]

LEMMA PublishingOutbox ==
  ASSUME OutboxType, Increasing, Publishing
  PROVE  OutboxType' /\ Increasing' /\ StreamGrows /\ UNCHANGED <<consumerVars, stops>>
<1> USE DEF consumerVars, faultVars
<1>0. /\ MaxEvents \in Nat /\ Losses \in Nat /\ Crashes \in Nat /\ Idle \in WorkState
      /\ <<>> \in Seq(rows) /\ Len(stream) \in Nat
  BY StreamAssumption, EmptySeq, LenProperties DEF Idle, WorkState, OutboxType
<1>1. ASSUME UNCHANGED stream, rows \subseteq rows'
      PROVE  Increasing' /\ StreamGrows /\ stream' \in Seq(rows')
  BY <1>0, <1>1, SeqMonotonic DEF Increasing, StreamGrows, OutboxType
<1>2. ASSUME NEW w \in Writers, Begin(w)
      PROVE  OutboxType' /\ UNCHANGED <<stream, rows, consumerVars, stops>>
  BY <1>0, <1>2 DEF Begin, OutboxType, WorkState
<1>3. ASSUME NEW w \in Writers, AddEvent(w)
      PROVE  OutboxType' /\ UNCHANGED <<stream, rows, consumerVars, stops>>
  <2>1. lastId' \in Ids
    BY <1>0, <1>3 DEF AddEvent, OutboxType, Ids
  <2>2. work' \in [Writers -> WorkState]
    BY <1>3, <2>1 DEF AddEvent, OutboxType, WorkState
  <2>3. QED
    BY <1>0, <1>3, <2>1, <2>2 DEF AddEvent, OutboxType, Ids
<1>4. ASSUME NEW w \in Writers, Commit(w)
      PROVE  OutboxType' /\ UNCHANGED <<stream, consumerVars, stops>> /\ rows \subseteq rows'
  <2>1. work[w].ids \subseteq Ids /\ work[w].since \in 0 .. MaxEvents
    BY <1>4 DEF OutboxType, WorkState
  <2>2. work' \in [Writers -> WorkState]
    BY <1>4 DEF Commit, OutboxType, WorkState
  <2>3. created' \in [Ids -> 0 .. MaxEvents]
    BY <1>4, <2>1 DEF Commit, OutboxType
  <2>4. rows' \subseteq Ids /\ rows \subseteq rows'
    BY <1>4, <2>1 DEF Commit, OutboxType
  <2>5. stream' \in Seq(rows')
    BY <1>4, <2>4, SeqMonotonic DEF Commit, OutboxType
  <2>6. \A s \in Senders : batch[s] \in Seq(rows')
    BY <2>4, SeqMonotonic DEF OutboxType
  <2>7. batch' \in [Senders -> Seq(rows')]
    BY <1>4, <2>6 DEF Commit, OutboxType
  <2>8. QED
    BY <1>4, <2>2, <2>3, <2>4, <2>5, <2>7 DEF Commit, OutboxType
<1>5. ASSUME NEW w \in Writers, Rollback(w) \/ NothingToSend(w) \/ Sent(w)
      PROVE  OutboxType' /\ UNCHANGED <<stream, rows, consumerVars, stops>>
  <2>1. work' \in [Writers -> WorkState]
    BY <1>0, <1>5 DEF Rollback, NothingToSend, Sent, OutboxType
  <2>2. QED
    BY <1>5, <2>1 DEF Rollback, NothingToSend, Sent, OutboxType
<1>6. ASSUME NEW w \in Writers, FindAdded(w)
      PROVE  OutboxType' /\ UNCHANGED <<stream, rows, consumerVars, stops>>
  <2>1. PICK found \in Orders(added \intersect rows) : batch' = [batch EXCEPT ![w] = found]
    BY <1>6 DEF FindAdded
  <2>2. found \in Seq(added \intersect rows)
    BY <2>1, OrdersReturnRows DEF OutboxType
  <2>3. found \in Seq(rows)
    BY <2>2, SeqMonotonic
  <2>4. batch' \in [Senders -> Seq(rows)]
    BY <2>1, <2>3 DEF OutboxType, Senders
  <2>5. work' \in [Writers -> WorkState]
    BY <1>6 DEF FindAdded, OutboxType, WorkState
  <2>6. QED
    BY <1>6, <2>4, <2>5 DEF FindAdded, OutboxType
<1>7. CASE FindUnconfirmed
  <2>0. PICK before \in 1 .. MaxEvents :
          \E found \in Orders({ id \in rows \ confirmed : created[id] < before }) :
            batch' = [batch EXCEPT ![Ticker] = found]
    BY <1>7 DEF FindUnconfirmed
  <2> DEFINE old == { id \in rows \ confirmed : created[id] < before }
  <2>1. PICK found \in Orders(old) : batch' = [batch EXCEPT ![Ticker] = found]
    BY <2>0
  <2>2. old \in SUBSET rows /\ rows \subseteq Ids
    BY DEF OutboxType
  <2> HIDE DEF old
  <2>3. found \in Seq(rows)
    BY <2>1, <2>2, OrdersReturnRows, SeqMonotonic
  <2>4. batch' \in [Senders -> Seq(rows)]
    BY <2>1, <2>3 DEF OutboxType, Senders
  <2>5. QED
    BY <1>1, <1>7, <2>4 DEF FindUnconfirmed, OutboxType
<1>8. ASSUME NEW s \in Senders, Publish(s)
      PROVE  OutboxType' /\ Increasing' /\ StreamGrows /\ UNCHANGED <<consumerVars, stops>>
  <2> DEFINE id == Head(batch[s])
  <2>0. rows \subseteq Nat
    BY <1>0 DEF OutboxType, Ids
  <2>1. id \in rows /\ Tail(batch[s]) \in Seq(rows)
    BY <1>8, HeadTailProperties DEF Publish, OutboxType
  <2>2. batch' \in [Senders -> Seq(rows)]
    BY <1>8, <2>1 DEF Publish, OutboxType
  <2>3. acks' \subseteq rows
    BY <1>8, <2>1 DEF Publish, OutboxType
  <2>4. CASE id > LastPublished
    <3>1. stream' = Append(stream, id)
      BY <1>8, <2>4 DEF Publish
    <3>2. /\ stream' \in Seq(rows) /\ Len(stream') = Len(stream) + 1
          /\ \A i \in 1 .. Len(stream) : stream'[i] = stream[i]
          /\ stream'[Len(stream')] = id
      BY <1>0, <2>1, <3>1 DEF OutboxType
    <3>3. \A i \in 1 .. Len(stream) : stream[i] \in Nat
      <4>1. \A i \in 1 .. Len(stream) : stream[i] \in rows
        BY ElementOfSeq DEF OutboxType
      <4>2. QED
        BY <2>0, <4>1
    <3>4. \A i \in 1 .. Len(stream) : stream[i] < id
      <4> SUFFICES ASSUME NEW i \in 1 .. Len(stream) PROVE stream[i] < id
        OBVIOUS
      <4>1. stream # <<>> /\ Len(stream) \in 1 .. Len(stream)
        BY <1>0
      <4>2. id > stream[Len(stream)]
        BY <2>4, <4>1 DEF LastPublished
      <4>3. i < Len(stream) => stream[i] < stream[Len(stream)]
        BY <4>1 DEF Increasing
      <4>4. id \in Nat
        BY <2>0, <2>1
      <4>5. i = Len(stream) \/ i < Len(stream)
        BY <1>0
      <4>6. QED
        BY <3>3, <4>1, <4>2, <4>3, <4>4, <4>5
    <3>5. Increasing'
      BY <1>0, <3>2, <3>4 DEF Increasing
    <3>6. OutboxType'
      BY <1>8, <2>2, <2>3, <3>2 DEF Publish, OutboxType
    <3>7. QED
      BY <1>0, <1>8, <3>2, <3>5, <3>6 DEF Publish, StreamGrows
  <2>5. CASE ~(id > LastPublished)
    BY <1>1, <1>8, <2>2, <2>3, <2>5 DEF Publish, OutboxType
  <2>6. QED
    BY <2>4, <2>5
<1>9. ASSUME NEW s \in Senders, LoseBatch(s)
      PROVE  OutboxType' /\ UNCHANGED <<stream, rows, consumerVars, stops>>
  <2>1. batch' \in [Senders -> Seq(rows)]
    BY <1>0, <1>9 DEF LoseBatch, OutboxType
  <2>2. losses' \in 0 .. Losses
    BY <1>0, <1>9 DEF LoseBatch, OutboxType
  <2>3. QED
    BY <1>9, <2>1, <2>2 DEF LoseBatch, OutboxType
<1>10. ASSUME NEW id \in Ids, Confirm(id)
       PROVE  OutboxType' /\ UNCHANGED <<stream, rows, consumerVars, stops>>
  BY <1>10 DEF Confirm, OutboxType
<1>11. CASE RestartService
  <2>1. batch' \in [Senders -> Seq(rows)] /\ work' \in [Writers -> WorkState]
    BY <1>0, <1>11 DEF RestartService
  <2>2. crashes' \in 0 .. Crashes
    BY <1>0, <1>11 DEF RestartService, OutboxType
  <2>3. QED
    BY <1>1, <1>11, <2>1, <2>2 DEF RestartService, OutboxType
<1>12. QED
  BY <1>1, <1>2, <1>3, <1>4, <1>5, <1>6, <1>7, <1>8, <1>9, <1>10, <1>11
  DEF Publishing, SendStored

----------------------------------------------------------------------------
(* The consuming side.                                                     *)

\* What has been dealt with stays so, as the stream grows.
LEMMA DoneStays ==
  ASSUME OutboxType, OutboxType', StreamGrows, processed \subseteq processed', ignored \subseteq ignored'
  PROVE  /\ \A n \in 0 .. Len(stream) : Done(n) => Done(n)'
         /\ \A x : AppliedInTurn(x) => AppliedInTurn(x)'
<1>1. Len(stream) \in Nat /\ Len(stream') \in Nat
  BY LenProperties DEF OutboxType
<1>2. \A n \in 0 .. Len(stream) : Done(n) => Done(n)'
  BY <1>1 DEF Done, StreamGrows
<1>3. ASSUME NEW x, AppliedInTurn(x) PROVE AppliedInTurn(x)'
  <2>1. PICK n \in 1 .. Len(stream) : stream[n] = x /\ Done(n - 1)
    BY <1>3 DEF AppliedInTurn
  <2>2. Done(n - 1)' /\ stream'[n] = x /\ n \in 1 .. Len(stream')
    BY <1>1, <1>2, <2>1 DEF StreamGrows
  <2>3. QED
    BY <2>2 DEF AppliedInTurn
<1>4. QED
  BY <1>2, <1>3

LEMMA InitHandling == Init => ConsumerType /\ Handling /\ AppliedInOrder
<1> SUFFICES ASSUME Init PROVE ConsumerType /\ Handling /\ AppliedInOrder
  OBVIOUS
<1>1. Len(stream) \in Nat /\ stream \in Seq(rows)
  BY InitOutbox, LenProperties DEF OutboxType
<1>2. /\ applied = <<>> /\ processed = {} /\ ignored = {} /\ offset = 0 /\ stops = 0
      /\ consumer = [k \in Consumers |-> "down"]
      /\ position = [k \in Consumers |-> 0] /\ unstored = [k \in Consumers |-> 0]
  BY DEF Init
<1>3. ConsumerType
  BY <1>1, <1>2, StreamAssumption, EmptySeq DEF ConsumerType
<1>4. Handling /\ AppliedInOrder
  BY <1>2 DEF Handling, Done, AppliedInOrder
<1>5. QED
  BY <1>3, <1>4

LEMMA PublishingIInv ==
  ASSUME IInv, Publishing
  PROVE  IInv'
<1>1. OutboxType' /\ Increasing' /\ StreamGrows /\ UNCHANGED <<consumerVars, stops>>
  BY PublishingOutbox DEF IInv
<1>2. Len(stream) \in Nat /\ Len(stream') \in Nat
  BY <1>1, LenProperties DEF IInv, OutboxType
<1>3. UNCHANGED <<consumer, position, unstored, offset, processed, applied, ignored, stops>>
  BY <1>1 DEF consumerVars
<1>4. ConsumerType'
  <2>1. \A n \in 0 .. Len(stream) : n \in 0 .. Len(stream')
    BY <1>1, <1>2 DEF StreamGrows
  <2>2. \A k \in Consumers : Delivered(k) => Delivered(k)'
    BY <1>1, <1>2, <1>3 DEF StreamGrows, Delivered, IInv, ConsumerType
  <2>3. QED
    BY <1>3, <2>1, <2>2 DEF IInv, ConsumerType
<1>5. Handling'
  <2>1. /\ \A n \in 0 .. Len(stream) : Done(n) => Done(n)'
        /\ \A x : AppliedInTurn(x) => AppliedInTurn(x)'
    BY <1>1, <1>3, DoneStays DEF IInv
  <2>2. \A k \in Consumers : consumer[k] = "handled" => NextMessage(k)' = NextMessage(k)
    <3> SUFFICES ASSUME NEW k \in Consumers, consumer[k] = "handled"
                 PROVE  NextMessage(k)' = NextMessage(k)
      OBVIOUS
    <3>1. position[k] + 1 \in 1 .. Len(stream)
      BY <1>2 DEF IInv, ConsumerType, Delivered
    <3>2. QED
      BY <1>1, <1>3, <3>1 DEF NextMessage, StreamGrows
  <2>3. Done(offset)' /\ \A k \in Consumers : Done(position[k])'
    BY <1>3, <2>1 DEF IInv, Handling, ConsumerType, Done
  <2>4. QED
    BY <1>3, <2>1, <2>2, <2>3 DEF IInv, Handling
<1>6. AppliedInOrder'
  BY <1>3 DEF IInv, AppliedInOrder
<1>7. QED
  BY <1>1, <1>4, <1>5, <1>6 DEF IInv

\* A message is consumed: the position moves on, and the stored offset perhaps
\* with it.
LEMMA ConsumedMoves ==
  ASSUME ConsumerType, OutboxType, NEW k \in Consumers, Delivered(k), Consumed(k)
  PROVE  /\ position' \in [Consumers -> 0 .. Len(stream)]
         /\ unstored' \in [Consumers -> 0 .. CountBeforeStorage - 1]
         /\ offset' \in 0 .. Len(stream)
         /\ position'[k] = position[k] + 1
         /\ \A l \in Consumers \ {k} : position'[l] = position[l]
         /\ offset' = offset \/ offset' = position'[k]
<1>1. Len(stream) \in Nat
  BY LenProperties DEF OutboxType
<1>2. position[k] + 1 \in 0 .. Len(stream)
  BY <1>1 DEF ConsumerType, Delivered
<1>3. position' = [position EXCEPT ![k] = position[k] + 1]
  BY DEF Consumed
<1>4. position' \in [Consumers -> 0 .. Len(stream)] /\ position'[k] = position[k] + 1
      /\ \A l \in Consumers \ {k} : position'[l] = position[l]
  BY <1>2, <1>3 DEF ConsumerType
<1>5. (unstored[k] + 1) % CountBeforeStorage \in 0 .. CountBeforeStorage - 1
  <2>1. CountBeforeStorage \in Nat \ {0} /\ unstored[k] + 1 \in Int
    BY StreamAssumption DEF ConsumerType
  <2>2. QED
    BY <2>1
<1>6. unstored' \in [Consumers -> 0 .. CountBeforeStorage - 1]
  BY <1>5 DEF Consumed, ConsumerType
<1>7. offset' = offset \/ offset' = position'[k]
  BY DEF Consumed
<1>8. QED
  BY <1>2, <1>4, <1>6, <1>7 DEF ConsumerType

\* A step of a consumer process that applies nothing.
LEMMA QuietStep ==
  ASSUME IInv, ConsumerType', UNCHANGED <<serviceVars, stream, applied, processed, losses, crashes>>,
         ignored \subseteq ignored',
         Done(offset)', \A k \in Consumers : Done(position[k])',
         \A k \in Consumers : consumer'[k] = "handled"
           => consumer[k] = "handled" /\ position'[k] = position[k]
  PROVE  IInv'
<1>1. OutboxType' /\ Increasing' /\ StreamGrows
  <2>1. Len(stream) \in Nat
    BY LenProperties DEF IInv, OutboxType
  <2>2. QED
    BY <2>1 DEF IInv, OutboxType, Increasing, StreamGrows, serviceVars
<1>2. \A x : AppliedInTurn(x) => AppliedInTurn(x)'
  BY <1>1, DoneStays DEF IInv
<1>3. Handling'
  BY <1>2 DEF IInv, Handling, NextMessage
<1>4. AppliedInOrder'
  BY DEF IInv, AppliedInOrder
<1>5. QED
  BY <1>1, <1>3, <1>4 DEF IInv

LEMMA NextIInv == IInv /\ [Next]_vars => IInv'
<1> SUFFICES ASSUME IInv, [Next]_vars PROVE IInv'
  OBVIOUS
<1> USE DEF faultVars
<1>0. /\ OutboxType /\ ConsumerType /\ Handling /\ Increasing /\ AppliedInOrder
      /\ Len(stream) \in Nat
  BY LenProperties DEF IInv, OutboxType
<1>1. CASE UNCHANGED vars
  <2>1. UNCHANGED <<serviceVars, stream, consumer, position, unstored, offset, processed, applied,
                    ignored, losses, crashes, stops>>
    BY <1>1 DEF vars, consumerVars
  <2>2. ConsumerType'
    BY <1>0, <2>1 DEF ConsumerType, Delivered
  <2>3. Done(offset)' /\ \A k \in Consumers : Done(position[k])'
    BY <1>0, <2>1 DEF Handling, Done
  <2>4. QED
    BY <2>1, <2>2, <2>3, QuietStep
<1>2. CASE Publishing
  BY <1>2, PublishingIInv
<1>3. ASSUME NEW k \in Consumers, Subscribe(k) PROVE IInv'
  <2>1. PICK p \in 0 .. Len(stream) :
          (p = offset \/ p + 1 = offset) /\ position' = [position EXCEPT ![k] = p]
    BY <1>3 DEF Subscribe
  <2>2. Done(p)
    BY <1>0, <2>1 DEF Handling, Done, ConsumerType
  <2>3. 0 \in 0 .. CountBeforeStorage - 1
    BY StreamAssumption
  <2>4. \A l \in Consumers : /\ position'[l] = IF l = k THEN p ELSE position[l]
                             /\ consumer'[l] = IF l = k THEN "starting" ELSE consumer[l]
    BY <1>0, <1>3, <2>1 DEF Subscribe, ConsumerType
  <2>5. ConsumerType'
    <3>1. /\ consumer' \in [Consumers -> {"down", "starting", "ready", "handled"}]
          /\ position' \in [Consumers -> 0 .. Len(stream)]
          /\ unstored' \in [Consumers -> 0 .. CountBeforeStorage - 1]
      BY <1>0, <1>3, <2>1, <2>3 DEF Subscribe, ConsumerType
    <3>2. \A l \in Consumers : consumer'[l] = "handled" => Delivered(l)'
      BY <1>0, <1>3, <2>4 DEF Subscribe, ConsumerType, Delivered
    <3>3. QED
      BY <1>0, <1>3, <3>1, <3>2 DEF Subscribe, ConsumerType
  <2>6. Done(offset)' /\ \A l \in Consumers : Done(position[l])'
    BY <1>0, <1>3, <2>2, <2>4 DEF Subscribe, Handling, Done
  <2>7. QED
    BY <1>3, <2>4, <2>5, <2>6, QuietStep DEF Subscribe
<1>4. ASSUME NEW k \in Consumers, SetMessageHandler(k) \/ ConsumerStops(k) PROVE IInv'
  <2>1. \A l \in Consumers : consumer'[l] = "handled" => consumer[l] = "handled"
    BY <1>0, <1>4 DEF SetMessageHandler, ConsumerStops, ConsumerType
  <2>2. UNCHANGED <<serviceVars, stream, position, unstored, offset, processed, applied, ignored,
                    losses, crashes>>
    BY <1>4 DEF SetMessageHandler, ConsumerStops
  <2>3. stops' \in 0 .. Stops
    BY <1>0, <1>4, StreamAssumption DEF SetMessageHandler, ConsumerStops, ConsumerType
  <2>4. consumer' \in [Consumers -> {"down", "starting", "ready", "handled"}]
    BY <1>0, <1>4 DEF SetMessageHandler, ConsumerStops, ConsumerType
  <2>5. ConsumerType'
    BY <1>0, <2>1, <2>2, <2>3, <2>4 DEF ConsumerType, Delivered
  <2>6. Done(offset)' /\ \A l \in Consumers : Done(position[l])'
    BY <1>0, <2>2 DEF Handling, Done
  <2>7. QED
    BY <2>1, <2>2, <2>5, <2>6, QuietStep
<1>5. ASSUME NEW k \in Consumers, Ignore(k) \/ HandlerReturns(k) PROVE IInv'
  <2>1. Delivered(k) /\ Consumed(k)
    BY <1>0, <1>5 DEF Ignore, HandlerReturns, ConsumerType
  <2>2. position[k] \in Nat /\ position[k] + 1 \in 1 .. Len(stream) /\ NextMessage(k) \in Ids
    <3>1. position[k] \in Nat /\ position[k] + 1 \in 1 .. Len(stream)
      BY <1>0, <2>1 DEF Delivered, ConsumerType
    <3>2. NextMessage(k) \in rows
      BY <1>0, <3>1, ElementOfSeq DEF NextMessage, OutboxType
    <3>3. QED
      BY <1>0, <3>1, <3>2 DEF OutboxType
  <2>3. /\ position' \in [Consumers -> 0 .. Len(stream)]
        /\ unstored' \in [Consumers -> 0 .. CountBeforeStorage - 1]
        /\ offset' \in 0 .. Len(stream)
        /\ position'[k] = position[k] + 1
        /\ \A l \in Consumers \ {k} : position'[l] = position[l]
        /\ offset' = offset \/ offset' = position'[k]
    BY <1>0, <2>1, ConsumedMoves
  <2>4. UNCHANGED <<serviceVars, stream, processed, applied, losses, crashes, stops>>
        /\ ignored \subseteq ignored' /\ ignored' \subseteq Ids
    BY <1>0, <1>5, <2>2 DEF Ignore, HandlerReturns, ConsumerType
  <2>5. /\ consumer' \in [Consumers -> {"down", "starting", "ready", "handled"}]
        /\ \A l \in Consumers : consumer'[l] = "handled" => l # k /\ consumer[l] = "handled"
    BY <1>0, <1>5 DEF Ignore, HandlerReturns, ConsumerType
  <2>6. ConsumerType'
    <3>1. \A l \in Consumers : consumer'[l] = "handled" => Delivered(l)'
      BY <1>0, <2>3, <2>4, <2>5 DEF ConsumerType, Delivered
    <3>2. QED
      BY <1>0, <2>3, <2>4, <2>5, <3>1 DEF ConsumerType
  <2>7. NextMessage(k) \in Relevant => NextMessage(k) \in processed' \union ignored'
    BY <1>0, <1>5 DEF Ignore, HandlerReturns, Handling
  <2>8. \A l \in Consumers : Done(position[l])'
    <3>1. \A n \in 0 .. Len(stream) : Done(n) => Done(n)'
      BY <1>0, <2>4 DEF Done
    <3>2. \A l \in Consumers \ {k} : Done(position[l])'
      BY <1>0, <2>3, <2>4 DEF Handling, Done
    <3>3. \A i \in 1 .. position[k] + 1 : i \in 1 .. position[k] \/ i = position[k] + 1
      BY <2>2
    <3>4. \A i \in 1 .. position[k] : stream[i] \in Relevant => stream[i] \in processed' \union ignored'
      BY <1>0, <2>4 DEF Handling, Done
    <3>5. Done(position[k])'
      BY <2>3, <2>4, <2>7, <3>3, <3>4 DEF Done, NextMessage
    <3>6. QED
      BY <3>2, <3>5
  <2>9. Done(offset)'
    <3>1. CASE offset' = offset
      BY <1>0, <2>4, <3>1 DEF Handling, Done
    <3>2. CASE offset' = position'[k]
      BY <2>8, <3>2 DEF Done
    <3>3. QED
      BY <2>3, <3>1, <3>2
  <2>10. QED
    BY <2>3, <2>4, <2>5, <2>6, <2>8, <2>9, QuietStep
<1>6. ASSUME NEW k \in Consumers, Handle(k) PROVE IInv'
  <2>0. PICK x, n : x = NextMessage(k) /\ n = position[k] + 1
    OBVIOUS
  <2>1. /\ position[k] \in 0 .. Len(stream) /\ n \in 1 .. Len(stream) /\ stream[n] = x
        /\ x \in Ids /\ Delivered(k) /\ consumer[k] = "ready"
    <3>1. position[k] \in 0 .. Len(stream) /\ n \in 1 .. Len(stream)
      BY <1>0, <1>6, <2>0 DEF Handle, Delivered, ConsumerType
    <3>2. x \in rows
      BY <1>0, <2>0, <3>1, ElementOfSeq DEF NextMessage, OutboxType
    <3>3. QED
      BY <1>0, <1>6, <2>0, <3>1, <3>2 DEF Handle, NextMessage, OutboxType
  <2>2. /\ UNCHANGED <<serviceVars, stream, position, unstored, offset, ignored, faultVars>>
        /\ consumer' = [consumer EXCEPT ![k] = "handled"]
    BY <1>6 DEF Handle
  <2>3. \/ (x \notin Relevant \/ x \in processed) /\ UNCHANGED <<processed, applied>>
        \/ x \in Relevant \ processed /\ processed' = processed \union {x} /\ applied' = Append(applied, x)
    <3>1. {x} \intersect (Relevant \ processed) = IF x \in Relevant \ processed THEN {x} ELSE {}
      OBVIOUS
    <3>2. QED
      BY <1>6, <2>0, <3>1 DEF Handle
  <2>4. OutboxType' /\ Increasing' /\ StreamGrows
    BY <1>0, <2>2 DEF OutboxType, Increasing, StreamGrows, serviceVars
  <2>5. processed \subseteq processed' /\ processed' \subseteq Relevant /\ applied' \in Seq(Ids)
        /\ (x \in Relevant => x \in processed')
    <3>1. CASE UNCHANGED <<processed, applied>>
      BY <1>0, <2>3, <3>1 DEF ConsumerType
    <3>2. CASE x \in Relevant \ processed /\ processed' = processed \union {x} /\ applied' = Append(applied, x)
      BY <1>0, <2>1, <3>2 DEF ConsumerType
    <3>3. QED
      BY <2>3, <3>1, <3>2
  <2>6. ConsumerType'
    <3>1. \A l \in Consumers : consumer'[l] = "handled" => Delivered(l)'
      BY <1>0, <2>1, <2>2 DEF ConsumerType, Delivered
    <3>2. QED
      BY <1>0, <2>2, <2>5, <3>1 DEF ConsumerType
  <2>7. /\ \A m \in 0 .. Len(stream) : Done(m) => Done(m)'
        /\ \A y : AppliedInTurn(y) => AppliedInTurn(y)'
    BY <1>0, <2>2, <2>4, <2>5, DoneStays
  <2>8. AppliedInTurn(x)'
    <3>1. Done(n - 1)
      BY <1>0, <2>0, <2>1 DEF Handling
    <3>2. Done(n - 1)'
      BY <2>1, <2>7, <3>1
    <3>3. QED
      BY <2>1, <2>2, <3>2 DEF AppliedInTurn
  <2>9. Done(offset)' /\ \A l \in Consumers : Done(position[l])'
    BY <1>0, <2>2, <2>5 DEF Handling, Done
  <2>10. \A l \in Consumers :
           consumer'[l] = "handled" /\ NextMessage(l)' \in Relevant => NextMessage(l)' \in processed'
    BY <1>0, <2>0, <2>2, <2>5 DEF Handling, NextMessage, ConsumerType
  <2>11. Handling' /\ AppliedInOrder'
    <3>1. CASE UNCHANGED <<processed, applied>>
      BY <1>0, <2>2, <2>7, <2>9, <2>10, <3>1 DEF Handling, AppliedInOrder
    <3>2. CASE x \in Relevant \ processed /\ processed' = processed \union {x} /\ applied' = Append(applied, x)
      <4>1. /\ Len(applied) \in Nat /\ Len(applied') = Len(applied) + 1
            /\ \A i \in 1 .. Len(applied) : applied'[i] = applied[i]
            /\ applied'[Len(applied')] = x
            /\ DOMAIN applied = 1 .. Len(applied) /\ DOMAIN applied' = 1 .. Len(applied')
        BY <1>0, <2>1, <2>5, <3>2 DEF ConsumerType
      <4>2. Handling'
        <5>1. \A y \in processed' : AppliedInTurn(y)'
          BY <1>0, <2>7, <2>8, <3>2 DEF Handling
        <5>2. \A i \in 1 .. Len(applied') : applied'[i] \in processed'
          BY <1>0, <3>2, <4>1 DEF Handling
        <5>3. QED
          BY <2>9, <2>10, <5>1, <5>2 DEF Handling
      <4>3. ASSUME NEW i \in 1 .. Len(applied)
            PROVE  applied[i] # x /\ (applied[i] < x \/ x \in ignored)
        <5>1. applied[i] \in processed /\ applied[i] # x
          BY <1>0, <3>2 DEF Handling
        <5>2. PICK m \in 1 .. Len(stream) : stream[m] = applied[i] /\ Done(m - 1)
          BY <1>0, <5>1 DEF Handling, AppliedInTurn
        <5>3. m # n /\ (n < m => n \in 1 .. m - 1)
          BY <2>1, <5>1, <5>2
        <5>4. n < m => x \in ignored
          BY <2>1, <3>2, <5>2, <5>3 DEF Done
        <5>5. m < n => applied[i] < x
          BY <1>0, <2>1, <5>2 DEF Increasing
        <5>6. QED
          BY <2>1, <5>1, <5>2, <5>3, <5>4, <5>5
      <4>4. AppliedInOrder'
        BY <1>0, <2>2, <4>1, <4>3 DEF AppliedInOrder
      <4>5. QED
        BY <4>2, <4>4
    <3>3. QED
      BY <2>3, <3>1, <3>2
  <2>12. QED
    BY <2>4, <2>6, <2>11 DEF IInv
<1>7. QED
  BY <1>1, <1>2, <1>3, <1>4, <1>5, <1>6 DEF Next, Receive

LEMMA IInvForever == Spec => []IInv
<1>1. Init => IInv
  BY InitOutbox, InitHandling DEF IInv
<1>2. QED
  BY <1>1, NextIInv, PTL DEF Spec

----------------------------------------------------------------------------
LEMMA IInvTyped == IInv => TypeOK
<1> SUFFICES ASSUME IInv PROVE TypeOK
  OBVIOUS
<1>1. rows \subseteq Ids
  BY DEF IInv, OutboxType
<1>2. stream \in Seq(Ids) /\ \A s \in Senders : batch[s] \in Seq(Ids)
  BY <1>1, SeqMonotonic DEF IInv, OutboxType
<1>3. batch \in [Senders -> Seq(Ids)]
  BY <1>2 DEF IInv, OutboxType
<1>4. QED
  BY <1>2, <1>3 DEF IInv, OutboxType, ConsumerType, TypeOK, WorkState

\* The service, the broker and the consumer stay typed.
THEOREM EventStreamTypeCorrect == Spec => []TypeOK
BY IInvTyped, IInvForever, PTL

\* Whatever goroutines share a batch and wherever they are in their
\* transactions, only rows that are committed are published.
THEOREM OnlyCommittedIsPublished == Spec => []PublishedIsCommitted
<1>1. IInv => PublishedIsCommitted
  BY ElementOfSeq, LenProperties DEF IInv, OutboxType, PublishedIsCommitted
<1>2. QED
  BY <1>1, IInvForever, PTL

\* The consumer applies each event once and in order, but for what it has
\* ignored, however its processes overlap and restart.
THEOREM ConsumerAppliesInOrder == Spec => []AppliedInOrder
<1>1. IInv => AppliedInOrder
  BY DEF IInv
<1>2. QED
  BY <1>1, IInvForever, PTL

\* The stored offset never passes a message whose handling is not committed.
THEOREM OffsetSkipsNothing == Spec => []NothingSkipped
<1>1. IInv => NothingSkipped
  BY DEF IInv, Handling, Done, NothingSkipped
<1>2. QED
  BY <1>1, IInvForever, PTL

----------------------------------------------------------------------------
(* Notification: its transactions.                                         *)

InTx(k) == tx[k] # NoTx

\* An open transaction is about the next message of its process, and the insert
\* of the uid keeps all others away from it.
TxOK ==
  /\ DOMAIN tx = Consumers
  /\ \A k \in Consumers : InTx(k) =>
       /\ consumer[k] = "ready" /\ Delivered(k)
       /\ tx[k].event = NextMessage(k)
       /\ tx[k].event \in Relevant \ processed
  /\ \A j, k \in Consumers : InTx(j) /\ InTx(k) /\ tx[j].event = tx[k].event => j = k

LEMMA InitTx == NotifyInit => IInv /\ TxOK
BY InitOutbox, InitHandling DEF NotifyInit, TxOK, InTx, IInv

\* Messages stay where they are in the stream.
LEMMA MessagesStay ==
  ASSUME IInv, StreamGrows, stream' \in Seq(Ids), UNCHANGED position, NEW k \in Consumers, Delivered(k)
  PROVE  Delivered(k)' /\ NextMessage(k)' = NextMessage(k)
<1>1. /\ stream \in Seq(rows) /\ position[k] \in 0 .. Len(stream)
      /\ Len(stream) \in Nat /\ Len(stream') \in Nat
  BY LenProperties DEF IInv, OutboxType, ConsumerType
<1>2. position[k] + 1 \in 1 .. Len(stream)
  BY <1>1 DEF Delivered
<1>3. QED
  BY <1>1, <1>2 DEF Delivered, NextMessage, StreamGrows

\* The steps of the stream that leave the transactions alone.
LEMMA PublishingTx ==
  ASSUME IInv, TxOK, Publishing, UNCHANGED tx
  PROVE  TxOK'
<1>1. OutboxType' /\ StreamGrows /\ UNCHANGED consumerVars
  BY PublishingOutbox DEF IInv
<1>2. stream' \in Seq(Ids)
  BY <1>1, SeqMonotonic DEF OutboxType
<1>3. \A k \in Consumers : Delivered(k) => Delivered(k)' /\ NextMessage(k)' = NextMessage(k)
  BY <1>1, <1>2, MessagesStay DEF consumerVars
<1>4. QED
  BY <1>1, <1>3 DEF TxOK, InTx, consumerVars

\* Another process's position, or its own before it handles anything.
LEMMA ConsumingTx ==
  ASSUME IInv, TxOK, NEW k \in Consumers, Receive(k) \/ Ignore(k), UNCHANGED tx
  PROVE  TxOK'
<1>1. ~InTx(k)
  BY DEF TxOK, Receive, Subscribe, SetMessageHandler, HandlerReturns, Ignore
<1>2. /\ UNCHANGED <<stream, processed>>
      /\ \A j \in Consumers \ {k} : consumer'[j] = consumer[j] /\ position'[j] = position[j]
  BY DEF Receive, Subscribe, SetMessageHandler, HandlerReturns, Ignore, Consumed, IInv, ConsumerType
<1>3. QED
  BY <1>1, <1>2 DEF TxOK, InTx, Delivered, NextMessage

\* An event is handled: by nobody else.
LEMMA HandledTx ==
  ASSUME IInv, TxOK, NEW k \in Consumers, Handle(k),
         \A j \in Consumers : InTx(j) => NextMessage(k) # tx[j].event \/ j = k,
         DOMAIN tx' = Consumers, ~InTx(k)', \A j \in Consumers \ {k} : tx'[j] = tx[j]
  PROVE  TxOK'
<1>1. /\ UNCHANGED <<stream, position>>
      /\ processed' \subseteq processed \union {NextMessage(k)}
      /\ \A j \in Consumers \ {k} : consumer'[j] = consumer[j]
  BY DEF Handle, IInv, ConsumerType
<1>2. QED
  BY <1>1 DEF TxOK, InTx, Delivered, NextMessage

LEMMA ImplementedHandle ==
  ASSUME IInv, TxOK, NEW k \in Consumers, NothingToDo(k) \/ Complete(k)
  PROVE  Handle(k) /\ TxOK'
<1>0. Delivered(k) => NextMessage(k) \in Ids
  <2>1. stream \in Seq(rows) /\ rows \subseteq Ids /\ Len(stream) \in Nat
        /\ position[k] \in 0 .. Len(stream)
    BY LenProperties DEF IInv, OutboxType, ConsumerType
  <2>2. Delivered(k) => position[k] + 1 \in 1 .. Len(stream)
    BY <2>1 DEF Delivered
  <2>3. QED
    BY <2>1, <2>2, ElementOfSeq DEF NextMessage
<1>1. CASE NothingToDo(k)
  <2>1. /\ consumer[k] = "ready" /\ Delivered(k) /\ ~InTx(k)
        /\ ConsumerGoesOn(k) /\ StreamUnchanged /\ UNCHANGED <<processed, applied, tx>>
    BY <1>1 DEF NothingToDo, InTx, notifyVars
  <2>2. {NextMessage(k)} \intersect (Relevant \ processed) = {}
    BY <1>0, <1>1, NotificationAssumption DEF NothingToDo
  <2>3. Handle(k)
    BY <2>1, <2>2 DEF Handle, ConsumerGoesOn, StreamUnchanged
  <2>4. DOMAIN tx' = Consumers /\ ~InTx(k)' /\ \A j \in Consumers \ {k} : tx'[j] = tx[j]
    BY <2>1 DEF InTx, TxOK
  <2>5. \A j \in Consumers : InTx(j) => NextMessage(k) # tx[j].event
    BY <1>1, <1>0, NotificationAssumption DEF NothingToDo, Unlocked, InTx, TxOK
  <2>6. QED
    BY <2>3, <2>4, <2>5, HandledTx
<1>2. CASE Complete(k)
  <2>1. /\ InTx(k) /\ tx' = [tx EXCEPT ![k] = NoTx]
        /\ processed' = processed \union {tx[k].event} /\ applied' = Append(applied, tx[k].event)
        /\ ConsumerGoesOn(k) /\ StreamUnchanged
    BY <1>2 DEF Complete, InTx
  <2>2. /\ consumer[k] = "ready" /\ Delivered(k) /\ tx[k].event = NextMessage(k)
        /\ NextMessage(k) \in Relevant \ processed
    BY <2>1 DEF TxOK
  <2>3. {NextMessage(k)} \intersect (Relevant \ processed) = {NextMessage(k)}
    BY <2>2
  <2>4. Handle(k)
    BY <2>1, <2>2, <2>3 DEF Handle, ConsumerGoesOn, StreamUnchanged
  <2>5. DOMAIN tx' = Consumers /\ ~InTx(k)' /\ \A j \in Consumers \ {k} : tx'[j] = tx[j]
    BY <2>1 DEF InTx, TxOK
  <2>6. QED
    BY <2>1, <2>2, <2>4, <2>5, HandledTx DEF TxOK
<1>3. QED
  BY <1>1, <1>2

\* Every step of the service is a step of EventStream or none.
LEMMA NotifyStep ==
  ASSUME IInv, TxOK, [NotifyNext]_allVars
  PROVE  [Next]_vars /\ TxOK'
<1>1. CASE UNCHANGED allVars
  BY <1>1 DEF allVars, vars, consumerVars, notifyVars, TxOK, InTx, Delivered, NextMessage
<1>2. CASE Publishing /\ UNCHANGED notifyVars
  BY <1>2, PublishingTx DEF Next, notifyVars
<1>3. ASSUME NEW k \in Consumers, Receive(k) \/ Ignore(k), UNCHANGED notifyVars
      PROVE  [Next]_vars /\ TxOK'
  BY <1>3, ConsumingTx DEF Next, notifyVars
<1>4. ASSUME NEW k \in Consumers, NothingToDo(k) \/ Complete(k)
      PROVE  [Next]_vars /\ TxOK'
  BY <1>4, ImplementedHandle DEF Next
<1>5. ASSUME UNCHANGED vars,
             DOMAIN tx' = Consumers,
             \A k \in Consumers : InTx(k)' => InTx(k) /\ tx'[k].event = tx[k].event
      PROVE  [Next]_vars /\ TxOK'
  BY <1>5 DEF vars, consumerVars, TxOK, InTx, Delivered, NextMessage
<1>6. ASSUME NEW k \in Consumers, AddNotification(k) \/ HandleFails(k)
      PROVE  [Next]_vars /\ TxOK'
  BY <1>5, <1>6 DEF AddNotification, HandleFails, TxOK, InTx
<1>7. ASSUME NEW k \in Consumers, SetEventProcessed(k)
      PROVE  [Next]_vars /\ TxOK'
  <2>1. PICK new : /\ new.event = NextMessage(k) /\ tx' = [tx EXCEPT ![k] = new]
                   /\ UNCHANGED vars
    BY <1>7 DEF SetEventProcessed
  <2>2. /\ consumer[k] = "ready" /\ Delivered(k)
        /\ Parsed(NextMessage(k)) /\ Unlocked(NextMessage(k)) /\ NextMessage(k) \notin processed
    BY <1>7 DEF SetEventProcessed
  <2>3. NextMessage(k) \in Relevant
    <3>1. stream \in Seq(rows) /\ rows \subseteq Ids /\ Len(stream) \in Nat
          /\ position[k] \in 0 .. Len(stream)
      BY LenProperties DEF IInv, OutboxType, ConsumerType
    <3>2. position[k] + 1 \in 1 .. Len(stream)
      BY <2>2, <3>1 DEF Delivered
    <3>3. QED
      BY <2>2, <3>1, <3>2, ElementOfSeq, NotificationAssumption DEF NextMessage, Ids
  <2>4. \A j \in Consumers : InTx(j) => tx[j].event # NextMessage(k)
    BY <2>2 DEF Unlocked, InTx
  <2>5. QED
    BY <2>1, <2>2, <2>3, <2>4 DEF vars, consumerVars, TxOK, InTx, Delivered, NextMessage
<1>8. ASSUME NEW k \in Consumers, NotifierStops(k)
      PROVE  [Next]_vars /\ TxOK'
  <2>1. /\ UNCHANGED <<stream, position, processed>>
        /\ \A j \in Consumers \ {k} : consumer'[j] = consumer[j] /\ tx'[j] = tx[j]
        /\ DOMAIN tx' = Consumers /\ ~InTx(k)'
    BY <1>8 DEF NotifierStops, ConsumerStops, IInv, ConsumerType, TxOK, InTx
  <2>2. TxOK'
    BY <2>1 DEF TxOK, InTx, Delivered, NextMessage
  <2>3. QED
    BY <1>8, <2>2 DEF NotifierStops, Next
<1>9. QED
  BY <1>1, <1>2, <1>3, <1>4, <1>6, <1>7, <1>8 DEF NotifyNext, HandleEvent

\* The transactions of the Notification service implement the atomic handler of
\* EventStream: rows, uids and offsets look to the stream as if every event were
\* handled in one step, or not at all.
THEOREM NotificationRefinesStream == NotifySpec => StreamRefined
<1>1. NotifyInit => IInv /\ TxOK /\ Init
  BY InitTx DEF NotifyInit
<1>2. IInv /\ TxOK /\ [NotifyNext]_allVars => [Next]_vars /\ TxOK' /\ IInv'
  BY NotifyStep, NextIInv
<1>3. QED
  BY <1>1, <1>2, PTL DEF NotifySpec, Spec, StreamRefined

----------------------------------------------------------------------------
(* Notifications.                                                          *)

\* The row tells what the note says.
Says(row, n) == row.type = n.type /\ row.user = n.user
NotesOf(id) == ToSet(NotificationsOf(id))

\* An open transaction has stored the notes of its event that are no longer to do.
Progress(t) ==
  /\ t.todo \in Seq(NotesOf(t.event))
  /\ \A i, j \in 1 .. Len(t.todo) : i # j => t.todo[i].type # t.todo[j].type
  /\ \A row \in t.rows : row.event = t.event /\ \E n \in NotesOf(t.event) : Says(row, n)
  /\ \A row \in t.rows, i \in 1 .. Len(t.todo) : row.type # t.todo[i].type
  /\ \A n \in NotesOf(t.event) :
       (\E i \in 1 .. Len(t.todo) : t.todo[i] = n) \/ \E row \in t.rows : Says(row, n)
  /\ \A r, s \in t.rows : r.type = s.type => r = s

\* The table holds each note of each processed event once.
Table ==
  /\ \A row \in notifications :
       row.event \in processed /\ \E n \in NotesOf(row.event) : Says(row, n)
  /\ \A id \in processed : \A n \in NotesOf(id) :
       \E row \in notifications : row.event = id /\ Says(row, n)
  /\ \A r, s \in notifications : r.event = s.event /\ r.type = s.type => r = s

RowsOK == Table /\ \A k \in Consumers : InTx(k) => Progress(tx[k])

\* What the events mean: at most one note of a type.
LEMMA NotesTyped ==
  ASSUME NEW id
  PROVE  /\ NotificationsOf(id) \in Seq(NotesOf(id))
         /\ \A i, j \in 1 .. Len(NotificationsOf(id)) :
              i # j => NotificationsOf(id)[i].type # NotificationsOf(id)[j].type
         /\ \A n \in NotesOf(id) : \E i \in 1 .. Len(NotificationsOf(id)) : NotificationsOf(id)[i] = n
<1> DEFINE notes == NotificationsOf(id)
<1>1. ASSUME NEW x, notes = <<x>> PROVE notes \in Seq(ToSet(notes)) /\ Len(notes) = 1
  BY <1>1 DEF ToSet
<1>2. ASSUME NEW x, NEW y, notes = <<x, y>>
      PROVE  notes \in Seq(ToSet(notes)) /\ Len(notes) = 2 /\ notes[1] = x /\ notes[2] = y
  BY <1>2 DEF ToSet
<1>3. ASSUME notes = <<>> PROVE notes \in Seq(ToSet(notes)) /\ Len(notes) = 0
  BY <1>3 DEF ToSet
<1>4. \/ \E x : notes = <<x>>
      \/ notes = <<LotFinished(EventOf[id]), LotWon(EventOf[id])>>
      \/ notes = <<>>
  BY DEF NotificationsOf, OfLotWon, OfLotClosed, OfLotSent, OfLotReceived, OfBidOutbid
<1>5. LotFinished(EventOf[id]).type # LotWon(EventOf[id]).type
  BY DEF LotFinished, LotWon
<1>6. /\ notes \in Seq(ToSet(notes))
      /\ \A i, j \in 1 .. Len(notes) : i # j => notes[i].type # notes[j].type
  <2>1. CASE \E x : notes = <<x>>
    BY <1>1, <2>1
  <2>2. CASE notes = <<LotFinished(EventOf[id]), LotWon(EventOf[id])>>
    BY <1>2, <1>5, <2>2
  <2>3. CASE notes = <<>>
    BY <1>3, <2>3
  <2>4. QED
    BY <1>4, <2>1, <2>2, <2>3
<1>7. \A n \in ToSet(notes) : \E i \in 1 .. Len(notes) : notes[i] = n
  BY <1>6, LenProperties DEF ToSet
<1>8. QED
  BY <1>6, <1>7 DEF NotesOf

\* A row of the next note.
LEMMA OneNoteMore ==
  ASSUME NEW t, Progress(t), t.todo # <<>>, NEW serial,
         NEW new, new = [event |-> t.event, todo |-> Tail(t.todo),
                         rows |-> t.rows \union {Row(serial, t.event, Head(t.todo))}]
  PROVE  Progress(new)
<1> DEFINE row == Row(serial, t.event, Head(t.todo))
<1>1. /\ t.todo \in Seq(NotesOf(t.event)) /\ Len(t.todo) \in Nat /\ Len(t.todo) # 0
      /\ Head(t.todo) = t.todo[1] /\ t.todo[1] \in NotesOf(t.event)
      /\ Tail(t.todo) \in Seq(NotesOf(t.event)) /\ Len(Tail(t.todo)) = Len(t.todo) - 1
      /\ \A i \in 1 .. Len(t.todo) - 1 : Tail(t.todo)[i] = t.todo[i + 1]
  <2> DEFINE q == t.todo
             S == NotesOf(t.event)
  <2>1. q \in Seq(S) /\ q # <<>>
    BY DEF Progress
  <2> HIDE DEF q, S
  <2>2. Len(q) \in Nat /\ Len(q) # 0
    BY <2>1, LenProperties, EmptySeq
  <2>3. 1 \in 1 .. Len(q)
    BY <2>2
  <2>4. Head(q) = q[1] /\ q[1] \in S
    BY <2>1, <2>3, ElementOfSeq
  <2>5. Tail(q) \in Seq(S) /\ Len(Tail(q)) = Len(q) - 1 /\ \A i \in 1 .. Len(q) - 1 : Tail(q)[i] = q[i + 1]
    BY <2>1, <2>2, HeadTailProperties
  <2>6. QED
    BY <2>1, <2>2, <2>4, <2>5 DEF q, S
<1>2. row.event = t.event /\ Says(row, t.todo[1]) /\ row.type = t.todo[1].type
  BY <1>1 DEF Row, Says
<1>3. new.event = t.event /\ new.todo = Tail(t.todo) /\ new.rows = t.rows \union {row}
  OBVIOUS
<1> HIDE DEF row
<1>4. \A i \in 1 .. Len(new.todo) :
        i + 1 \in 1 .. Len(t.todo) /\ i + 1 # 1 /\ new.todo[i] = t.todo[i + 1]
  BY <1>1, <1>3
<1>5. 1 \in 1 .. Len(t.todo)
  BY <1>1
<1>6. \A i, j \in 1 .. Len(new.todo) : i # j => new.todo[i].type # new.todo[j].type
  BY <1>4 DEF Progress
<1>7. \A r \in new.rows, i \in 1 .. Len(new.todo) : r.type # new.todo[i].type
  BY <1>2, <1>3, <1>4, <1>5 DEF Progress
<1>8. \A r, s \in new.rows : r.type = s.type => r = s
  BY <1>2, <1>3, <1>5 DEF Progress
<1>9. ASSUME NEW n \in NotesOf(new.event)
      PROVE  (\E i \in 1 .. Len(new.todo) : new.todo[i] = n) \/ \E r \in new.rows : Says(r, n)
  <2>1. CASE \E r \in t.rows : Says(r, n)
    BY <1>3, <2>1
  <2>2. ASSUME NEW i \in 1 .. Len(t.todo), t.todo[i] = n
        PROVE  (\E j \in 1 .. Len(new.todo) : new.todo[j] = n) \/ \E r \in new.rows : Says(r, n)
    <3>1. CASE i = 1
      BY <1>2, <1>3, <2>2, <3>1
    <3>2. CASE i # 1
      <4>1. i - 1 \in 1 .. Len(new.todo) /\ new.todo[i - 1] = n
        BY <1>1, <1>3, <2>2, <3>2
      <4>2. QED
        BY <4>1
    <3>3. QED
      BY <3>1, <3>2
  <2>3. QED
    BY <1>3, <1>9, <2>1, <2>2 DEF Progress
<1>10. \A r \in new.rows : r.event = new.event /\ \E n \in NotesOf(new.event) : Says(r, n)
  BY <1>1, <1>2, <1>3 DEF Progress
<1>11. QED
  BY <1>1, <1>3, <1>6, <1>7, <1>8, <1>9, <1>10 DEF Progress

LEMMA CompleteRows ==
  ASSUME TxOK, RowsOK, NEW k \in Consumers, Complete(k)
  PROVE  RowsOK'
<1>1. /\ InTx(k) /\ tx[k].todo = <<>>
      /\ notifications' = notifications \union tx[k].rows
      /\ processed' = processed \union {tx[k].event}
      /\ tx' = [tx EXCEPT ![k] = NoTx]
  BY DEF Complete, InTx
<1>2. tx[k].event \notin processed /\ Progress(tx[k])
  BY <1>1 DEF TxOK, RowsOK
<1>3. Len(tx[k].todo) = 0
  BY <1>1, EmptySeq
<1>4. /\ \A row \in tx[k].rows : row.event = tx[k].event /\ \E n \in NotesOf(tx[k].event) : Says(row, n)
      /\ \A n \in NotesOf(tx[k].event) : \E row \in tx[k].rows : Says(row, n)
      /\ \A r, s \in tx[k].rows : r.type = s.type => r = s
  BY <1>2, <1>3 DEF Progress
<1>5. \A row \in notifications : row.event # tx[k].event
  BY <1>2 DEF RowsOK, Table
<1>6. Table'
  <2>1. \A row \in notifications' :
          row.event \in processed' /\ \E n \in NotesOf(row.event) : Says(row, n)
    BY <1>1, <1>4 DEF RowsOK, Table
  <2>2. \A id \in processed' : \A n \in NotesOf(id) :
          \E row \in notifications' : row.event = id /\ Says(row, n)
    BY <1>1, <1>4 DEF RowsOK, Table
  <2>3. \A r, s \in notifications' : r.event = s.event /\ r.type = s.type => r = s
    BY <1>1, <1>4, <1>5 DEF RowsOK, Table
  <2>4. QED
    BY <2>1, <2>2, <2>3 DEF Table
<1>7. \A j \in Consumers : InTx(j)' => InTx(j) /\ tx'[j] = tx[j]
  BY <1>1 DEF InTx, TxOK
<1>8. QED
  BY <1>6, <1>7 DEF RowsOK

LEMMA RowsStep ==
  ASSUME TxOK, RowsOK, IInv, [NotifyNext]_allVars
  PROVE  RowsOK'
<1>1. ASSUME UNCHANGED <<processed, notifications>>,
             \A k \in Consumers : InTx(k)' => (InTx(k) /\ tx'[k] = tx[k]) \/ Progress(tx'[k])
      PROVE  RowsOK'
  BY <1>1 DEF RowsOK, Table
<1>2. CASE UNCHANGED <<processed, notifyVars>>
  BY <1>1, <1>2 DEF notifyVars, InTx
<1>3. CASE Publishing /\ UNCHANGED notifyVars
  BY <1>2, <1>3, PublishingOutbox DEF IInv, consumerVars
<1>4. ASSUME NEW k \in Consumers, (Receive(k) \/ Ignore(k)) /\ UNCHANGED notifyVars
      PROVE  RowsOK'
  BY <1>2, <1>4 DEF Receive, Subscribe, SetMessageHandler, HandlerReturns, Ignore
<1>5. ASSUME NEW k \in Consumers, NothingToDo(k)
      PROVE  RowsOK'
  BY <1>2, <1>5 DEF NothingToDo
<1>6. ASSUME NEW k \in Consumers, SetEventProcessed(k)
      PROVE  RowsOK'
  <2> DEFINE id == NextMessage(k)
             new == [event |-> id, todo |-> NotificationsOf(id), rows |-> {}]
  <2>1. tx' = [tx EXCEPT ![k] = new] /\ UNCHANGED <<processed, notifications>>
    BY <1>6 DEF SetEventProcessed, vars, consumerVars
  <2>2. new.event = id /\ new.todo = NotificationsOf(id) /\ new.rows = {}
    OBVIOUS
  <2> HIDE DEF new, id
  <2>3. Progress(new)
    BY <2>2, NotesTyped DEF Progress
  <2>4. \A j \in Consumers : tx'[j] = IF j = k THEN new ELSE tx[j]
    BY <2>1 DEF TxOK
  <2>5. QED
    BY <1>1, <2>1, <2>3, <2>4 DEF InTx
<1>7. ASSUME NEW k \in Consumers, AddNotification(k)
      PROVE  RowsOK'
  <2>1. PICK new : /\ new = [event |-> tx[k].event, todo |-> Tail(tx[k].todo),
                             rows |-> tx[k].rows \union {Row(lastRow', tx[k].event, Head(tx[k].todo))}]
                   /\ tx' = [tx EXCEPT ![k] = new]
    BY <1>7 DEF AddNotification
  <2>2. /\ InTx(k) /\ tx[k].todo # <<>> /\ UNCHANGED <<processed, notifications>>
    BY <1>7 DEF AddNotification, InTx, vars, consumerVars
  <2>3. Progress(tx[k])
    BY <2>2 DEF RowsOK
  <2>4. Progress(new)
    BY <2>1, <2>2, <2>3, OneNoteMore
  <2>5. \A j \in Consumers : tx'[j] = IF j = k THEN new ELSE tx[j]
    BY <2>1 DEF TxOK
  <2>6. QED
    BY <1>1, <2>2, <2>4, <2>5 DEF InTx
<1>8. ASSUME NEW k \in Consumers, HandleFails(k) \/ NotifierStops(k)
      PROVE  RowsOK'
  <2>1. UNCHANGED <<processed, notifications>> /\ tx' = [tx EXCEPT ![k] = NoTx]
    BY <1>8 DEF HandleFails, NotifierStops, ConsumerStops, vars, consumerVars
  <2>2. QED
    BY <1>1, <2>1 DEF InTx, TxOK
<1>9. CASE UNCHANGED allVars
  BY <1>2, <1>9 DEF allVars, vars, consumerVars
<1>10. QED
  BY <1>3, <1>4, <1>5, <1>6, <1>7, <1>8, <1>9, CompleteRows DEF NotifyNext, HandleEvent

----------------------------------------------------------------------------
(* The order of the rows.                                                  *)

\* A row of the table or of an open transaction.
Stored(r) == r \in notifications \/ \E k \in Consumers : InTx(k) /\ r \in tx[k].rows

\* Serial ids are distinct.  A row comes after one of a later event only if its
\* event was ignored before: when it was inserted, its process had been given
\* that event, and whoever inserted the other was further in the stream.
RowsInOrder ==
  /\ lastRow \in Nat
  /\ \A r : Stored(r) => r.id \in 1 .. lastRow
  /\ \A r, s : Stored(r) /\ Stored(s) /\ r.id = s.id => r = s
  /\ \A r, s : Stored(r) /\ Stored(s) /\ r.id < s.id /\ r.event > s.event
       => s.event \in ignored

\* The event of a stored row is in the stream, and what came before it was dealt
\* with.
LEMMA StoredInTurn ==
  ASSUME IInv, TxOK, RowsOK, NEW r, Stored(r)
  PROVE  AppliedInTurn(r.event)
<1>1. CASE r \in notifications
  BY <1>1 DEF RowsOK, Table, IInv, Handling
<1>2. ASSUME NEW k \in Consumers, InTx(k), r \in tx[k].rows PROVE AppliedInTurn(r.event)
  <2>1. r.event = NextMessage(k) /\ Delivered(k)
    BY <1>2 DEF RowsOK, Progress, TxOK
  <2>2. position[k] + 1 \in 1 .. Len(stream) /\ (position[k] + 1) - 1 = position[k]
    BY <2>1, LenProperties DEF IInv, OutboxType, ConsumerType, Delivered
  <2>3. Done(position[k])
    BY DEF IInv, Handling
  <2>4. QED
    BY <2>1, <2>2, <2>3 DEF NextMessage, AppliedInTurn
<1>3. QED
  BY <1>1, <1>2 DEF Stored

\* A process inserts rows of an event that comes before one stored only if the
\* event was ignored.
LEMMA LateIsIgnored ==
  ASSUME IInv, TxOK, RowsOK, NEW r, Stored(r), NEW k \in Consumers, InTx(k),
         r.event > tx[k].event
  PROVE  tx[k].event \in ignored
<1> DEFINE m == position[k] + 1
           e == tx[k].event
<1>1. /\ Len(stream) \in Nat /\ position[k] \in 0 .. Len(stream) /\ Delivered(k)
      /\ e = stream[m] /\ e \in Relevant \ processed
  BY LenProperties DEF IInv, OutboxType, ConsumerType, TxOK, NextMessage
<1>2. m \in 1 .. Len(stream)
  BY <1>1 DEF Delivered
<1>3. PICK n \in 1 .. Len(stream) : stream[n] = r.event /\ Done(n - 1)
  BY StoredInTurn DEF AppliedInTurn
<1>4. \A i \in 1 .. Len(stream) : stream[i] \in Nat
  <2>1. stream \in Seq(rows) /\ rows \subseteq Nat
    BY DEF IInv, OutboxType, Ids
  <2>2. QED
    BY <2>1, ElementOfSeq
<1> HIDE DEF m, e
<1>5. m < n
  <2>1. CASE m = n
    BY <1>1, <1>2, <1>3, <1>4, <2>1 DEF e
  <2>2. CASE n < m
    <3>1. stream[n] < stream[m]
      BY <1>2, <1>3, <2>2 DEF IInv, Increasing
    <3>2. stream[n] > stream[m] /\ stream[n] \in Nat /\ stream[m] \in Nat
      BY <1>1, <1>2, <1>3, <1>4 DEF e
    <3>3. QED
      BY <3>1, <3>2
  <2>3. QED
    BY <1>1, <1>2, <1>3, <2>1, <2>2
<1>6. m \in 1 .. n - 1
  BY <1>1, <1>2, <1>3, <1>5
<1>7. e \in processed \union ignored
  BY <1>1, <1>3, <1>6 DEF Done
<1>8. QED
  BY <1>1, <1>7 DEF e

\* Steps that store no row.
LEMMA NoNewRow ==
  ASSUME RowsInOrder, UNCHANGED lastRow, ignored \subseteq ignored',
         \A r : Stored(r)' => Stored(r)
  PROVE  RowsInOrder'
<1>1. \A r : Stored(r)' => r.id \in 1 .. lastRow'
  BY DEF RowsInOrder
<1>2. \A r, s : Stored(r)' /\ Stored(s)' /\ r.id = s.id => r = s
  BY DEF RowsInOrder
<1>3. \A r, s : Stored(r)' /\ Stored(s)' /\ r.id < s.id /\ r.event > s.event
        => s.event \in ignored'
  BY DEF RowsInOrder
<1>4. QED
  BY <1>1, <1>2, <1>3 DEF RowsInOrder

\* Events are only ever added to those ignored.
LEMMA IgnoredGrows == [NotifyNext]_allVars /\ IInv => ignored \subseteq ignored'
<1> SUFFICES ASSUME [NotifyNext]_allVars, IInv PROVE ignored \subseteq ignored'
  OBVIOUS
<1>1. CASE Publishing /\ UNCHANGED notifyVars
  BY <1>1, PublishingOutbox DEF IInv, consumerVars
<1>2. ASSUME NEW k \in Consumers, Receive(k) \/ Ignore(k)
      PROVE  ignored \subseteq ignored'
  BY <1>2 DEF Receive, Subscribe, SetMessageHandler, HandlerReturns, Ignore
<1>3. ASSUME NEW k \in Consumers, HandleEvent(k) \/ HandleFails(k) \/ NotifierStops(k)
      PROVE  ignored \subseteq ignored'
  BY <1>3 DEF HandleEvent, NothingToDo, SetEventProcessed, AddNotification, Complete,
              HandleFails, NotifierStops, ConsumerStops, StreamUnchanged, vars, consumerVars
<1>4. QED
  BY <1>1, <1>2, <1>3 DEF NotifyNext, allVars, vars, consumerVars

LEMMA AddedInOrder ==
  ASSUME IInv, TxOK, RowsOK, RowsInOrder, NEW k \in Consumers, AddNotification(k)
  PROVE  RowsInOrder'
<1> DEFINE new == Row(lastRow', tx[k].event, Head(tx[k].todo))
<1>1. /\ InTx(k) /\ lastRow' = lastRow + 1 /\ lastRow \in Nat
      /\ UNCHANGED <<notifications, ignored>>
      /\ tx' = [tx EXCEPT ![k] = [event |-> tx[k].event, todo |-> Tail(tx[k].todo),
                                  rows |-> tx[k].rows \union {new}]]
  BY DEF AddNotification, InTx, RowsInOrder, vars, consumerVars
<1>2. new.id = lastRow + 1 /\ new.event = tx[k].event
  BY <1>1 DEF Row
<1> HIDE DEF new
<1>3. tx'[k].rows = tx[k].rows \union {new} /\ \A j \in Consumers \ {k} : tx'[j] = tx[j]
  BY <1>1 DEF TxOK
<1>4. \A r : Stored(r)' => Stored(r) \/ r = new
  BY <1>1, <1>3 DEF Stored, InTx
<1>5. \A r : Stored(r) => r.id \in 1 .. lastRow
  BY DEF RowsInOrder
<1>6. \A r : Stored(r)' => r.id \in 1 .. lastRow'
  BY <1>1, <1>2, <1>4, <1>5
<1>7. ASSUME NEW r, NEW s, Stored(r)', Stored(s)', r.id = s.id PROVE r = s
  <2>1. CASE Stored(r) /\ Stored(s)
    BY <1>7, <2>1 DEF RowsInOrder
  <2>2. CASE r = new /\ Stored(s)
    BY <1>1, <1>2, <1>5, <1>7, <2>2
  <2>3. CASE s = new /\ Stored(r)
    BY <1>1, <1>2, <1>5, <1>7, <2>3
  <2>4. QED
    BY <1>4, <1>7, <2>1, <2>2, <2>3
<1>8. ASSUME NEW r, NEW s, Stored(r)', Stored(s)', r.id < s.id, r.event > s.event
      PROVE  s.event \in ignored'
  <2>1. CASE Stored(r) /\ Stored(s)
    BY <1>1, <1>8, <2>1 DEF RowsInOrder
  <2>2. CASE r = new
    BY <1>1, <1>2, <1>4, <1>5, <1>8, <2>2
  <2>3. CASE s = new /\ Stored(r)
    BY <1>1, <1>2, <1>8, <2>3, LateIsIgnored
  <2>4. QED
    BY <1>4, <1>8, <2>1, <2>2, <2>3
<1>9. QED
  BY <1>1, <1>6, <1>7, <1>8 DEF RowsInOrder

LEMMA OrderStep ==
  ASSUME IInv, TxOK, RowsOK, RowsInOrder, [NotifyNext]_allVars
  PROVE  RowsInOrder'
<1>1. ignored \subseteq ignored'
  BY IgnoredGrows
<1>2. CASE UNCHANGED notifyVars
  BY <1>1, <1>2, NoNewRow DEF notifyVars, Stored, InTx
<1>3. ASSUME NEW k \in Consumers, NothingToDo(k)
      PROVE  RowsInOrder'
  BY <1>2, <1>3 DEF NothingToDo
<1>4. ASSUME NEW k \in Consumers, SetEventProcessed(k)
      PROVE  RowsInOrder'
  <2>1. PICK new : /\ new.rows = {} /\ tx' = [tx EXCEPT ![k] = new]
                   /\ UNCHANGED <<notifications, lastRow>>
    BY <1>4 DEF SetEventProcessed
  <2>2. \A j \in Consumers : tx'[j] = IF j = k THEN new ELSE tx[j]
    BY <2>1 DEF TxOK
  <2>3. \A r : Stored(r)' => Stored(r)
    BY <2>1, <2>2 DEF Stored, InTx
  <2>4. QED
    BY <1>1, <2>1, <2>3, NoNewRow
<1>5. ASSUME NEW k \in Consumers, Complete(k)
      PROVE  RowsInOrder'
  <2>1. /\ InTx(k) /\ notifications' = notifications \union tx[k].rows
        /\ tx' = [tx EXCEPT ![k] = NoTx] /\ UNCHANGED lastRow
    BY <1>5 DEF Complete, InTx
  <2>2. \A r : Stored(r)' => Stored(r)
    BY <2>1 DEF Stored, InTx, TxOK
  <2>3. QED
    BY <1>1, <2>1, <2>2, NoNewRow
<1>6. ASSUME NEW k \in Consumers, HandleFails(k) \/ NotifierStops(k)
      PROVE  RowsInOrder'
  <2>1. UNCHANGED <<notifications, lastRow>> /\ tx' = [tx EXCEPT ![k] = NoTx]
    BY <1>6 DEF HandleFails, NotifierStops
  <2>2. \A r : Stored(r)' => Stored(r)
    BY <2>1 DEF Stored, InTx, TxOK
  <2>3. QED
    BY <1>1, <2>1, <2>2, NoNewRow
<1>7. QED
  BY <1>2, <1>3, <1>4, <1>5, <1>6, AddedInOrder DEF NotifyNext, HandleEvent, allVars

----------------------------------------------------------------------------
(* The theorems about Notification.                                        *)

NotifyIInv == IInv /\ TxOK /\ RowsOK /\ RowsInOrder /\ failures \in 0 .. Failures

LEMMA FailuresBounded ==
  ASSUME failures \in 0 .. Failures, [NotifyNext]_allVars
  PROVE  failures' \in 0 .. Failures
<1>1. CASE UNCHANGED failures
  BY <1>1
<1>2. CASE failures < Failures /\ failures' = failures + 1
  BY <1>2, NotificationAssumption
<1>3. QED
  BY <1>1, <1>2 DEF NotifyNext, HandleEvent, NothingToDo, SetEventProcessed, AddNotification,
       Complete, HandleFails, NotifierStops, notifyVars, allVars

LEMMA NotifyIInvForever == NotifySpec => []NotifyIInv
<1>1. NotifyInit => NotifyIInv
  <2> SUFFICES ASSUME NotifyInit PROVE NotifyIInv
    OBVIOUS
  <2>1. notifications = {} /\ processed = {} /\ lastRow = 0 /\ failures = 0
        /\ \A k \in Consumers : ~InTx(k)
    BY DEF NotifyInit, Init, InTx
  <2>2. \A r : ~Stored(r)
    BY <2>1 DEF Stored
  <2>3. QED
    BY <2>1, <2>2, InitTx, NotificationAssumption DEF NotifyIInv, RowsOK, Table, RowsInOrder
<1>2. NotifyIInv /\ [NotifyNext]_allVars => NotifyIInv'
  BY NotifyStep, RowsStep, OrderStep, NextIInv, FailuresBounded DEF NotifyIInv
<1>3. QED
  BY <1>1, <1>2, PTL DEF NotifySpec

\* The table, the serial ids and the open transactions are well typed; an open
\* transaction and its rows are about an event the service knows.
THEOREM NotificationTypeCorrect == NotifySpec => []NotifyTypeOK
<1>1. NotifyIInv => NotifyTypeOK
  <2> SUFFICES ASSUME NotifyIInv PROVE NotifyTypeOK
    OBVIOUS
  <2>1. TypeOK
    BY IInvTyped DEF NotifyIInv
  <2>2. ASSUME NEW k \in Consumers, InTx(k)
        PROVE  /\ tx[k].event \in Relevant /\ consumer[k] = "ready"
               /\ \A row \in tx[k].rows : row.event = tx[k].event /\ row.id \in 1 .. lastRow
    BY <2>2 DEF NotifyIInv, TxOK, RowsOK, Progress, RowsInOrder, Stored
  <2>3. \A row \in notifications : row.id \in 1 .. lastRow
    BY DEF NotifyIInv, RowsInOrder, Stored
  <2>4. QED
    BY <2>1, <2>2, <2>3 DEF NotifyTypeOK, NotifyIInv, InTx
<1>2. QED
  BY <1>1, NotifyIInvForever, PTL

\* The notifications of a user are listed in the order of the events they tell
\* of, but for events ignored at first, whatever is retried or overlaps.
THEOREM NotificationsInOrder == NotifySpec => []ListedInOrder
<1>1. NotifyIInv => ListedInOrder
  <2> SUFFICES ASSUME NotifyIInv, NEW r \in notifications, NEW s \in notifications,
                      r.user = s.user, r # s
               PROVE  /\ ListedBefore(r, s) \/ ListedBefore(s, r)
                      /\ ListedBefore(r, s) /\ r.event > s.event => s.event \in ignored
    BY DEF ListedInOrder
  <2>1. Stored(r) /\ Stored(s)
    BY DEF Stored
  <2>2. r.id \in Int /\ s.id \in Int /\ r.id # s.id
    BY <2>1 DEF NotifyIInv, RowsInOrder
  <2>3. r.id < s.id /\ r.event > s.event => s.event \in ignored
    BY <2>1 DEF NotifyIInv, RowsInOrder
  <2>4. QED
    BY <2>2, <2>3 DEF ListedBefore
<1>2. QED
  BY <1>1, NotifyIInvForever, PTL

\* Each notification of each processed event is stored once, whatever is
\* retried, redelivered or handled by two processes at a time.
THEOREM NotificationsStoredOnce == NotifySpec => []NotifiedOnce
<1>1. RowsOK => NotifiedOnce
  <2> SUFFICES ASSUME Table PROVE NotifiedOnce
    BY DEF RowsOK
  <2>1. \A r, s \in notifications :
          <<r.event, r.type, r.user>> = <<s.event, s.type, s.user>> => r = s
    BY DEF Table
  <2>2. ASSUME NEW row \in notifications
        PROVE  \E id \in processed : \E n \in ToSet(NotificationsOf(id)) :
                 <<row.event, row.type, row.user>> = <<id, n.type, n.user>>
    BY DEF Table, Says, NotesOf
  <2>3. ASSUME NEW id \in processed, NEW n \in ToSet(NotificationsOf(id))
        PROVE  \E row \in notifications :
                 <<id, n.type, n.user>> = <<row.event, row.type, row.user>>
    BY DEF Table, Says, NotesOf
  <2>4. { <<row.event, row.type, row.user>> : row \in notifications }
          = UNION { { <<id, n.type, n.user>> : n \in ToSet(NotificationsOf(id)) } : id \in processed }
    BY <2>2, <2>3
  <2>5. QED
    BY <2>1, <2>4 DEF NotifiedOnce
<1>2. NotifyIInv => RowsOK
  BY DEF NotifyIInv
<1>3. QED
  BY <1>1, <1>2, NotifyIInvForever, PTL
============================================================================
