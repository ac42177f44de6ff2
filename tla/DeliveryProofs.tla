--------------------------- MODULE DeliveryProofs ---------------------------
(***************************************************************************)
(* Theorems about Delivery, for any number of calls, requests and users.   *)
(*                                                                         *)
(* No property is inductive alone.  What two services know of a lot is     *)
(* compared by way of the events between them (Followed); one event per    *)
(* request needs what the open transactions have recorded (Recording); and *)
(* the order of an undisturbed handover is that of its three states        *)
(* (Undisturbed).                                                          *)
(***************************************************************************)
EXTENDS Delivery, FiniteSetTheorems, TLAPS

\* The rows that open transactions have inserted are distinct and new.
Recording ==
  /\ \A c \in Calls : call[c] # Idle => call[c].request \in Requests
  /\ \A c \in Calls : call[c].pc = "idle" => call[c] = Idle
  /\ \A c \in Calls : call[c].pc = "receiving" => call[c].request \notin requests
  /\ \A c, d \in Calls :
       call[c].pc = "receiving" /\ call[d].pc = "receiving" /\ c # d
         => call[c].request # call[d].request
  /\ IsFiniteSet(requests)
  /\ OneEventPerRequest

\* Each service's status is that of the last event it made or handled.
Followed ==
  /\ info = IF events = <<>> THEN "none" ELSE events[Len(events)]
  /\ IF heard = 0 THEN lot \in {"active", "finished"} ELSE lot = events[heard]
  /\ \A c \in Calls : call[c].pc = "receiving" => \E j \in DOMAIN events : events[j] = "sent"

\* What Billing has made of the payment.
Payment == IF blocked THEN earned = 0 ELSE earned = 1

IInv == TypeOK /\ Recording /\ Followed /\ ReceivedAfterSent /\ Payment

\* Users who wait: one call at a time, made when the Lot service has followed
\* all events, so that there is one "sent", and one "received" after it; the
\* Lot service's events are those it has handled.
Undisturbed ==
  ~overlapped =>
    /\ \A c, d \in Calls : call[c] # Idle /\ call[d] # Idle => c = d
    /\ \A c \in Calls : call[c].pc = "sending" => Len(events) = 0 /\ heard = 0
    /\ \A c \in Calls : call[c].pc = "receiving" => Len(events) = 1 /\ heard = 1
    /\ Len(events) <= 2
    /\ \A i \in 1 .. Len(events) : events[i] = IF i = 1 THEN "sent" ELSE "received"
    /\ Len(lotEvents) = heard
    /\ \A i \in 1 .. heard : lotEvents[i] = events[i]
    /\ settled < 2 => blocked

----------------------------------------------------------------------------
LEMMA InitIInv == Init => IInv
<1> SUFFICES ASSUME Init PROVE IInv
  OBVIOUS
<1>1. TypeOK
  <2>1. <<>> \in Seq(Steps) /\ Len(<<>>) = 0
    OBVIOUS
  <2>2. events \in Seq(Steps) /\ lotEvents \in Seq(Steps)
    BY <2>1 DEF Init
  <2>3. heard \in 0 .. Len(events) /\ settled \in 0 .. Len(lotEvents)
    BY <2>1 DEF Init
  <2>4. QED
    BY <2>2, <2>3 DEF Init, TypeOK, Idle, Steps
<1>2. Recording
  BY FS_EmptySet DEF Init, Recording, Idle, OneEventPerRequest
<1>3. QED
  BY <1>1, <1>2 DEF Init, IInv, Followed, Payment, ReceivedAfterSent, Idle

\* A transaction of the Delivery service that commits: one more request, one
\* more event.
LEMMA CommitStep ==
  ASSUME IInv, NEW c \in Calls, call[c].request \notin requests,
         call[c] # Idle, NEW step \in Steps,
         step = "received" => \E j \in DOMAIN events : events[j] = "sent",
         \A d \in Calls \ {c} : call[d].pc = "receiving" => call[d].request # call[c].request,
         requests' = requests \union {call[c].request},
         info' = step,
         events' = Append(events, step),
         call' = [call EXCEPT ![c] = Idle],
         UNCHANGED <<lotVars, billingVars, overlapped>>
  PROVE  IInv'
<1> USE DEF IInv, lotVars, billingVars
<1>1. /\ events \in Seq(Steps) /\ events' \in Seq(Steps) /\ Len(events') = Len(events) + 1
      /\ \A i \in 1 .. Len(events) : events'[i] = events[i]
      /\ events'[Len(events')] = step
  BY DEF TypeOK
<1>2. TypeOK'
  BY <1>1 DEF TypeOK, Recording, Idle
<1>3. IsFiniteSet(requests') /\ Cardinality(requests') = Cardinality(requests) + 1
  BY FS_AddElement DEF Recording
<1>4. Recording'
  BY <1>1, <1>3 DEF Recording, OneEventPerRequest, TypeOK, Idle
<1>5. Followed'
  <2>1. heard' = heard /\ lot' = lot /\ heard <= Len(events)
    BY DEF TypeOK
  <2>2. IF heard' = 0 THEN lot' \in {"active", "finished"} ELSE lot' = events'[heard']
    <3>1. heard # 0 => heard \in 1 .. Len(events)
      BY <2>1 DEF TypeOK
    <3>2. QED
      BY <1>1, <2>1, <3>1 DEF Followed
  <2>3. info' = IF events' = <<>> THEN "none" ELSE events'[Len(events')]
    <3>1. events' # <<>>
      BY <1>1
    <3>2. QED
      BY <1>1, <3>1
  <2>4. ASSUME NEW d \in Calls, call'[d].pc = "receiving"
        PROVE  \E j \in DOMAIN events' : events'[j] = "sent"
    <3>1. call[d].pc = "receiving"
      BY <2>4 DEF TypeOK, Idle
    <3>2. PICK j \in DOMAIN events : events[j] = "sent"
      BY <3>1 DEF Followed
    <3>3. QED
      BY <1>1, <3>2
  <2>5. QED
    BY <2>2, <2>3, <2>4 DEF Followed
<1>6. ReceivedAfterSent'
  BY <1>1 DEF ReceivedAfterSent, TypeOK
<1>7. Payment'
  BY DEF Payment
<1>8. QED
  BY <1>2, <1>4, <1>5, <1>6, <1>7

LEMMA NextIInv == IInv /\ [Next]_vars => IInv'
<1> SUFFICES ASSUME IInv, [Next]_vars PROVE IInv'
  OBVIOUS
<1> USE DEF deliveryVars, lotVars, billingVars
<1>1. CASE UNCHANGED vars
  BY <1>1 DEF vars, IInv, TypeOK, Recording, OneEventPerRequest, Followed,
     ReceivedAfterSent, Payment
<1>2. ASSUME NEW c \in Calls, NEW u \in Users, NEW r \in Requests, Start(c, u, r)
      PROVE  IInv'
  <2>1. CASE StartSent(c, u, r)
    BY <2>1 DEF StartSent, MayStart, IInv, TypeOK, Recording, OneEventPerRequest, Followed,
       ReceivedAfterSent, Payment, Idle
  <2>2. CASE StartReceived(c, u, r)
    <3>1. TypeOK'
      BY <2>2 DEF StartReceived, MayStart, IInv, TypeOK
    <3>2. Recording'
      BY <2>2 DEF StartReceived, MayStart, IInv, TypeOK, Recording, OneEventPerRequest, Idle
    <3>3. Followed'
      BY <2>2 DEF StartReceived, MayStart, IInv, TypeOK, Followed, ReceivableBy
    <3>4. QED
      BY <2>2, <3>1, <3>2, <3>3 DEF StartReceived, IInv, ReceivedAfterSent, Payment
  <2>3. QED
    BY <1>2, <2>1, <2>2 DEF Start
<1>3. ASSUME NEW c \in Calls, Serve(c) PROVE IInv'
  <2>1. CASE StoreSent(c)
    <3>1. call[c].request \notin requests /\ call[c] # Idle
      BY <2>1 DEF StoreSent, RequestFree, Idle
    <3>2. \A d \in Calls \ {c} : call[d].pc = "receiving" => call[d].request # call[c].request
      BY <2>1 DEF StoreSent, RequestFree
    <3>3. "sent" \in Steps /\ "sent" # "received"
      BY DEF Steps
    <3>4. /\ requests' = requests \union {call[c].request} /\ info' = "sent"
          /\ events' = Append(events, "sent") /\ call' = [call EXCEPT ![c] = Idle]
          /\ UNCHANGED <<lotVars, billingVars, overlapped>>
      BY <2>1 DEF StoreSent
    <3>5. QED
      BY <3>1, <3>2, <3>3, <3>4, CommitStep
  <2>2. CASE StoreReceived(c)
    <3>1. call[c].request \notin requests /\ call[c] # Idle
      BY <2>2 DEF StoreReceived, Idle, IInv, Recording
    <3>2. \A d \in Calls \ {c} : call[d].pc = "receiving" => call[d].request # call[c].request
      BY <2>2 DEF StoreReceived, IInv, Recording
    <3>3. "received" \in Steps
      BY DEF Steps
    <3>4. \E j \in DOMAIN events : events[j] = "sent"
      BY <2>2 DEF StoreReceived, IInv, Followed
    <3>5. /\ requests' = requests \union {call[c].request} /\ info' = "received"
          /\ events' = Append(events, "received") /\ call' = [call EXCEPT ![c] = Idle]
          /\ UNCHANGED <<lotVars, billingVars, overlapped>>
      BY <2>2 DEF StoreReceived
    <3>6. QED
      BY <3>1, <3>2, <3>3, <3>4, <3>5, CommitStep
  <2>3. QED
    BY <1>3, <2>1, <2>2 DEF Serve
<1>4. ASSUME NEW c \in Calls, Fail(c) PROVE IInv'
  BY <1>4 DEF Fail, IInv, TypeOK, Recording, OneEventPerRequest, Followed,
     ReceivedAfterSent, Payment, Idle
<1>5. CASE FinishLot
  BY <1>5 DEF FinishLot, IInv, TypeOK, Recording, OneEventPerRequest, Followed,
     ReceivedAfterSent, Payment, Steps
<1>6. CASE HandleDelivery
  BY <1>6 DEF HandleDelivery, IInv, TypeOK, Recording, OneEventPerRequest, Followed,
     ReceivedAfterSent, Payment, Steps
<1>7. CASE IgnoreSent
  BY <1>7 DEF IgnoreSent, IInv, TypeOK, Recording, OneEventPerRequest, Followed,
     ReceivedAfterSent, Payment
<1>8. CASE Settle
  <2>1. earned = 0 /\ Payment'
    BY <1>8 DEF Settle, IInv, Payment
  <2>2. /\ settled' \in 0 .. Len(lotEvents)
        /\ earned' = 1
    BY <1>8, <2>1 DEF Settle, IInv, TypeOK
  <2>3. TypeOK'
    BY <1>8, <2>2 DEF Settle, IInv, TypeOK
  <2>4. Recording' /\ Followed' /\ ReceivedAfterSent'
    BY <1>8 DEF Settle, IInv, Recording, OneEventPerRequest, Followed, ReceivedAfterSent
  <2>5. QED
    BY <2>1, <2>3, <2>4 DEF IInv
<1>9. QED
  BY <1>1, <1>2, <1>3, <1>4, <1>5, <1>6, <1>7, <1>8 DEF Next, Bill

LEMMA InitUndisturbed == Init => Undisturbed
  BY DEF Init, Undisturbed, Idle

LEMMA NextUndisturbed == IInv /\ Undisturbed /\ [Next]_vars => Undisturbed'
<1> SUFFICES ASSUME IInv, Undisturbed, [Next]_vars, ~overlapped' PROVE Undisturbed'
  BY DEF Undisturbed
<1> USE DEF deliveryVars, lotVars, billingVars
<1>0. ~overlapped /\ events \in Seq(Steps) /\ lotEvents \in Seq(Steps)
      /\ heard \in 0 .. Len(events) /\ settled \in 0 .. Len(lotEvents)
  <2>1. overlapped => overlapped'
    BY DEF vars, Next, Start, Serve, Bill, StartSent, StartReceived, MayStart, StoreSent,
       StoreReceived, Fail, FinishLot, HandleDelivery, IgnoreSent, Settle
  <2>2. QED
    BY <2>1 DEF IInv, TypeOK
<1>1. CASE UNCHANGED vars
  BY <1>1 DEF vars, Undisturbed
<1>2. ASSUME NEW c \in Calls, NEW u \in Users, NEW r \in Requests, Start(c, u, r)
      PROVE  Undisturbed'
  <2>1. heard = Len(events) /\ \A d \in Calls : call[d] = Idle
    BY <1>2 DEF Start, StartSent, StartReceived, MayStart, Quiet
  <2>2. UNCHANGED <<events, lotVars, billingVars>>
    BY <1>2 DEF Start, StartSent, StartReceived
  <2>3. CASE StartSent(c, u, r)
    <3>1. heard = 0
      BY <1>0, <2>3 DEF StartSent, FinishedLot, IInv, Followed, Steps
    <3>2. \A d \in Calls : call'[d].pc # "receiving" /\ (call'[d] # Idle => d = c)
      BY <2>1, <2>3 DEF StartSent, Idle, IInv, TypeOK
    <3>3. QED
      BY <1>0, <2>1, <2>2, <3>1, <3>2 DEF Undisturbed
  <2>4. CASE StartReceived(c, u, r)
    <3>1. Len(events) # 0 /\ events[Len(events)] = "sent"
      BY <1>0, <2>4 DEF StartReceived, ReceivableBy, IInv, Followed
    <3>2. Len(events) = 1
      <4>1. Len(events) \in Nat /\ Len(events) \in 1 .. Len(events)
        BY <1>0, <3>1
      <4>2. events[Len(events)] = IF Len(events) = 1 THEN "sent" ELSE "received"
        BY <1>0, <4>1 DEF Undisturbed
      <4>3. QED
        BY <3>1, <4>2
    <3>3. \A d \in Calls : call'[d].pc # "sending" /\ (call'[d] # Idle => d = c)
      BY <2>1, <2>4 DEF StartReceived, Idle, IInv, TypeOK
    <3>4. QED
      BY <1>0, <2>1, <2>2, <3>2, <3>3 DEF Undisturbed
  <2>5. QED
    BY <1>2, <2>3, <2>4 DEF Start
<1>3. ASSUME NEW c \in Calls, Serve(c) PROVE Undisturbed'
  <2>1. call[c] # Idle /\ UNCHANGED <<lotVars, billingVars>>
    BY <1>3 DEF Serve, StoreSent, StoreReceived, Idle
  <2>2. \A d \in Calls : call'[d] = Idle
    BY <1>0, <1>3, <2>1 DEF Serve, StoreSent, StoreReceived, Undisturbed, IInv, TypeOK
  <2>3. Len(events') = Len(events) + 1 /\ Len(events) < 2
        /\ \A i \in 1 .. Len(events) : events'[i] = events[i]
    BY <1>0, <1>3 DEF Serve, StoreSent, StoreReceived, Undisturbed, Steps
  <2>4. events'[Len(events')] = IF Len(events') = 1 THEN "sent" ELSE "received"
    BY <1>0, <1>3, <2>3 DEF Serve, StoreSent, StoreReceived, Undisturbed, Steps
  <2>5. \A i \in 1 .. Len(events') : events'[i] = IF i = 1 THEN "sent" ELSE "received"
    BY <1>0, <2>3, <2>4 DEF Undisturbed
  <2>6. QED
    BY <1>0, <2>1, <2>2, <2>3, <2>5 DEF Undisturbed, Idle
<1>4. ASSUME NEW c \in Calls, Fail(c) PROVE Undisturbed'
  <2>1. \A d \in Calls : call'[d] = call[d] \/ call'[d] = Idle
    BY <1>4 DEF Fail, IInv, TypeOK
  <2>2. QED
    BY <1>0, <1>4, <2>1 DEF Fail, Undisturbed, Idle
<1>5. CASE FinishLot
  BY <1>0, <1>5 DEF FinishLot, Undisturbed
<1>6. CASE HandleDelivery
  <2>1. \A c \in Calls : call[c].pc \in {"sending", "receiving"} => heard = Len(events)
    BY <1>0 DEF Undisturbed
  <2>2. \A c \in Calls : call[c].pc \notin {"sending", "receiving"}
    BY <1>0, <1>6, <2>1 DEF HandleDelivery
  <2>3. /\ heard' = heard + 1 /\ heard + 1 \in 1 .. Len(events) /\ events[heard + 1] \in Steps
        /\ lotEvents' = Append(lotEvents, events[heard + 1])
    BY <1>0, <1>6 DEF HandleDelivery
  <2>4. Len(lotEvents') = heard' /\ \A i \in 1 .. heard' : lotEvents'[i] = events[i]
    BY <1>0, <2>3 DEF Undisturbed
  <2>5. QED
    BY <1>0, <1>6, <2>2, <2>4 DEF HandleDelivery, Undisturbed
<1>7. CASE IgnoreSent
  BY <1>0, <1>7 DEF IgnoreSent, Undisturbed
<1>8. CASE Settle
  <2>1. settled' >= 2
    BY <1>0, <1>8 DEF Settle, Undisturbed
  <2>2. QED
    BY <1>0, <1>8, <2>1 DEF Settle, Undisturbed
<1>9. QED
  BY <1>1, <1>2, <1>3, <1>4, <1>5, <1>6, <1>7, <1>8 DEF Next, Bill

LEMMA UndisturbedForever == Spec => [](IInv /\ Undisturbed)
  BY InitIInv, NextIInv, InitUndisturbed, NextUndisturbed, PTL DEF Spec

\* The three services of the handover stay typed; the owner earns the payment
\* of the lot at most once.
THEOREM DeliveryTypeCorrect == Spec => []TypeOK
<1>1. IInv => TypeOK
  BY DEF IInv
<1>2. QED
  BY <1>1, InitIInv, NextIInv, PTL DEF Spec

\* Whatever calls overlap, however often they are repeated: the events of the
\* Delivery service tell of no receipt without a dispatch before it.
THEOREM DeliveryInOrder == Spec => []ReceivedAfterSent
<1>1. IInv => ReceivedAfterSent
  BY DEF IInv
<1>2. QED
  BY <1>1, InitIInv, NextIInv, PTL DEF Spec

\* A request id takes effect once, for every call that is made with it.
THEOREM DeliveryOnce == Spec => []OneEventPerRequest
<1>1. IInv => OneEventPerRequest
  BY DEF IInv, Recording
<1>2. QED
  BY <1>1, InitIInv, NextIInv, PTL DEF Spec

\* The Delivery service and the Lot service agree on the lot as soon as the
\* latter has followed the events.
THEOREM DeliveryAgreed == Spec => []ServicesAgree
<1>1. IInv => ServicesAgree
  BY DEF IInv, Followed, ServicesAgree, TypeOK
<1>2. QED
  BY <1>1, InitIInv, NextIInv, PTL DEF Spec

\* Users who wait for the other services: Billing finds the payment of every
\* receipt it has to handle blocked, so it never retries one for ever.
THEOREM DeliveryReceivedOnce == Spec => []ReceivedOnce
<1>1. IInv /\ Undisturbed => ReceivedOnce
  <2> SUFFICES ASSUME IInv, Undisturbed, ~overlapped PROVE ReceivedIsPaid
    BY DEF ReceivedOnce
  <2>1. /\ Len(lotEvents) \in Nat /\ settled \in Nat /\ heard \in Nat /\ Len(events) \in Nat
        /\ Len(lotEvents) = heard /\ heard <= Len(events) /\ Len(events) <= 2
    BY DEF IInv, TypeOK, Undisturbed
  <2>2. \A i \in 1 .. Len(lotEvents) : lotEvents[i] = IF i = 1 THEN "sent" ELSE "received"
    BY <2>1 DEF Undisturbed
  <2>3. settled < 2 => blocked
    BY DEF Undisturbed
  <2>4. QED
    BY <2>1, <2>2, <2>3 DEF ReceivedIsPaid
<1>2. QED
  BY <1>1, UndisturbedForever, PTL

\* And the handover moves forward for them in the Delivery service and in the
\* Lot service, though neither looks at the status it overwrites.
THEOREM DeliveryMovesForward == Spec => HandoverMovesForward
<1> DEFINE Forward == ~overlapped => Stage[info'] >= Stage[info] /\ Stage[lot'] >= Stage[lot]
<1>1. IInv /\ Undisturbed /\ [Next]_vars => [Forward]_vars
  <2> SUFFICES ASSUME IInv, Undisturbed, Next, ~overlapped
               PROVE  Stage[info'] >= Stage[info] /\ Stage[lot'] >= Stage[lot]
    OBVIOUS
  <2> USE DEF deliveryVars, lotVars, billingVars
  <2>1. info \in {"none", "sent", "received"} /\ lot \in {"active", "finished", "sent", "received"}
    BY DEF IInv, TypeOK, Steps
  <2>2. events \in Seq(Steps) /\ heard \in 0 .. Len(events)
    BY DEF IInv, TypeOK
  <2>3. CASE UNCHANGED <<info, lot>>
    BY <2>1, <2>3 DEF Stage
  <2>4. ASSUME NEW c \in Calls, Serve(c) PROVE info' # "none" /\ info # "received" /\ lot' = lot
                 /\ (info = "sent" => info' = "received") /\ info' \in Steps
    <3>1. CASE StoreSent(c)
      <4>1. Len(events) = 0
        BY <3>1 DEF StoreSent, Undisturbed
      <4>2. info = "none"
        BY <2>2, <4>1 DEF IInv, Followed
      <4>3. QED
        BY <3>1, <4>2 DEF StoreSent, Steps
    <3>2. CASE StoreReceived(c)
      <4>1. Len(events) = 1 /\ events[1] = "sent"
        BY <2>2, <3>2 DEF StoreReceived, Undisturbed
      <4>2. info = "sent"
        BY <2>2, <4>1 DEF IInv, Followed
      <4>3. QED
        BY <3>2, <4>2 DEF StoreReceived, Steps
    <3>3. QED
      BY <2>4, <3>1, <3>2 DEF Serve
  <2>5. CASE \E c \in Calls : Serve(c)
    BY <2>1, <2>4, <2>5 DEF Stage, Steps
  <2>6. CASE FinishLot
    BY <2>1, <2>6 DEF FinishLot, Stage
  <2>7. CASE HandleDelivery
    <3>1. heard = 0 \/ heard = 1
      BY <2>2, <2>7 DEF HandleDelivery, Undisturbed
    <3>2. heard = 0 => lot \in {"active", "finished"} /\ lot' = "sent"
      BY <2>2, <2>7 DEF HandleDelivery, Undisturbed, IInv, Followed
    <3>3. heard = 1 => lot = "sent" /\ lot' = "received"
      BY <2>2, <2>7 DEF HandleDelivery, Undisturbed, IInv, Followed
    <3>4. QED
      BY <2>1, <2>7, <3>1, <3>2, <3>3 DEF HandleDelivery, Stage
  <2>8. QED
    BY <2>3, <2>5, <2>6, <2>7 DEF Next, Start, StartSent, StartReceived, Fail, Bill, IgnoreSent, Settle
<1>2. QED
  BY <1>1, UndisturbedForever, PTL DEF HandoverMovesForward, Spec
============================================================================
