------------------------------ MODULE Auction ------------------------------
(***************************************************************************)
(* The life of a lot and the saga of a bid: the Lot service, its HTTP calls *)
(* to Billing, the events it stores and Billing's handling of them.        *)
(*                                                                         *)
(* A bid is paid before it is checked (lotservice.go: CreateBid): Billing  *)
(* blocks the amount on a synchronous, retried request; a local            *)
(* transaction then stores the bid or fails, and a failure is compensated  *)
(* by a bid_cancelled event.  A better bid releases the previous one by a   *)
(* bid_outbid event; lot_received turns the blocked amount into a payment. *)
(*                                                                         *)
(* Sources: lot/app/lotservice.go, lot/app/eventhandler.go,                *)
(* lot/infrastructure/billing/client.go, and Billing.tla.                  *)
(***************************************************************************)
EXTENDS Billing, Sequences

CONSTANTS
  Calls,        \* CreateBid calls; a call's id is also the fresh request id
                \* of its payment
  LotRequests,  \* X-Request-ID values of the Lot service
  Bids,         \* the arguments CreateBid is called with
  NoBid,        \* the arguments of a call not started
  Offer,        \* lot -> owner, start price, buy-it-now price (0: none)
  Durations,    \* how far ahead of now an end time may be
  Funds,        \* user -> funds at the start
  Extension,    \* minLotDurationAfterBid
  MaxAttempts,  \* maxAttemptCount of the billing client: 10
  MaxTime,      \* BOUND of the clock
  MaxReports,   \* BOUND of the delivery events handled for a lot
  Late,         \* may Billing execute a request the client gave up on?
  Failures      \* may the Lot service crash, or a service lose its database?

BidArgs == [user : Users, lot : Lots, amount : Amounts, request : LotRequests]

ASSUME AuctionAssumption ==
  /\ Calls \subseteq Requests
  /\ EventUIDs = Nat
  /\ Bids \subseteq BidArgs
  /\ Offer \in [Lots -> [owner : Users, start : Amounts, buyNow : Amounts \union {0}]]
  /\ Durations \subseteq Nat
  /\ Funds \in [Users -> Raw]
  /\ Extension \in Nat
  /\ MaxAttempts \in Nat \ {0}
  /\ MaxTime \in Nat /\ MaxReports \in Nat
  /\ Late \in BOOLEAN /\ Failures \in BOOLEAN

VARIABLES
  pc,           \* call -> where it is
  arg,          \* call -> its arguments
  attempt,      \* call -> the number of the payment attempt, from 0
  late,         \* call -> payment requests abandoned but still on their way
  clock,        \* call -> the time its transaction read
  lot,          \* lot -> status and end time
  bids,         \* lot -> rows of the bid table
  lotRequests,  \* processed_request of the Lot service
  snapshot,     \* what ProcessCompletedLots has read and not yet processed
  stored,       \* rows of stored_event, in the order of their ids
  now

callVars == <<pc, arg, attempt, late, clock>>
lotVars  == <<lot, bids, lotRequests, snapshot, stored>>
vars     == <<billingVars, callVars, lotVars, now>>

\* Answers are the HTTP statuses of the payment request.
Answers  == {"200", "400", "409", "500"}
Awaiting == {"sent"} \union Answers
Charged  == {"paid", "locked", "failed"}
\* done: bid stored.  cancelled: compensated.  refused: 400.
\* unpaid: attempts exhausted.  lost: crashed, or not compensated.
Ended    == {"done", "cancelled", "refused", "unpaid", "lost"}

LotStatus == {"none", "active", "closed", "finished", "sent", "received"}
EventTypes == {"won", "closed", "outbid", "cancelled", "sent", "received"}
StoredEvent == [type : EventTypes, user : Users, lot : Lots, amount : Raw]
BidRow == [user : Users, amount : Amounts]

TypeOK ==
  /\ BillingTypeOK
  /\ pc \in [Calls -> {"idle"} \union Awaiting \union Charged \union Ended]
  /\ arg \in [Calls -> BidArgs \union {NoBid}]
  /\ \A c \in Calls : pc[c] # "idle" => arg[c] \in BidArgs
  /\ attempt \in [Calls -> 0 .. MaxAttempts - 1]
  /\ late \in [Calls -> Nat]
  /\ clock \in [Calls -> Nat]
  /\ lot \in [Lots -> [status : LotStatus, end : Nat]]
  /\ bids \in [Lots -> SUBSET BidRow]
  /\ lotRequests \subseteq LotRequests
  /\ snapshot \subseteq [lot : Lots, end : Nat]
  /\ stored \in Seq(StoredEvent)
  /\ now \in Nat

\* Every user is registered and has topped up: Billing models how.
Init ==
  /\ account = [u \in Users |-> [EmptyAccount EXCEPT !.created = TRUE,
                                                     !.total = Funds[u]]]
  /\ processedRequests = {}
  /\ processedEvents = {}
  /\ pc = [c \in Calls |-> "idle"]
  /\ arg = [c \in Calls |-> NoBid]
  /\ attempt = [c \in Calls |-> 0]
  /\ late = [c \in Calls |-> 0]
  /\ clock = [c \in Calls |-> 0]
  /\ lot = [l \in Lots |-> [status |-> "none", end |-> 0]]
  /\ bids = [l \in Lots |-> {}]
  /\ lotRequests = {}
  /\ snapshot = {}
  /\ stored = <<>>
  /\ now = 0

----------------------------------------------------------------------------
(* Helpers.                                                                *)


\* TryFindLastByLotID: the row with the greatest amount.
LastOf(rows) == CHOOSE b \in rows : \A x \in rows : x.amount <= b.amount
LastBid(l) == LastOf(bids[l])

\* The advisory lock of lot l is held by a bid's transaction in progress; the
\* other transactions on a lot are one step here, taken when it is free.
Locked(l) == \E c \in Calls : pc[c] = "locked" /\ arg[c].lot = l

Ev(type, u, l, a) == [type |-> type, user |-> u, lot |-> l, amount |-> a]
Emit(ev) == stored' = Append(stored, ev)

At(c, state) == pc' = [pc EXCEPT ![c] = state]

----------------------------------------------------------------------------
(* CreateLot.                                                              *)

CreateLot(l, r, d) ==
  /\ Offer[l].buyNow = 0 \/ Offer[l].buyNow >= Offer[l].start
  /\ d > 0
  /\ r \notin lotRequests
  /\ lot[l].status = "none"
  /\ lot' = [lot EXCEPT ![l] = [status |-> "active", end |-> now + d]]
  /\ lotRequests' = lotRequests \union {r}
  /\ UNCHANGED <<billingVars, callVars, bids, snapshot, stored, now>>

----------------------------------------------------------------------------
(* CreateBid: the payment.                                                 *)

\* checkRequestID, outside any transaction.
StartBid(c, b) ==
  /\ pc[c] = "idle"
  /\ b.request \notin lotRequests
  /\ At(c, "sent")
  /\ arg' = [arg EXCEPT ![c] = b]
  /\ UNCHANGED <<billingVars, attempt, late, clock, lotVars, now>>

\* Billing handles the payment request of an attempt and answers; a failure of
\* its own is a 500 and nothing changes.
ServePayment(c) ==
  LET b == arg[c] IN
  /\ pc[c] = "sent"
  /\ \/ ProcessLotPayment(c, b.user, b.lot, b.amount) /\ At(c, "200")
     \/ /\ PaymentRefused(c, b.user, b.lot, b.amount) /\ At(c, "400")
        /\ UNCHANGED billingVars
     \/ PaymentConflict(c) /\ At(c, "409") /\ UNCHANGED billingVars
     \/ /\ PaymentError(c, b.user) \/ Failures
        /\ At(c, "500")
        /\ UNCHANGED billingVars
  /\ UNCHANGED <<arg, attempt, late, clock, lotVars, now>>

\* A conflict on a retry means that an earlier attempt was executed.
PaymentConfirmed(c) == pc[c] = "200" \/ (pc[c] = "409" /\ attempt[c] > 0)

ReceivePaid(c) ==
  /\ PaymentConfirmed(c)
  /\ At(c, "paid")
  /\ UNCHANGED <<billingVars, arg, attempt, late, clock, lotVars, now>>

ReceiveRefused(c) ==
  /\ pc[c] = "400"
  /\ At(c, "refused")
  /\ UNCHANGED <<billingVars, arg, attempt, late, clock, lotVars, now>>

\* Mutant of NextAttempt: one attempt too many.
NextAttemptTooMany(c) ==
  IF attempt[c] < MaxAttempts
  THEN At(c, "sent") /\ attempt' = [attempt EXCEPT ![c] = @ + 1]
  ELSE At(c, "unpaid") /\ UNCHANGED attempt

\* Any other outcome is retried; the last one is returned as an error.
NextAttempt(c) ==
  IF attempt[c] + 1 < MaxAttempts
  THEN At(c, "sent") /\ attempt' = [attempt EXCEPT ![c] = @ + 1]
  ELSE At(c, "unpaid") /\ UNCHANGED attempt

ReceiveOther(c) ==
  /\ pc[c] \in {"409", "500"}
  /\ ~PaymentConfirmed(c)
  /\ NextAttempt(c)
  /\ UNCHANGED <<billingVars, arg, late, clock, lotVars, now>>

\* A connection error: the request or its answer is lost, or, when Late, the
\* request is still on its way.
LosePayment(c) ==
  /\ pc[c] \in Awaiting
  /\ NextAttempt(c)
  /\ \/ UNCHANGED late
     \/ Late /\ pc[c] = "sent" /\ late' = [late EXCEPT ![c] = @ + 1]
  /\ UNCHANGED <<billingVars, arg, clock, lotVars, now>>

\* Billing handles a request whose answer nobody awaits any more.
ServeLate(c) ==
  LET b == arg[c] IN
  /\ late[c] > 0
  /\ late' = [late EXCEPT ![c] = @ - 1]
  /\ \/ ProcessLotPayment(c, b.user, b.lot, b.amount)
     \/ /\ PaymentRefused(c, b.user, b.lot, b.amount) \/ PaymentConflict(c)
        /\ UNCHANGED billingVars
  /\ UNCHANGED <<pc, arg, attempt, clock, lotVars, now>>

----------------------------------------------------------------------------
(* CreateBid: the transaction under the lot's lock.                        *)

BeginBid(c) ==
  /\ pc[c] = "paid"
  /\ ~Locked(arg[c].lot)
  /\ At(c, "locked")
  /\ clock' = [clock EXCEPT ![c] = now]
  /\ UNCHANGED <<billingVars, arg, attempt, late, lotVars, now>>

\* The checks of the transaction, those of handleLotNewBid among them.
Accepted(c) ==
  LET b == arg[c] IN
  /\ b.request \notin lotRequests
  /\ Offer[b.lot].owner # b.user
  /\ b.amount >= Offer[b.lot].start
  /\ lot[b.lot].end >= clock[c]
  /\ lot[b.lot].status = "active"
  /\ \A x \in bids[b.lot] : b.amount > x.amount

BuysNow(b) == Offer[b.lot].buyNow # 0 /\ b.amount >= Offer[b.lot].buyNow

\* Mutant of ExtendedEnd: a bid in the last seconds leaves the end as it is.
EndUnchanged(c) == lot[arg[c].lot].end

ExtendedEnd(c) ==
  LET end == lot[arg[c].lot].end IN
  IF end < clock[c] + Extension THEN clock[c] + Extension ELSE end

\* Mutants of BidEvents: a buy-it-now bid releases nobody; the amount of the
\* new bid in the event that releases the old one.
BidEventsWonOnly(b) ==
  IF BuysNow(b) THEN <<Ev("won", b.user, b.lot, 0)>>
  ELSE IF bids[b.lot] # {}
       THEN LET last == LastBid(b.lot)
            IN  <<Ev("outbid", last.user, b.lot, last.amount)>>
       ELSE <<>>
BidEventsNewAmount(b) ==
  (IF BuysNow(b) THEN <<Ev("won", b.user, b.lot, 0)>> ELSE <<>>)
    \o (IF bids[b.lot] # {}
        THEN <<Ev("outbid", LastBid(b.lot).user, b.lot, b.amount)>>
        ELSE <<>>)

\* lot_won of a buy-it-now bid precedes bid_outbid of the bid it beats.
BidEvents(b) ==
  (IF BuysNow(b) THEN <<Ev("won", b.user, b.lot, 0)>> ELSE <<>>)
    \o (IF bids[b.lot] # {}
        THEN LET last == LastBid(b.lot)
             IN  <<Ev("outbid", last.user, b.lot, last.amount)>>
        ELSE <<>>)

StoreBid(c) ==
  LET b == arg[c] IN
  /\ pc[c] = "locked"
  /\ Accepted(c)
  /\ At(c, "done")
  /\ lotRequests' = lotRequests \union {b.request}
  /\ lot' = [lot EXCEPT ![b.lot] =
               [status |-> IF BuysNow(b) THEN "finished" ELSE @.status,
                end |-> ExtendedEnd(c)]]
  /\ stored' = stored \o BidEvents(b)
  /\ bids' = [bids EXCEPT ![b.lot] =
                @ \union {[user |-> b.user, amount |-> b.amount]}]
  /\ UNCHANGED <<billingVars, arg, attempt, late, clock, snapshot, now>>

\* Mutant of RejectBid: the payment is not compensated.
RejectUncompensated(c) ==
  /\ \/ pc[c] = "locked" /\ (~Accepted(c) \/ Failures)
     \/ pc[c] = "paid" /\ Failures
  /\ At(c, "cancelled")
  /\ UNCHANGED <<billingVars, arg, attempt, late, clock, lotVars, now>>

\* A check fails, or the database does: the transaction rolls back.
RejectBid(c) ==
  /\ \/ pc[c] = "locked" /\ (~Accepted(c) \/ Failures)
     \/ pc[c] = "paid" /\ Failures
  /\ At(c, "failed")
  /\ UNCHANGED <<billingVars, arg, attempt, late, clock, lotVars, now>>

\* Mutant of SendCancelled: a retry after the event is already stored.
SendCancelledAgain(c) ==
  LET b == arg[c] IN
  /\ pc[c] = "failed"
  /\ ~Locked(b.lot)
  /\ At(c, "cancelled") \/ UNCHANGED pc
  /\ Emit(Ev("cancelled", b.user, b.lot, b.amount))
  /\ UNCHANGED <<billingVars, arg, attempt, late, clock,
                 lot, bids, lotRequests, snapshot, now>>

\* sendLotBidCancelledEvent, which gives up after maxCancelAttempts.
SendCancelled(c) ==
  LET b == arg[c] IN
  /\ pc[c] = "failed"
  /\ ~Locked(b.lot)
  /\ At(c, "cancelled")
  /\ Emit(Ev("cancelled", b.user, b.lot, b.amount))
  /\ UNCHANGED <<billingVars, arg, attempt, late, clock,
                 lot, bids, lotRequests, snapshot, now>>

CancelGivesUp(c) ==
  /\ Failures
  /\ pc[c] = "failed"
  /\ At(c, "lost")
  /\ UNCHANGED <<billingVars, arg, attempt, late, clock, lotVars, now>>

----------------------------------------------------------------------------
(* ProcessCompletedLots: a read without a lock, then one transaction a lot. *)

ReadCompletedLots ==
  /\ snapshot = {}
  /\ snapshot' = { [lot |-> l, end |-> lot[l].end] :
                     l \in { x \in Lots : lot[x].status = "active"
                                            /\ lot[x].end < now } }
  /\ snapshot' # {}
  /\ UNCHANGED <<billingVars, callVars, lot, bids, lotRequests, stored, now>>

\* Mutants of NotExtended: no check; a check that an equal end time fails.
NeverExtended(s) == TRUE
EndedEarlier(s) == lot[s.lot].end < s.end

\* The lot's time was not extended since the read.
NotExtended(s) == lot[s.lot].end <= s.end

CompleteLot(s) ==
  LET l == s.lot IN
  /\ s \in snapshot
  /\ ~Locked(l)
  /\ snapshot' = snapshot \ {s}
  /\ \/ /\ NotExtended(s)
        /\ bids[l] # {}
        /\ lot' = [lot EXCEPT ![l].status = "finished"]
        /\ Emit(Ev("won", LastBid(l).user, l, 0))
     \/ /\ NotExtended(s)
        /\ bids[l] = {}
        /\ lot' = [lot EXCEPT ![l].status = "closed"]
        /\ Emit(Ev("closed", Offer[l].owner, l, 0))
     \/ ~NotExtended(s) /\ UNCHANGED <<lot, stored>>
  /\ UNCHANGED <<billingVars, callVars, bids, lotRequests, now>>

\* An error on one lot leaves the others to the next tick.
CompletionFails ==
  /\ Failures
  /\ snapshot # {}
  /\ snapshot' = {}
  /\ UNCHANGED <<billingVars, callVars, lot, bids, lotRequests, stored, now>>

----------------------------------------------------------------------------
(* The Lot service's handling of delivery events: SetLotSent and           *)
(* SetLotReceived.  Each checks that there is a bid, and nothing else.     *)

SetLotSent(l) ==
  /\ ~Locked(l)
  /\ bids[l] # {}
  /\ Emit(Ev("sent", LastBid(l).user, l, 0))
  /\ lot' = [lot EXCEPT ![l].status = "sent"]
  /\ UNCHANGED <<billingVars, callVars, bids, lotRequests, snapshot, now>>

SetLotReceived(l) ==
  /\ ~Locked(l)
  /\ bids[l] # {}
  /\ Emit(Ev("received", LastBid(l).user, l, LastBid(l).amount))
  /\ lot' = [lot EXCEPT ![l].status = "received"]
  /\ UNCHANGED <<billingVars, callVars, bids, lotRequests, snapshot, now>>

\* The Delivery service, from outside: it reports a lot sent that was finished
\* when it asked, and received once it has reported it sent.  Calls to it that
\* overlap make it report either of them again (Delivery.tla).
SentMayArrive(l) == lot[l].status \in {"finished", "sent", "received"}
ReceivedMayArrive(l) == lot[l].status \in {"sent", "received"}

\* BOUND MaxReports.
Reports(l, types) ==
  { i \in DOMAIN stored : stored[i].lot = l /\ stored[i].type \in types }

HandleReport(l) ==
  /\ Cardinality(Reports(l, {"sent", "received"})) < MaxReports
  /\ \/ SentMayArrive(l) /\ SetLotSent(l)
     \/ ReceivedMayArrive(l) /\ SetLotReceived(l)

----------------------------------------------------------------------------
(* Billing's handling of the stored events, delivered at least once and in *)
(* any order.                                                              *)

HandleStored(i) ==
  LET ev == stored[i] IN
  /\ i \in DOMAIN stored
  /\ \/ /\ ev.type \in {"outbid", "cancelled"}
        /\ HandleBidReleased(i, ev.user, ev.lot, ev.amount)
     \/ /\ ev.type = "received"
        /\ HandleLotReceived(i, Offer[ev.lot].owner, ev.user, ev.lot, ev.amount)
  /\ UNCHANGED <<callVars, lotVars, now>>

\* A user tops up while bids are under way.
TopUpFunds(r, u, a) ==
  /\ r \in Requests \ Calls
  /\ TopUpAccount(r, u, a)
  /\ UNCHANGED <<callVars, lotVars, now>>

----------------------------------------------------------------------------
(* The environment.                                                        *)

\* The Lot service's process ends: its calls and its open transactions are
\* lost, requests it had sent may still reach Billing.
Crash ==
  /\ Failures
  /\ pc' = [c \in Calls |-> IF pc[c] \in {"idle"} \union Ended THEN pc[c] ELSE "lost"]
  /\ late' = [c \in Calls |-> IF pc[c] = "sent" THEN late[c] + 1 ELSE late[c]]
  /\ snapshot' = {}
  /\ UNCHANGED <<billingVars, arg, attempt, clock,
                 lot, bids, lotRequests, stored, now>>

\* BOUND MaxTime.  A transaction on a lot is shorter than Extension, the 60
\* seconds of minLotDurationAfterBid.
Tick ==
  /\ now < MaxTime
  /\ \A c \in Calls : pc[c] = "locked" => now < clock[c] + Extension
  /\ now' = now + 1
  /\ UNCHANGED <<billingVars, callVars, lotVars>>

PayForBid(c) ==
  \/ \E b \in Bids : StartBid(c, b)
  \/ ServePayment(c) \/ ReceivePaid(c) \/ ReceiveRefused(c)
  \/ ReceiveOther(c) \/ LosePayment(c) \/ ServeLate(c)

PlaceBid(c) ==
  \/ BeginBid(c) \/ StoreBid(c) \/ RejectBid(c)
  \/ SendCancelled(c) \/ CancelGivesUp(c)

LifeOfLot(l) ==
  \/ \E r \in LotRequests, d \in Durations : CreateLot(l, r, d)
  \/ HandleReport(l)

CompleteLots ==
  \/ ReadCompletedLots
  \/ \E s \in snapshot : CompleteLot(s)
  \/ CompletionFails

BillingWork ==
  \/ \E i \in DOMAIN stored : HandleStored(i)
  \/ \E r \in Requests, u \in Users, a \in Amounts : TopUpFunds(r, u, a)

Next ==
  \/ \E c \in Calls : PayForBid(c) \/ PlaceBid(c)
  \/ \E l \in Lots : LifeOfLot(l)
  \/ CompleteLots
  \/ BillingWork
  \/ Crash
  \/ Tick

Spec == Init /\ [][Next]_vars

\* Calls progress while the service runs, completed lots are looked for every
\* five seconds, Billing's consumer keeps handling events and time passes.  Clients,
\* losses and the delivery of lots are not fair.
CallProgress(c) ==
  \/ ServePayment(c) \/ ReceivePaid(c) \/ ReceiveRefused(c) \/ ReceiveOther(c)
  \/ BeginBid(c) \/ StoreBid(c) \/ RejectBid(c) \/ SendCancelled(c)

FairSpec ==
  /\ Spec
  /\ \A c \in Calls : WF_vars(CallProgress(c))
  /\ WF_vars(CompleteLots)
  /\ WF_vars(\E i \in DOMAIN stored : HandleStored(i))
  /\ WF_vars(Tick)

----------------------------------------------------------------------------
(* Properties.                                                             *)

\* Billing has made the payment for a lot final, by the lot_received events
\* it has applied.
Settlements(l) == Reports(l, {"received"}) \intersect processedEvents
Settled(l) == Settlements(l) # {}
SettledAtMostOnce == { l \in Lots : \A i, j \in Settlements(l) : i = j }

\* Where a payment blocked by Billing is owed: to a call that paid and has
\* neither stored its bid nor sent bid_cancelled, to an event Billing has
\* not handled yet, or to the last bid of a lot not settled yet.
CallHolds(c) == c \in processedRequests /\ pc[c] \notin {"done", "cancelled"}
EventHolds(i) == /\ i \in DOMAIN stored \ processedEvents
                 /\ stored[i].type \in {"outbid", "cancelled"}
BidHolds(l) == bids[l] # {} /\ ~Settled(l)

Holders ==
  { <<"call", c>> : c \in { x \in Calls : CallHolds(x) } }
    \union { <<"event", i>> : i \in { x \in DOMAIN stored : EventHolds(x) } }
    \union { <<"bid", l>> : l \in { x \in Lots : BidHolds(x) } }

Debt(u, l, a) == [user |-> u, lot |-> l, amount |-> a]

Held(h) ==
  CASE h[1] = "call"  -> Debt(arg[h[2]].user, arg[h[2]].lot, arg[h[2]].amount)
    [] h[1] = "event" -> Debt(stored[h[2]].user, stored[h[2]].lot, stored[h[2]].amount)
    [] h[1] = "bid"   -> Debt(LastBid(h[2]).user, h[2], LastBid(h[2]).amount)

Debts == [h \in Holders |-> Held(h)]

Accounted(debts, acc, lots) ==
  /\ \A h \in DOMAIN debts :
       debts[h].lot \in lots
         => acc[debts[h].user].lotBlocked[debts[h].lot] = debts[h].amount
  /\ \A g, h \in DOMAIN debts :
       debts[g].user = debts[h].user /\ debts[g].lot = debts[h].lot /\ debts[g].lot \in lots
         => g = h
  /\ \A u \in Users, l \in lots :
       acc[u].lotBlocked[l] # 0
         => \E h \in DOMAIN debts : debts[h].user = u /\ debts[h].lot = l

\* What is blocked is blocked for somebody: at every moment each holder's
\* amount is what Billing has blocked for its user and lot, no two holders
\* share one payment, and no payment is without a holder.  Funds are neither
\* released twice nor while a bid stands, in any interleaving of calls, crashes
\* and late requests, however often Delivery reports a lot.  Only for a lot
\* that Billing has settled twice it says nothing: a repeated lot_received has
\* then taken the funds of another bid of the winner.
FundsAccounted == Accounted(Debts, account, SettledAtMostOnce)

\* The events Billing cannot get past are the lot_received events of a lot it
\* has settled already.  Every other event it has not handled yet it can
\* apply; one it could not apply would be retried for ever and hold up all
\* events behind it.  (bid_outbid and bid_cancelled of a lot settled twice
\* are left out, as above.)
EventsApplicable ==
  \A i \in DOMAIN stored \ processedEvents :
    LET ev == stored[i] IN
    /\ ev.type \in {"outbid", "cancelled"} /\ ev.lot \in SettledAtMostOnce
         => CanUnblock(account[ev.user], ev.lot, ev.amount)
    /\ ev.type = "received" /\ ~Settled(ev.lot)
         => /\ CanFinish(account[ev.user], ev.lot, ev.amount)
            /\ CanReceive(account[Offer[ev.lot].owner])

\* A lot that is over was decided once: lot_won names the last bidder,
\* lot_closed means there was no bid, and no bid is stored afterwards, though
\* the completion handler reads the lot without a lock and its transaction
\* does not look at the status.
Verdicts(l) ==
  { i \in DOMAIN stored : stored[i].lot = l /\ stored[i].type \in {"won", "closed"} }
OneVerdict ==
  \A l \in Lots :
    /\ Cardinality(Verdicts(l)) = (IF lot[l].status \in {"none", "active"} THEN 0 ELSE 1)
    /\ \A i \in Verdicts(l) :
         IF stored[i].type = "won"
         THEN bids[l] # {} /\ stored[i].user = LastBid(l).user
         ELSE bids[l] = {}

\* A bidder whose payment is refused keeps his funds: Billing looks at the
\* request id first, so a retry of an executed payment is a conflict and not a
\* refusal because the lot's payment is already blocked.
RefusedNotCharged ==
  \A c \in Calls : pc[c] = "refused" => c \notin processedRequests

\* saga.md, step 3: if the payment does not go through, CreateBid returns an
\* error and ends; in case of success the amount becomes blocked.
FailedPaymentBlocksNothing ==
  \A c \in Calls : pc[c] \in {"refused", "unpaid"} => c \notin processedRequests

\* A lot's status moves only forward, although SetLotSent, SetLotReceived and
\* the completion handler overwrite it without looking at it, with one
\* exception: when Delivery reports a received lot sent once more, SetLotSent
\* takes it back to "sent".  Nothing reopens a lot that is over.
Stage == [none |-> 0, active |-> 1, closed |-> 2, finished |-> 2,
          sent |-> 3, received |-> 4]
SentAgain(l) == /\ lot[l].status = "received" /\ lot'[l].status = "sent"
                /\ Cardinality(Reports(l, {"sent"})') > 1
StatusMovesForward ==
  [][\A l \in Lots : lot'[l].status # lot[l].status
       => Stage[lot'[l].status] > Stage[lot[l].status] \/ SentAgain(l)]_vars

\* An auction ends because its end time, extensions included, has passed, or
\* by a bid at the buy-it-now price, and never otherwise.
EndsOnTime ==
  [][\A l \in Lots : lot[l].status = "active" /\ lot'[l].status # "active"
       => \/ lot[l].end < now
          \/ \E b \in bids'[l] \ bids[l] : Offer[l].buyNow # 0 /\ b.amount >= Offer[l].buyNow]_vars

\* A charged call stores its bid or the bidder gets the funds back.
PaidBidIsSettled ==
  \A c \in Calls :
    pc[c] = "paid"
      ~> \/ pc[c] = "done"
         \/ /\ pc[c] = "cancelled"
            /\ account[arg[c].user].lotBlocked[arg[c].lot] = 0

\* Whoever was outbid gets the funds back.
OutbidIsReleased ==
  \A u \in Users, l \in Lots :
    (\E b \in bids[l] : b.user = u /\ b # LastBid(l))
      ~> account[u].lotBlocked[l] = 0 \/ (bids[l] # {} /\ LastBid(l).user = u)

\* An auction is decided, though bids in its last moments keep extending it and
\* the completion handler skips a lot extended since it was read.  (A lot whose
\* end is not before MaxTime, where the clock stops, is left out.)
AuctionEnds ==
  \A l \in Lots :
    lot[l].status = "active" /\ lot[l].end < MaxTime
      ~> lot[l].status # "active" \/ lot[l].end >= MaxTime
============================================================================
