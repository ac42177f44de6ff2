------------------------------ MODULE Billing ------------------------------
(***************************************************************************)
(* What the Billing service promises: every request and every integration  *)
(* event changes the accounts in one atomic, idempotent step.  BillingTx   *)
(* implements it with transactions, advisory locks and an event log.       *)
(*                                                                         *)
(* Sources: billing/app/billingservice.go, billing/app/eventhandler.go.    *)
(***************************************************************************)
EXTENDS Account, Functions

CONSTANTS Users,       \* users of the platform
          Amounts,     \* raw amounts that requests and events carry
          Requests,    \* X-Request-ID values Billing may be called with
          EventUIDs,   \* UIDs of integration events
          WrapAllowed  \* FALSE: cut behaviours before a total leaves uint64

ASSUME AmountsAssumption == Amounts \subseteq Raw \ {0}
ASSUME WrapAllowedAssumption == WrapAllowed \in BOOLEAN

VARIABLES account,            \* user -> account, the replay of the user's log
          processedRequests,  \* request ids recorded in processed_request
          processedEvents     \* event UIDs recorded in processed_request

billingVars == <<account, processedRequests, processedEvents>>

BillingTypeOK ==
  /\ account \in [Users -> AccountState]
  /\ processedRequests \subseteq Requests
  /\ processedEvents \subseteq EventUIDs

BillingInit ==
  /\ account = [u \in Users |-> EmptyAccount]
  /\ processedRequests = {}
  /\ processedEvents = {}

\* BOUND.  The behaviours in which a total would exceed 2^64 - 1 are cut unless
\* WrapAllowed: there the code wraps, and the properties may fail.
Fits(acc, a) == WrapAllowed \/ acc.total + a < Width

----------------------------------------------------------------------------
(* Requests.  checkRequestProcessed and changeAccountState share one        *)
(* transaction: on any error neither the request id nor the event is kept. *)

TopUpAccount(r, u, a) ==
  /\ r \notin processedRequests
  /\ CanTopUp(account[u])
  /\ Fits(account[u], a)
  /\ processedRequests' = processedRequests \union {r}
  /\ account' = [account EXCEPT ![u] = TopUp(@, a)]
  /\ UNCHANGED processedEvents

ProcessLotPayment(r, u, l, a) ==
  /\ r \notin processedRequests
  /\ CanBlock(account[u], l, a)
  /\ processedRequests' = processedRequests \union {r}
  /\ account' = [account EXCEPT ![u] = Block(@, l, a)]
  /\ UNCHANGED processedEvents

\* The HTTP status of a payment request that changes nothing.
PaymentConflict(r) == r \in processedRequests                      \* 409

\* Mutant of PaymentRefused: the account is looked at before the request id.
PaymentRefusedFirst(r, u, l, a) ==
  /\ account[u].created
  /\ \/ a > Available(account[u])
     \/ a # 0 /\ account[u].lotBlocked[l] # 0

PaymentRefused(r, u, l, a) ==                                       \* 400
  /\ r \notin processedRequests
  /\ account[u].created
  /\ \/ a > Available(account[u])
     \/ a # 0 /\ account[u].lotBlocked[l] # 0
PaymentError(r, u) == r \notin processedRequests /\ ~account[u].created  \* 500

----------------------------------------------------------------------------
(* Integration events.  SetEventProcessed and the change share one         *)
(* transaction; an event already processed changes nothing; an event that  *)
(* cannot be applied rolls back and the consumer retries it.               *)

\* Mutants of MarkProcessed: the UID goes to the wrong ids; a redelivered
\* event is handled again.
MarkProcessedAsRequest(e) ==
  /\ e \notin processedEvents
  /\ processedRequests' = processedRequests \union {e}
  /\ UNCHANGED processedEvents
MarkProcessedAgain(e) ==
  /\ processedEvents' = processedEvents \union {e}
  /\ UNCHANGED processedRequests

MarkProcessed(e) ==
  /\ e \notin processedEvents
  /\ processedEvents' = processedEvents \union {e}
  /\ UNCHANGED processedRequests

HandleUserRegistered(e, u) ==
  /\ MarkProcessed(e)
  /\ CanCreateAccount(account[u])
  /\ account' = [account EXCEPT ![u] = CreateAccount(@)]

\* bid_outbid and bid_cancelled: CancelLotPayment.
HandleBidReleased(e, u, l, a) ==
  /\ MarkProcessed(e)
  /\ CanUnblock(account[u], l, a)
  /\ account' = [account EXCEPT ![u] = Unblock(@, l, a)]

\* lot_received: FinalizeLotPayment, the winner's part before the owner's.
HandleLotReceived(e, owner, winner, l, a) ==
  /\ MarkProcessed(e)
  /\ CanFinish(account[winner], l, a)
  /\ LET paid == [account EXCEPT ![winner] = Finish(@, l, a)]
     IN  /\ CanReceive(paid[owner])
         /\ Fits(paid[owner], a)
         /\ account' = [paid EXCEPT ![owner] = Receive(@, a)]

\* Any other event type: the parser returns nil and Handle does nothing.

----------------------------------------------------------------------------
HandleEvent(e) ==
  \E u \in Users :
    \/ HandleUserRegistered(e, u)
    \/ \E l \in Lots, a \in Amounts :
         \/ HandleBidReleased(e, u, l, a)
         \/ \E owner \in Users : HandleLotReceived(e, owner, u, l, a)

HandleRequest(r) ==
  \E u \in Users, a \in Amounts :
    \/ TopUpAccount(r, u, a)
    \/ \E l \in Lots : ProcessLotPayment(r, u, l, a)

BillingNext ==
  \/ \E r \in Requests : HandleRequest(r)
  \/ \E e \in EventUIDs : HandleEvent(e)

BillingSpec == BillingInit /\ [][BillingNext]_billingVars

----------------------------------------------------------------------------
(* Properties.                                                             *)

\* The blocked part of an account is the sum of its lot payments: a change
\* of one of the two without the other would make a later unblock or finish
\* fail on the defensive comparison with the blocked amount.
BlockedIsSum ==
  \A u \in Users : account[u].blocked = SumFunction(account[u].lotBlocked)

\* No account is overdrawn: what is blocked is there, and each lot's payment
\* is within the blocked part, so available funds never wrap below zero.
BlockedIsCovered ==
  \A u \in Users :
    /\ account[u].blocked <= account[u].total
    /\ \A l \in Lots : account[u].lotBlocked[l] <= account[u].blocked

AllFunds == SumFunction([u \in Users |-> account[u].total])

\* Events only move money: settling a lot takes from the winner exactly what
\* the owner receives, and releasing a payment returns it.  Only a request
\* (a top-up) changes the sum of all totals.
EventsConserveFunds ==
  [][processedRequests' = processedRequests => AllFunds' = AllFunds]_billingVars
============================================================================
