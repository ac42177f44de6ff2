# A verification of the auction platform

This directory holds TLA+ modules, TLC configurations and TLAPS proofs about
the services in `src/services`: an auction platform of six Go services that
keep their data in PostgreSQL (Auth also in Redis), call each other over HTTP
and publish integration events through one RabbitMQ stream. Paths below are
relative to `src/services/pkg` unless they start with `src/`.

## 1. Inventory

### The components

| component | state it keeps | operations | what makes it correct |
|---|---|---|---|
| **Billing, account state** (`billing/app/useraccountstate.go`) | per user: created, total, blocked, blocked per lot; the replay of a log | create, top up, block, unblock, finish, receive | `blocked` is the sum over the lots and within `total`; each blocked amount is released or finished once |
| **Billing, service** (`billing/app/billingservice.go`, `eventhandler.go`, `infrastructure/postgres`) | tables `user_account_event`, `processed_request`; advisory locks per user | top-up, payment (HTTP); `user_registered`, `bid_outbid`, `bid_cancelled`, `lot_received` (stream) | each request or event takes effect once and atomically, over one account or two; logs always replay; no wait cycle |
| **Lot service** (`lot/app/lotservice.go`) | tables `lot`, `bid`, `processed_request`, `stored_event`; an advisory lock per lot | CreateLot, CreateBid, ProcessCompletedLots (every five seconds), SetLotSent, SetLotReceived | funds blocked for a bid are released, kept or paid exactly once; one verdict per auction, with the last bidder; time extended by late bids |
| **Lot, billing client** (`lot/infrastructure/billing/client.go`) | none | ProcessOrderPayment with up to 10 attempts | a refused or failed payment blocks nothing |
| **Outbox** (`common/infrastructure/storedevent/sender.go`, `*/infrastructure/postgres/eventstore.go`) | `stored_event`; `addedEventUids` in memory | EventStored, SendStoredEvents, the ticker, the confirmations | only committed events are published, and every one of them |
| **Streams and consumer** (`common/infrastructure/streams`, `common/infrastructure/integrationevent/consumer.go`) | the stream, a stored offset per consumer | AddConsumer, SetMessageHandler, handle with retries | each event applied once, in order; none skipped |
| **Delivery** (`delivery/app/deliveryservice.go`) | tables `delivery`, `processed_request`, `stored_event` | SetLotSent (owner), SetLotReceived (winner) | sent before received; one settlement per lot; agreement with the Lot service |
| **User** (`user/app/userservice.go`) | `user_profile`, `processed_request`, `stored_event` | Add, Update | a profile has a login in Auth and the other way round; distinct emails; no update lost |
| **Auth, logins** (`auth/app/userservice.go`) | `auth_user` | Add, Remove, look up | distinct logins |
| **Auth, sessions** (`auth/infrastructure`, `common/jwtauth`) | sessions with a TTL in Redis; the tokens clients hold | login, logout, removal of a user, auth | a token ends soon after its session, and a session that has ended stays so |
| **Notification** (`notification/app`, `infrastructure/postgres`) | `notification`, processed events | one or two rows per event, listed by id | every user told of each event once, in order |
| **Lot, queries** (`lot/infrastructure/postgres/lotqueryservice.go`, `lot/infrastructure/user/client.go`) | `userLoginMap`, shared by all requests | Get, FindAvailable, FindByOwnerID, GetUserLogin | what is said of a lot that is over is true |
| **Processes and HTTP layers** (`src/services/cmd/*/main.go`, `*/infrastructure/transport/http`, `common/infrastructure/postgres/connector.go`) | the readiness flag; requests in flight | start, probe, shutdown; the stages of each handler | a client is told the truth about his request, and told in the end |
| metrics, UUIDs, configuration, Helm, Swagger, tools | none of their own | | |

### How they interact

* Lot calls Billing (`POST /internal/api/v1/payment`) synchronously, before its
  own transaction. User calls Auth (register, remove). Delivery asks Lot for the
  lot's status and User for addresses.
* Events: User -> Billing (`user_registered`); Lot -> Billing (`bid_outbid`,
  `bid_cancelled`, `lot_received`) and -> Notification; Delivery -> Lot
  (`delivery.lot_sent`, `delivery.lot_received`). All travel through one stream;
  each service's consumer sees all events and skips the types it has no use for.
* Every command that changes state records `X-Request-ID`, and every consumer
  the event's UID, in the transaction of the change.

### What is hard

The saga of a bid (payment first, then the bid, compensation by an event) across
retries, lost answers, crashes and competing bids; the completion handler that
reads lots without a lock; transactions that race on one account; the outbox
whose memory is shared without a lock and whose broker deduplicates by a serial
number taken before commit; consumers that start, stop and repeat; the two-stage
delivery whose status lives in two services; the two-service registration; two
processes of a consumer while a new version is rolled out; processes that end
with requests in flight, and clients who repeat those.
`PROJECT.json` lists these hazards, each at its line with the properties that
would catch it going wrong.

## 2. The modules

| module | models | main state and actions |
|---|---|---|
| `Account` | `useraccountstate.go`: for each event type a condition `Can...` and its effect, arithmetic modulo `Width` (2^64 in the code) | pure operators |
| `Billing` | what Billing promises: every request and event is one step over `account`, `processedRequests`, `processedEvents` | `TopUpAccount`, `ProcessLotPayment`, `HandleUserRegistered`, `HandleBidReleased`, `HandleLotReceived`; the answers 409, 400 and 500 of a payment |
| `BillingTx` | how Billing keeps it: goroutines (`tx`) begin a transaction, take advisory locks (`holder`) in name order, insert the id, replay the log and append, commit or abort | `Begin`, `Lock`, `SetProcessed`, `ChangeAccountState`, `Commit`, `Abort`, ... ; `BillingRefined` is `Billing` under a refinement mapping |
| `Auction` | the Lot service with Billing (EXTENDS `Billing`): `pc[c]` says where a `CreateBid` call is, `stored` is `stored_event` | the payment with its retries (`StartBid` to `ServeLate`), the transaction (`BeginBid`, `StoreBid`, `RejectBid`), the compensation (`SendCancelled`), `CreateLot`, `ReadCompletedLots`, `CompleteLot`, Delivery's reports (`HandleReport`: `SetLotSent`, `SetLotReceived`), Billing's `HandleStored`, `Crash`, `Tick` |
| `EventStream` | outbox, broker and the processes of a consumer, independent of what the events say | `AddEvent`, `Commit`, `FindAdded`, `FindUnconfirmed`, `Publish`, `Confirm`, `Subscribe`, `Handle`, ... |
| `Notification` | the Notification service (EXTENDS `EventStream`): what `Handle` is there, here is a transaction `tx[k]` that inserts the uid of an event and its rows one by one | `NothingToDo`, `SetEventProcessed`, `AddNotification`, `Complete`, `HandleFails`, `NotifierStops`; `StreamRefined` is `EventStream` |
| `Delivery` | the handover of one lot through Delivery, Lot and Billing | `StartSent`, `StoreSent`, `StartReceived`, `StoreReceived`, `HandleDelivery`, `Settle` |
| `Registration` | User and Auth: registration and profile updates | `Register`, `CheckLogin`, `AddUser`, `StoreProfile`, `RemoveUser`, `BeginUpdate`, `ReadProfile`, `StoreUpdate` |
| `ServiceProcess` | the process of a service and its handlers: `startup` holds the steps of `main` and `startServer` still to take, `call[c].todo` the stages of a handler | `Start`, `NextStartStep`, `PingSucceeds`, `PingFails`, `StartFails`, `ProbeFails`, `Killed`, `Shutdown`, `FatalAfterShutdown`; `Send`, `CheckRequest`, `CheckCommand`, `BeginCommand`, `CommitCommand`, `RequestFails`, ... |
| `Session` | the sessions of Auth: `auth[x].pc` follows `authHandler` from Redis to PostgreSQL and back | `CheckPassword`, `Store`, `Logout`, `RemoveUser`, `AskAuth`, `FindSession`, `FindUser`, `UpdateSessionTTL`, `GenerateToken` |
| `LotQueries` | the queries of the Lot service: `reader[q]` holds what a query has read so far | `FindByOwnerID`, `LotBidsMap`, `FindAvailable`, `Get`, `KnownLogin`, `AskUserService`, `KeepLogin`, `RacingAccess` |
| `Services` | the three before it together (EXTENDS all of them): a behaviour is about one `endpoint`, the end of the process takes the memory of its handlers with it | `ProcessEnds`, `RuntimeEndsIt` |
| `BillingProofs`, `BillingTxProofs`, `AuctionProofs`, `AuctionOutcomeProofs`, `StreamProofs`, `DeliveryProofs`, `RegistrationProofs`, `ServicesProofs` | theorems; `StreamProofs` is about `EventStream` and `Notification` | |
| `MC*` | instances for TLC: users, jobs, bids, events, symmetry | |

`Auction` uses `Billing` and not `BillingTx`: the refinement that run `billing_tx`
checks and `BillingTxRefinesBilling` proves is what allows it. It delivers stored events in any order and
any number of times, which covers what `EventStream` shows of the stream (in
order, at least once) and more; that an event is not lost is an assumption of
`Auction`'s liveness, and `EventStream` shows when it fails. `SetLotSent` and
`SetLotReceived` check in `Auction` what they check in the code: that nobody holds the lot's
lock and that there is a bid. What the Delivery service may report, and how often, is
the environment's part (`HandleReport`): a lot is reported sent first when it is finished
(Delivery asks for its status) and received only after that, but both any number of
times and in any order from then on, up to the bound `MaxReports`. `Delivery` shows which calls make it report something
twice.

`ServiceProcess` knows of a command only whether it has been carried out: what
carrying it out means is the matter of `Billing`, `Auction`, `Delivery` and
`Registration`. `LotQueries` takes of `Auction` what a query can see: an active
lot gets bids, a lot is decided once, which is what `OneVerdict` says.

Names follow the code where TLA+ allows. Definitions marked "Mutant of" are
slips of the definition after them; no specification uses them. Each property of
a passing run is violated when the mutant listed in `PROJECT.json` takes its
original's place, so no property holds by the shape of the model alone.

### Abstractions

* Amounts are raw integers (hundredths); ids and texts are model values.
* PostgreSQL runs transactions at READ COMMITTED. A transaction is one step
  where nothing it reads can change before its commit, because of a lock it
  holds or because it reads nothing; elsewhere its reads and its commit are
  separate steps (`BillingTx`, the bid in `Auction`, `StartReceived` /
  `StoreReceived`, `ReadProfile` / `StoreUpdate`).
* An insert into `processed_request` waits for another transaction that has
  inserted the same id (`Recording`, `RequestFree`).
* A refused call that changes nothing and is observed by nobody is left out in
  `Delivery`; in `Auction` and `Registration` its outcome is a `pc`.
* A commit whose answer is lost is modelled for the handlers (`RequestFails` of
  `ServiceProcess`) and for the registration, whose compensation it sets off
  (`StoreProfile` of `Registration`); elsewhere a commit happens or is known not
  to have happened.
* A bid's transaction is shorter than the 60 seconds by which it extends the lot
  (`Tick` of `Auction`); the theorems about verdicts and end times rest on it.
* In `Session` a token is forgotten once nobody accepts it, and an answer that is
  later than the write timeout reaches nobody.

## 3. The runs

All bounds are named constants; the comments in the modules say what each
bounds. "Passes" means TLC covered all states.

| run (cfg) | instance | shows |
|---|---|---|
| `billing` (`MCBilling`) | 2 users, 2 lots, 4 requests, 5 events, amounts 1 and 2 | `BillingTypeOK`; `BlockedIsSum`, `BlockedIsCovered`: accounts are consistent and covered; `EventsConserveFunds`: only top-ups change the sum of all money |
| `billing_tx` (`MCBillingTx`) | 2 HTTP workers, 2 consumers, racing payments, a release and settlements in both directions; workers of a kind are symmetric | `LogsReplay`: no transaction leaves a log that cannot be replayed; `NoWaitCycle`; `BillingRefined`, over one account and two; no deadlock |
| `auction` (`MCAuction`) | 1 lot with a buy-it-now price, 2 calls of 2 bidders, the second at that price, 2 attempts, clock to 3, 1 report of Delivery, `FairSpec` | `TypeOK`, `RefusedNotCharged`, `EndsOnTime`; `PaidBidIsSettled`, `OutbidIsReleased`, `AuctionEnds` |
| `auction_faults` (`MCAuctionFaults`) | 2 calls with rising bids of 2 bidders and a repeated request id, a top-up, totals below 4 (`Width`, a bound here), clock to 2, 3 reports, `Late`, `Failures` | under crashes, database errors, failed compensation, requests executed after the client gave up and repeated reports of Delivery: `FundsAccounted`, `EventsApplicable`, `OneVerdict`, `StatusMovesForward` |
| `auction_lost_answers` (`MCAuctionLost`) | | **violation** of `FailedPaymentBlocksNothing` (finding 1) |
| `event_stream` (`MCEventStream`) | 2 goroutines, the ticker, 2 events, rows in any order, one lost batch, one restart of each side | `PublishedIsCommitted`, `AppliedInOrder`, `NothingSkipped` |
| `notifications` (`MCNotification`) | 2 events, the first published before the service starts; 2 overlapping processes of the consumer, one failed transaction, one restart; 1 goroutine of the producer, `NotifyFairSpec` | `NotifyTypeOK`; `NotifiedOnce`, `ListedInOrder`: a bidder who is outbid and wins all the same is told so once, in this order; `StreamRefined`; `EveryEventHandled` |
| `stream_out_of_order` (`MCEventStreamLost`) | 2 goroutines, nothing lost or restarted | **violation** of `ConfirmedIsPublished` (finding 2) |
| `delivery` (`MCDelivery`) | 3 overlapping calls, 4 requests, `FairSpec` | `ReceivedAfterSent`, `OneEventPerRequest`, `ServicesAgree`; while calls do not overlap, `ReceivedOnce`, `HandoverMovesForward`, `ReceivedIsSettled` |
| `delivery_overlap` (`MCDeliveryOverlap`) | 3 calls, 3 requests | **violation** of `ReceivedIsPaid` (finding 3) |
| `registration` (`MCRegistration`) | 3 registrations, 2 logins, 2 emails, 1 update, failures, commits of lost answer and crashes, `FairSpec` | `TypeOK`; `RegisteredCanLogIn`, `EmailsDistinct`; until something fails, `NoOrphanLogin`, `RegistrationEnds` |
| `services` (`MCServices`) | for each endpoint one process, two overlapping requests with one id, 2 pings, 2 faults; for Auth 1 session, 1 authentication, clock to 5; for the lists 1 lot, 2 bidders, 2 queries, 2 bids; `FairSpec` | `AnswerIsTrue`, `RequestIsAnswered`, `TokenEndsWithSession`, `ListsAreTrue` |

Why the bounds are enough. A payment involves one user and one lot, a
settlement two users; two users and two lots let every pair of events meet on
the same account, on the same lot, and on different ones. In `Auction` the
conflicts are between a bid and the bid it beats, the completion handler, the
delivery and Billing's events, so two calls and one lot reach each of them; what
more calls and lots could add to `FundsAccounted` and `EventsApplicable` is
settled by the proofs, which hold for any number. Amounts 1, 2, 3 distinguish
"below the last bid", "above" and "buys now". With totals below 4 a bidder of
`auction_faults` who has 2 needs the top-up to buy now, and the owner can receive
every price. A bid of the lot's owner, which is rejected like one that is too low, is in no
run; the proofs cover it. Two attempts show a lost answer and a retry; the code's ten add nothing but length. In
`auction` a lot ends at 1, can be extended to 2, and is then over at 3, before the
clock stops: so a lot can end, be extended and end again, and `AuctionEnds` asks for the
end of an extended lot too (its second extension, to 3, is the one left out). In
`auction_faults` three reports are the fewest in which a lot is sent, received and
reported once more either way, and the clock may stop at 2 since no liveness is
checked there.
`RefusedNotCharged` is checked without `Late`: a request executed after its
client gave up can charge a call that a later attempt was refused for. In
`EventStream` two events are the fewest that can be out of order, and with the
offset stored every second message a restart repeats none, one or both. In
`Notification` two events are the fewest that can be listed in the wrong order,
and a second process of a consumer is the one that overlaps the first during a
rolling update (the Notification service has one replica). In `Services` ids do
not touch one another, so one id with two requests shows every conflict; of the 60
pings of the code two show a success, a failure and the last one; two faults put
a lost answer after a lost database or a shutdown; the TTL of a session is longer
than that of a token and than the write timeout, as in the code, and the clock
reaches the end of a refreshed session. What more requests, sessions, lots, events
and faults could add to the safety properties is settled by the proofs. Three
registrations let one take a login another has given up while a third asks for
it. `CHECK_DEADLOCK` is off where calls, bids or ids run out and the system may
rest; in `BillingTx` jobs repeat, so it is on.

The counter-conditions matter too: `EveryEventHandled` is checked for one
transaction at a time with no lost message, because with two goroutines
(`stream_out_of_order`) or a lost batch followed by a later event the broker
drops the older one and it fails. Some properties hold only up to an event, which a history
variable or the stored events remember, and say so:

* `Delivery!overlapped`: a call has been made before the others were over and
  the Lot service had followed them. The code does not enforce that users wait;
  `delivery_overlap` shows what happens when they do not.
* `EventStream!ignored`: messages that came before the consumer had its handler.
  The code drops them; every other message is covered.
* `Registration!failed`: a request between the services, a transaction or a
  process has failed. The code does not repair what is left behind then.
* `RegisteredCanLogIn`: of a profile whose registration was answered with an error
  after such a failure (finding 4) it says only that nobody else has its login.
* `Auction!SettledAtMostOnce`: a second `lot_received` of a lot finds nothing blocked
  for its winner, and Billing cannot apply it; or it finds what another bid of the winner,
  paid and not yet released, has blocked, of the same amount. `FundsAccounted`
  and the releases in `EventsApplicable` are about the lots Billing has
  settled at most once, and `EventsApplicable` excepts the receipts of a lot settled
  before. Everything else is covered, a repeated receipt that Billing has not
  handled among it.
* `StatusMovesForward` excepts one step, `SentAgain`: a repeated `lot_sent` takes a
  received lot back to "sent".

`NoWaitCycle` is checked for distinct lock keys. `hashtext` may map two names to
one key. If a third name lies between them, the order of the names is not an order
of the keys: with a < b < c, where a and c share a key, the settlement of a and b
and that of b and c lock the two keys in opposite order and can wait for each
other, until PostgreSQL aborts one (`Abort`). The theorem is for keys that follow
the names (`KeysFollowNames`), distinct keys among them.

### Fairness

* `Auction!FairSpec`: a call in progress goes on (its goroutine runs and Billing
  answers), the completion handler's ticker fires every five seconds, Billing's
  consumer keeps handling events, and time passes. Nothing is assumed of
  clients, of top-ups, of users who deliver a lot, nor of lost answers, whose
  number `MaxAttempts` bounds.
* `EventStream!FairSpec`: goroutines and the ticker go on, the broker accepts,
  confirms and delivers, and a stopped consumer is started again (the
  deployment restarts a process that ends).
* `Delivery!FairSpec`: the two consumers handle events; users need not call.
* `Registration!FairSpec`: a call that has begun goes on; `RegistrationEnds` is
  checked up to the first failure.
* `Notification!NotifyFairSpec`: as `EventStream!FairSpec`, and a process that has
  begun to handle an event goes on (`backoff.Retry` calls the handler again).
  Nothing is assumed of failures but that `Failures` bounds them.
* `Services!FairSpec`: Kubernetes starts a process that has ended, the start goes
  on, the database comes back, a request in progress goes on, and a client repeats
  a request he has no answer to. Faults are bounded for each endpoint, not unfair:
  two, at any time.

Only weak fairness is used: no step depends on being enabled again and again.

## 4. What is proved

With TLAPS, for every value of the constants the assumptions allow. Every theorem
is `Spec => []P` or `Spec => P` for the property `P` in its row.

| module | theorem | property |
|---|---|---|
| `BillingProofs` | `BillingTypeCorrect`, `BillingBlockedIsSum`, `BillingNeverOverdrawn`, `BillingEventsConserveFunds` | `BillingTypeOK`, `BlockedIsSum`, `BlockedIsCovered`, `EventsConserveFunds` |
| `BillingTxProofs` | `BillingTxTypeCorrect`, `BillingLogsReplay`, `BillingNoWaitCycle`, `BillingTxRefinesBilling` | `TxTypeOK`, `LogsReplay`, `NoWaitCycle`, `BillingRefined` |
| `BillingTxProofs` | `BillingTxNeverOverdrawn`, `BillingTxEventsConserveFunds` | `BlockedIsSum` and `BlockedIsCovered`, `EventsConserveFunds` of `Billing`, of what the logs replay to |
| `AuctionProofs` | `AuctionTypeCorrect`, `AuctionFundsAccounted`, `AuctionEventsApplicable` | `TypeOK`, `FundsAccounted`, `EventsApplicable` of `Auction`, with crashes and late requests |
| `AuctionOutcomeProofs` | `AuctionDecidedOnce`, `AuctionMovesForward`, `AuctionEndsOnTime`, `AuctionRefusedNotCharged` | `OneVerdict`, `StatusMovesForward`, `EndsOnTime`; `RefusedNotCharged`, without late requests |
| `StreamProofs` | `EventStreamTypeCorrect`, `OnlyCommittedIsPublished`, `ConsumerAppliesInOrder`, `OffsetSkipsNothing` | `TypeOK`, `PublishedIsCommitted`, `AppliedInOrder`, `NothingSkipped` of `EventStream`, for any order of rows |
| `StreamProofs` | `NotificationRefinesStream`, `NotificationTypeCorrect`, `NotificationsStoredOnce`, `NotificationsInOrder` | `StreamRefined`, `NotifyTypeOK`, `NotifiedOnce`, `ListedInOrder` of `Notification` |
| `DeliveryProofs` | `DeliveryTypeCorrect`, `DeliveryInOrder`, `DeliveryOnce`, `DeliveryAgreed`, `DeliveryReceivedOnce`, `DeliveryMovesForward` | `TypeOK`, `ReceivedAfterSent`, `OneEventPerRequest`, `ServicesAgree`, `ReceivedOnce`, `HandoverMovesForward` |
| `RegistrationProofs` | `RegistrationTypeCorrect`, `RegisteredUsersCanLogIn`, `ProfileEmailsDistinct`, `NoLoginIsOrphaned` | `TypeOK`, `RegisteredCanLogIn`, `EmailsDistinct`, `NoOrphanLogin` |
| `ServicesProofs` | `AnswersAreTrue`, `TokensEndWithSessions`, `ListsAreFinal` | `AnswerIsTrue`, `TokenEndsWithSession`, `ListsAreTrue` |

Assumptions: the named `ASSUME`s of the modules, all of which TLC evaluates; the
main ones are that `Lots` is finite, amounts are positive and below `Width`, and an
id of a request is never the UID of an event (they share `processed_request`).
The theorems of `BillingProofs`, `AuctionProofs` and `AuctionOutcomeProofs` are for
`~WrapAllowed`, which excludes the behaviours in which a total would leave uint64
(finding 8). Those of `BillingTxProofs` are not: there totals wrap as in the code,
and the `Billing` that is refined has `WrapAllowed`; only its last two theorems are for
behaviours whose logs never take a total past uint64 (`[]NoTotalWraps`). Some theorems have
one hypothesis more: those of `EventsConserveFunds` that `Users` is finite, without which a
sum of all money means nothing; `BillingNoWaitCycle` that `KeysFollowNames` (section 3);
`AuctionRefusedNotCharged` that there are no late requests.

Induction over data. `BlockedIsSum` and `AllFunds` sum a function over a set, and
`Replay` follows a log; both are recursive functions. The induction theorems of the
library take an operator as a parameter and cannot be instantiated, so the lemmas
about them are proved by a least counterexample: the set of the numbers, or of the
subsets, for which a claim fails is given a name, and if it is not empty it has a least
number (`LeastNatural`) or a smallest set (`SmallestSet`), whose predecessor refutes it.
That gives `SumRecursion` and `SumUpdated` (a sum changes by what one of its terms
changes), `LoadedIsLoaded` and `ReplayAppend` (a row more is one `Apply` more).

The argument for Billing. `BlockedIsCovered` is not inductive: a payment of one
lot can be subtracted from `blocked` without going below zero only because
`blocked` is the SUM of the lots' payments. So the invariant of one account is
`Sound`: typed, `blocked <= total`, and `blocked` is that sum; each event keeps it
(`BlockSound`, `ReleaseSound`). A settlement is two updates of the totals, and
`SumUpdated`, applied twice, says that they cancel, for two users as for one who is
both owner and winner.

The argument for Billing's transactions. `TxIInv` follows each transaction: `Stage` says
what it has locked, recorded and appended at each `pc`, `Holds` that it holds the keys
of the names it has locked and no other, `RecordedOnce` that no two open ones have recorded
one id. `Progress` says that the rows it has
appended apply to the committed log AS IT IS NOW, which another commit could make
false. None can: a row is appended only to the log of a user whose name the transaction has locked,
and no two transactions hold one key (`LockedLogsStay`). Then a commit leaves
logs that replay, and its rows are the effect of one step of `Billing` on what the
logs replay to (`CommittedStep`, `CommitRefines`); all other steps are stutters. As long
as no total wraps it is a step of `Billing` with its bound too (`CommitBounded`), so the
theorems of `BillingProofs`, instantiated with the replay of the logs (`Bounded`), hold of
the logs.
For `NoWaitCycle`: a request locks its only name before it records its id, and an event
records its UID before it locks, so a transaction that waits and is waited for is a
settlement between its two locks (`WaitingHolder`); the one it waits for has a
greater first name, and the greatest of these waits for none.

The argument for the auction. `FundsAccounted` says that *debts* (of calls under
way, unhandled events and standing bids) and blocked payments correspond one to
one, on every lot that Billing has settled at most once. `IInv` adds what a step needs to keep it so:

* `AccountsSound` (above, for every user);
* `StoredPayable`, `ProcessedStored`: the events Billing handles were stored and
  carry payable amounts;
* `BidsRanked`: a lot's bids have distinct amounts, so "the last bid" is one;
* `ReportedIsOver`: a lot that Delivery has reported on is over, so its bids do
  not change any more;
* `ReceiptsOfLast`: every receipt, the first as the tenth, carries the last bid of its
  lot, so the first one Billing handles settles what that bid holds;
* `CallsCharged`: a call that stores a bid or cancels one has been charged, and
  an idle one has not.

The last bid of a lot holds its debt until Billing has handled a receipt, so a
receipt moves no debt when it is stored. Four lemmas about debts in general carry the
proof: `HandOver` (a step that moves a debt to a new holder: a stored bid, a
cancellation, an outbid event), `NewDebt` (a payment), `DebtPaid` (an event
handled), `QuietStep` (anything else). Each action is an instance of one of them.
A second receipt that Billing handles takes the lot out of `SettledAtMostOnce`, and
what is accounted for on all lots is accounted for on the others (`FewerLots`).
`EventsApplicable` follows: an unhandled release is a holder, and the first receipt
meets the holder "last bid", so what they carry is exactly what is blocked.

The argument for verdicts and end times. The completion handler reads the lots
without a lock, and the transaction that decides one compares its end with the
one that was read, never the status. What saves it is the clock. `Outcome`
says so: a transaction of a bid is shorter than `Extension` (`LocksAreShort`); so a
bid on a lot whose end has passed moves the end, a bid at the buy-it-now price
too, and a lot read as over whose end is unchanged is still active
(`SnapshotSound`); a lot that is over has one verdict (`Decided`). A lot is sent or
received only after a `lot_sent` (`SentIsStored`), so what SetLotSent takes back from
"received" it was told to store a second time (`SecondSent`). For `RefusedNotCharged`, `Refusals` adds that a
refused call has not been executed, which a late request would break.

The argument for the stream. On the publishing side what is to be published, or
confirmed, or is in the stream is a committed row (`OutboxType`), and the stream
increases (`Increasing`), so a step only lengthens it. On the consuming side
every process has dealt with all messages before its position, and so had whoever
applied an event (`Handling`): two processes at different positions apply events
in one order because the one that is ahead has left nothing to apply behind it.

The argument for notifications. `TxOK`: an open transaction is about the next
message of its process, which is relevant and processed by nobody, and no two
transactions are about the same. Then `Complete` is a `Handle` of `EventStream` and every
other step a stutter or a step of the stream. `Progress` follows the notes of an
event from those still to store to the rows of the transaction, and `Table` says
that the table has all notes of the processed events, each once. The order of the
list is that of serial ids, which are taken when a row is inserted, not when it is
committed. `RowsInOrder` therefore covers the rows of open transactions too: a row
comes after one of a later event only if its event was ignored before. For when it
is inserted its process is at that event, whoever stored the other was further
in the stream, and had dealt with that event before: had it been handled it would be
processed (`LateIsIgnored`).

The argument for the handover. `Followed`: each service's status is that of the last
event it made or handled. `Recording`: open transactions have recorded distinct
new requests. `Undisturbed`: while nobody overlaps there is one call at a time, the
events are "sent" and then "received", and the payment is blocked until the second
is handled.

The argument for the registration. `Agreed`: what each service has stored of a user
depends on how far his registration is. A profile of a registration that does not end
"registered" is there only because the answer of a commit was lost, and keeps its login
until the call ends "refused". `LoginsRead`: an update writes back the
login it has read, and no step changes a profile's login in between.

The argument for the services. Each part of the state has its own invariant, which
the end of a process keeps. `Requesting`: an open transaction has a new id, no two have the same,
and who was answered 200 or 409 is recorded. `SessionsOK`: an authentication
asked while its session was open, or will fail, so that the token it ends with expires in
time. `Querying`: the bids a query has read of a lot that was over are all of them.

Only model-checked: all liveness, which is out of the prover's reach:
`PaidBidIsSettled`, `OutbidIsReleased`, `AuctionEnds`, `EveryEventHandled`,
`ReceivedIsSettled`, `RegistrationEnds`, `RequestIsAnswered`. Every other property of
a passing run is stated by a theorem.

## 5. Findings

A run exhibits each of the first three:

1. `lot/infrastructure/billing/client.go:53`: after all attempts an error is
   returned although one of them may have been executed; CreateBid does not
   compensate and the amount stays blocked (`auction_lost_answers`).
2. `common/infrastructure/streams/producer.go:33`: events published out of the
   order of their serial ids are dropped by the broker as duplicates and
   confirmed; they reach nobody (`stream_out_of_order`).
3. `delivery/app/deliveryservice.go:97`: overlapping confirmations of receipt
   emit two `lot_received`; Billing cannot apply the second and its consumer
   stops there (`delivery_overlap`). When the winner has another bid request of the
   same amount for this lot under way, paid and not yet released, the second takes
   its funds instead (`HandleStored` of `Auction`, outside `SettledAtMostOnce`).

The others are steps of the models that no property contradicts, or excluded by
name in the property they would break:

4. `user/app/userservice.go:61`: any error of the transaction makes Add remove the
   login from Auth, that of a Commit which took effect and whose answer was lost
   among them. The profile and its `user_registered` event are then stored, and the user
   can neither log in nor register again with his login or email
   (`StoreProfile`, then `RemoveUser`; excepted in `RegisteredCanLogIn`).
5. `lot/app/lotservice.go:175`: SetLotSent overwrites the status, so a second
   `delivery.lot_sent` that arrives after `delivery.lot_received` takes the lot
   back to "sent" (`SentAgain`, excepted in `StatusMovesForward`).
6. `common/infrastructure/streams/environment.go:70`: messages delivered before
   the handler is set are ignored, and their offset may be stored (`Ignore`).
7. `user/app/userservice.go:89`: of two overlapping profile updates of different
   fields one undoes the other, both answered 200 (`ReadProfile`, `StoreUpdate`).
8. `billing/app/useraccountstate.go:182`: top-ups add without a bound; past
   2^64 - 1 the account becomes smaller (`TopUp`, with `WrapAllowed`).
9. `src/services/cmd/lot/main.go:154`, and the same line of every service:
   `ListenAndServe` returns as soon as `Shutdown` begins, and `logger.Fatal` ends the
   process at once, so the shutdown waits for no request (`FatalAfterShutdown`).
10. The probes of `deployment.yaml` in every chart are swapped: `/ready` is the
    liveness probe, `/health` the readiness probe. Nothing listens before
    `WaitUntilReady` has returned, so `/ready` never says "not ready", and a
    process that waits for its database is ended by Kubernetes before its 60 pings
    are over (`ProbeFails`).
11. `lot/infrastructure/user/client.go:26`: `userLoginMap` has no lock; two queries at a
    time may end the process (`RacingAccess`, `RuntimeEndsIt`).
12. `lot/infrastructure/postgres/lotqueryservice.go:76`: with `participation=1` and
    `win=1` the status is not looked at, and lots that are still open are listed as
    won (excluded in `ListsAreTrue`).
13. `auth/infrastructure/redis/sessionclient.go:41`: any error of Redis is answered 401,
    since `data` is empty then, and the client takes his session for lost
    (`NotAuthorized`).
14. The HTTP layers have no error for a malformed body and answer 500, which tells a
    client to try again (`CheckRequest`, stage "body"); the answer of the repeated
    "sent" request changes from 409 to 400 when the Lot service has handled
    the first one (`delivery/app/deliveryservice.go:43`, stage "peer" before "tx");
    and `POST user` has no `X-Request-ID` at all, so a client whose answer is lost
    is told that his login is taken (`LoseAnswer` of `Registration`).

## 6. Not modelled, and the plan

Not modelled:

* A commit of a bid whose answer is lost: `lotservice.go:161` takes it for a failure
  and releases the payment of a bid that is stored. It breaks `FundsAccounted` by
  itself; `ServiceProcess` has such commits for the commands without a saga.
* The order in which a user registers and first pays (`Auction` starts with accounts
  that exist), and `Delivery` composed with `Auction`, which assumes of Delivery only
  what `SentMayArrive` and `ReceivedMayArrive` say.
* A second replica of a producing service (User and Delivery have two), whose
  sender uses the same producer name with a memory of its own: finding 2 is there
  with one process already.
* Removal of messages from the stream after 24 hours; the rounding of float amounts
  (`billing/app/amount.go:30`); events of types a parser does not know are in
  the models, but no instance has them.
* Metrics, UUIDs, the signature of a token, JSON, configuration, Helm charts and
  tools: no state of their own. Nobody checks here that SQL statements mean what the
  models say.

The plan was, most important first: `Account` and `Billing`, `BillingTx` as its
implementation, `Auction`, their proofs, `EventStream`, `Delivery`, `Registration`;
then `Notification` as an implementation of the consumer of `EventStream`, processes
and handlers, sessions and queries; then the proofs of all safety properties the
prover can reach. That is done. What would come next: `Delivery` composed with
`Auction`; a ledger of payments (blocked, then released or settled, once) as an
abstract specification of `Auction`; and a commit of unknown outcome in the saga,
with the property it leaves.
