----------------------------- MODULE BillingTx -----------------------------
(***************************************************************************)
(* The Billing service as it runs: HTTP goroutines and event consumers     *)
(* open database transactions, take advisory locks, record the id of what  *)
(* they handle, replay event logs and append to them.  It implements       *)
(* Billing: see BillingRefined.                                            *)
(*                                                                         *)
(* Sources: billing/app/billingservice.go, billing/app/eventhandler.go,    *)
(* billing/infrastructure/postgres/*.go.                                   *)
(***************************************************************************)
EXTENDS Account, Sequences

CONSTANTS Users, Amounts, Requests, EventUIDs,
          HttpWorkers,  \* goroutines of the HTTP server
          Consumers,    \* event consumers: one per instance of the service
          Jobs,         \* the requests and events of a run; a worker may pick
                        \* any of them again: client retries, redeliveries
          NameRank,     \* the order of the users' lock names
          LockKey,      \* the hash of the lock name: hashtext may collide
          NoWorker

Workers == HttpWorkers \union Consumers

RequestKinds == {"topUp", "payment"}
JobKinds == RequestKinds \union {"registered", "released", "received"}
JobType == [kind : JobKinds, id : Requests \union EventUIDs,
            user : Users, owner : Users, lot : Lots, amount : Amounts]

ASSUME AmountsAssumption == Amounts \subseteq Raw \ {0}
\* Request ids and event UIDs share the table processed_request: all are
\* UUIDs, and no client uses the UID of an event for a request.
ASSUME JobsAssumption ==
  /\ Jobs \subseteq JobType
  /\ Requests \intersect EventUIDs = {}
  /\ \A job \in Jobs : job.kind \in RequestKinds <=> job.id \in Requests
ASSUME NoWorkerAssumption == NoWorker \notin Workers
ASSUME NameRankAssumption ==
  /\ NameRank \in [Users -> Nat]
  /\ \A u, v \in Users : NameRank[u] = NameRank[v] => u = v

VARIABLES log,       \* user -> rows of user_account_event, committed
          processed, \* ids in processed_request, committed
          tx,        \* worker -> the transaction it runs
          holder     \* lock key -> the worker whose transaction holds it

vars == <<log, processed, tx, holder>>

AccountEvent == [type : AccountEventTypes, lot : Lots, amount : Amounts]
Event(t, job) == [type |-> t, lot |-> job.lot, amount |-> job.amount]
Row(u, ev) == [user |-> u, event |-> ev]

Idle == [pc |-> "idle"]
InTx(w) == tx[w].pc # "idle"

\* The rows a job appends, in the order of the calls of changeAccountState.
Changes(job) ==
  CASE job.kind = "topUp"      -> <<Row(job.user, Event("topUp", job))>>
    [] job.kind = "payment"    -> <<Row(job.user, Event("block", job))>>
    [] job.kind = "registered" -> <<Row(job.user, Event("create", job))>>
    [] job.kind = "released"   -> <<Row(job.user, Event("unblock", job))>>
    [] job.kind = "received"   -> <<Row(job.user, Event("finish", job)),
                                    Row(job.owner, Event("receive", job))>>

\* Mutant of LockNames: the winner first, as FinalizeLotPayment names them.
LockNamesUnsorted(job) ==
  IF job.kind # "received" THEN <<job.user>> ELSE <<job.user, job.owner>>

\* The users whose lock names a job takes, sorted by name.
LockNames(job) ==
  IF job.kind # "received" THEN <<job.user>>
  ELSE IF NameRank[job.owner] <= NameRank[job.user] THEN <<job.owner, job.user>>
                                                    ELSE <<job.user, job.owner>>

\* LoadEvents: the account after each event of a log, the account the log
\* replays to, and whether no event of it fails.
Loaded(evs) ==
  LET state[i \in 0 .. Len(evs)] ==
        IF i = 0 THEN EmptyAccount ELSE Apply(state[i - 1], evs[i])
  IN  state
Replay(evs) == Loaded(evs)[Len(evs)]
Replays(evs) == \A i \in 1 .. Len(evs) : CanApply(Loaded(evs)[i - 1], evs[i])

\* What the transaction of w sees of a user's log: committed rows and its own.
View(w, u) == log[u] \o tx[w].rows[u]

NoRows == [u \in Users |-> <<>>]

----------------------------------------------------------------------------
Init ==
  /\ log = [u \in Users |-> <<>>]
  /\ processed = {}
  /\ tx = [w \in Workers |-> Idle]
  /\ holder = [k \in {LockKey[u] : u \in Users} |-> NoWorker]

\* The end of a transaction releases its advisory locks and its worker.
End(w) ==
  /\ tx' = [tx EXCEPT ![w] = Idle]
  /\ holder' = [k \in DOMAIN holder |->
                  IF holder[k] = w THEN NoWorker ELSE holder[k]]

\* NewTransactionalUnit.  A request locks first, an event records its UID
\* first; the unit nested by the billing service is the same transaction.
Begin(w) ==
  /\ ~InTx(w)
  /\ \E job \in Jobs :
       /\ w \in HttpWorkers <=> job.kind \in RequestKinds
       /\ tx' = [tx EXCEPT ![w] =
                   [pc |-> IF job.kind \in RequestKinds THEN "locking"
                                                        ELSE "recording",
                    job |-> job, recorded |-> FALSE,
                    locks |-> LockNames(job), todo |-> Changes(job),
                    rows |-> NoRows]]
  /\ UNCHANGED <<log, processed, holder>>

\* Mutant of Lock: a lock of another session is ignored.
LockWithoutWait(w) ==
  /\ tx[w].pc = "locking"
  /\ LET key == LockKey[Head(tx[w].locks)]
         rest == Tail(tx[w].locks)
     IN  /\ holder' = [holder EXCEPT ![key] = w]
         /\ tx' = [tx EXCEPT ![w].locks = rest,
                             ![w].pc = IF rest # <<>> THEN "locking"
                                       ELSE IF tx[w].recorded THEN "changing" ELSE "recording"]
  /\ UNCHANGED <<log, processed>>

\* AddLock: pg_advisory_xact_lock waits while another transaction holds it.
Lock(w) ==
  /\ tx[w].pc = "locking"
  /\ LET key == LockKey[Head(tx[w].locks)]
         rest == Tail(tx[w].locks)
     IN  /\ holder[key] \in {NoWorker, w}
         /\ holder' = [holder EXCEPT ![key] = w]
         /\ tx' = [tx EXCEPT ![w].locks = rest,
                             ![w].pc = IF rest # <<>> THEN "locking"
                                       ELSE IF tx[w].recorded THEN "changing" ELSE "recording"]
  /\ UNCHANGED <<log, processed>>

\* The insert into processed_request waits for an uncommitted equal id.
Recording(w, v) ==
  v # w /\ InTx(v) /\ tx[v].recorded /\ tx[v].job.id = tx[w].job.id

SetProcessed(w) ==
  /\ tx[w].pc = "recording"
  /\ tx[w].job.id \notin processed
  /\ \A v \in Workers : ~Recording(w, v)
  /\ tx' = [tx EXCEPT ![w].recorded = TRUE,
                      ![w].pc = IF tx[w].job.kind \in RequestKinds
                                THEN "changing" ELSE "locking"]
  /\ UNCHANGED <<log, processed, holder>>

\* A request answers 409, an event is acknowledged: nothing is written.
AlreadyProcessed(w) ==
  /\ tx[w].pc = "recording"
  /\ tx[w].job.id \in processed
  /\ End(w)
  /\ UNCHANGED <<log, processed>>

\* Mutant of ChangeAccountState: the transaction ends with the first change.
ChangeOneAccount(w) ==
  /\ tx[w].pc = "changing"
  /\ LET row == Head(tx[w].todo)
         seen == View(w, row.user)
     IN  /\ Replays(seen)
         /\ CanApply(Replay(seen), row.event)
         /\ tx' = [tx EXCEPT ![w].rows[row.user] = Append(@, row.event),
                             ![w].todo = <<>>, ![w].pc = "committing"]
  /\ UNCHANGED <<log, processed, holder>>

\* One changeAccountState: replay, apply, store.
ChangeAccountState(w) ==
  /\ tx[w].pc = "changing"
  /\ LET row == Head(tx[w].todo)
         seen == View(w, row.user)
         rest == Tail(tx[w].todo)
     IN  /\ Replays(seen)
         /\ CanApply(Replay(seen), row.event)
         /\ tx' = [tx EXCEPT ![w].rows[row.user] = Append(@, row.event),
                             ![w].todo = rest,
                             ![w].pc = IF rest = <<>> THEN "committing" ELSE @]
  /\ UNCHANGED <<log, processed, holder>>

\* An error of changeAccountState rolls the whole transaction back.
ChangeFails(w) ==
  /\ tx[w].pc = "changing"
  /\ LET row == Head(tx[w].todo)
         seen == View(w, row.user)
     IN  ~(Replays(seen) /\ CanApply(Replay(seen), row.event))
  /\ End(w)
  /\ UNCHANGED <<log, processed>>

Commit(w) ==
  /\ tx[w].pc = "committing"
  /\ log' = [u \in Users |-> View(w, u)]
  /\ processed' = processed \union {tx[w].job.id}
  /\ End(w)

\* A database error or the end of the process rolls a transaction back.
Abort(w) ==
  /\ InTx(w)
  /\ End(w)
  /\ UNCHANGED <<log, processed>>

Next ==
  \E w \in Workers :
    \/ Begin(w) \/ Lock(w) \/ SetProcessed(w) \/ AlreadyProcessed(w)
    \/ ChangeAccountState(w) \/ ChangeFails(w) \/ Commit(w) \/ Abort(w)

Spec == Init /\ [][Next]_vars

----------------------------------------------------------------------------
(* Properties.                                                             *)

\* Whatever transactions interleave, every committed log still replays: a
\* lost update would leave a log on which LoadEvents fails for good.
LogsReplay == \A u \in Users : Replays(log[u])

\* w waits for a lock or for a row of processed_request that v holds.
WaitsFor(w, v) ==
  \/ /\ tx[w].pc = "locking"
     /\ v # w /\ holder[LockKey[Head(tx[w].locks)]] = v
  \/ tx[w].pc = "recording" /\ Recording(w, v)

\* Transactions never wait for each other in a cycle (the purpose of sorting
\* the lock names, billingservice.go:165, with the order of lock and insert).
NoWaitCycle ==
  \A S \in (SUBSET Workers) \ {{}} :
    \E w \in S : \A v \in S : ~WaitsFor(w, v)

\* The implementation refines Billing: a commit is one request or event
\* handled, everything else is invisible.  Billing's bound on totals is left
\* out, as transactions do not look at it.
Abstract ==
  INSTANCE Billing WITH
    account <- [u \in Users |-> Replay(log[u])],
    processedRequests <- processed \intersect Requests,
    processedEvents <- processed \intersect EventUIDs,
    WrapAllowed <- TRUE
BillingRefined == Abstract!BillingSpec
============================================================================
