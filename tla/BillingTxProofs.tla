-------------------------- MODULE BillingTxProofs --------------------------
(***************************************************************************)
(* Theorems about the transactions of the Billing service, for any number  *)
(* of workers, users, lots and jobs: committed logs always replay, no      *)
(* transactions wait for each other in a cycle, and the service implements *)
(* Billing, so that no log overdraws an account.                           *)
(*                                                                         *)
(* The inductive invariant follows each transaction through its locks      *)
(* (Stage), says which locks it holds (Holds) and that the rows it has     *)
(* written so far apply to the log as it is (Progress).  The last is what  *)
(* another commit could break; it cannot, as two transactions never hold   *)
(* the lock of one account at a time (LockedLogsStay).                     *)
(*                                                                         *)
(* Waiting: a request locks one name before it records its id and an event *)
(* records its UID before it locks, so of transactions that all wait only  *)
(* a settlement between its two locks holds one another wants.  From each  *)
(* such settlement to the one it waits for the first name increases.       *)
(***************************************************************************)
EXTENDS BillingTx, FiniteSetTheorems, WellFoundedInduction, SequenceTheorems, TLAPS

----------------------------------------------------------------------------
(* The inductive invariant.                                                *)

Keys == {LockKey[u] : u \in Users}
TxRow == [user : Users, event : AccountEvent]
TxState == [pc : {"locking", "recording", "changing", "committing"},
            job : Jobs, recorded : BOOLEAN, locks : Seq(Users),
            todo : Seq(TxRow), rows : [Users -> Seq(AccountEvent)]]

TxTypeOK ==
  /\ log \in [Users -> Seq(AccountEvent)]
  /\ processed \subseteq Requests \union EventUIDs
  /\ tx \in [Workers -> {Idle} \union TxState]
  /\ holder \in [Keys -> Workers \union {NoWorker}]

\* The order of locking, recording and changing: of a request and of an event.
Stage(t) ==
  /\ t.locks \in {LockNames(t.job), Tail(LockNames(t.job)), <<>>}
  /\ t.pc = "locking" => t.locks # <<>>
  /\ t.pc \in {"changing", "committing"} => t.locks = <<>> /\ t.recorded
  /\ t.job.kind \in RequestKinds =>
       /\ t.pc = "locking" => ~t.recorded
       /\ t.pc = "recording" => ~t.recorded /\ t.locks = <<>>
  /\ t.job.kind \notin RequestKinds =>
       /\ t.pc = "locking" => t.recorded
       /\ t.pc = "recording" => ~t.recorded /\ t.locks = LockNames(t.job)

\* The names whose locks a transaction has taken.
Taken(t) ==
  IF t.locks = LockNames(t.job) THEN {}
  ELSE IF t.locks = <<>> THEN Range(LockNames(t.job)) ELSE {LockNames(t.job)[1]}

\* A transaction holds the locks it has taken and no other.
Holds(w) ==
  /\ InTx(w) => \A u \in Taken(tx[w]) : holder[LockKey[u]] = w
  /\ \A k \in Keys :
       holder[k] = w => InTx(w) /\ \E u \in Taken(tx[w]) : k = LockKey[u]

\* The rows of a transaction: the changes of its job so far, each applicable to
\* the log as it is, with the rows before it.
OneRow(row) == [NoRows EXCEPT ![row.user] = <<row.event>>]
FirstApplies(job) ==
  LET first == Changes(job)[1] IN CanApply(Replay(log[first.user]), first.event)
SecondApplies(job) ==
  LET first == Changes(job)[1]
      second == Changes(job)[2]
  IN  CanApply(Replay(log[second.user] \o OneRow(first)[second.user]), second.event)

NothingChanged(t) == t.todo = Changes(t.job) /\ t.rows = NoRows
FirstChanged(t) ==
  /\ t.todo = Tail(Changes(t.job))
  /\ t.rows = OneRow(Changes(t.job)[1])
  /\ FirstApplies(t.job)
BothChanged(t) ==
  LET second == Changes(t.job)[2] IN
  /\ t.todo = <<>>
  /\ t.rows = [OneRow(Changes(t.job)[1]) EXCEPT ![second.user] = Append(@, second.event)]
  /\ FirstApplies(t.job) /\ SecondApplies(t.job)

Progress(t) ==
  /\ t.pc \in {"locking", "recording"} => NothingChanged(t)
  /\ t.pc = "changing" => \/ NothingChanged(t)
                          \/ t.job.kind = "received" /\ FirstChanged(t)
  /\ t.pc = "committing" =>
       IF t.job.kind = "received" THEN BothChanged(t) ELSE FirstChanged(t)

Orderly(w) == InTx(w) => Stage(tx[w]) /\ Progress(tx[w])

\* The id of a recorded job is its own until the transaction ends.
RecordedOnce ==
  /\ \A w \in Workers : InTx(w) /\ tx[w].recorded => tx[w].job.id \notin processed
  /\ \A v, w \in Workers :
       InTx(v) /\ InTx(w) /\ tx[v].recorded /\ tx[w].recorded /\ tx[v].job.id = tx[w].job.id
         => v = w

OpenTx == {w \in Workers : InTx(w)}

TxIInv ==
  /\ TxTypeOK
  /\ \A w \in Workers : Orderly(w) /\ Holds(w)
  /\ RecordedOnce
  /\ LogsReplay
  /\ IsFiniteSet(OpenTx)
----------------------------------------------------------------------------
(* Replaying a log.  Loaded is a recursive function: that it exists, and   *)
(* what one event more does to it, is proved with the least event at which *)
(* it fails.                                                               *)

\* A set of naturals has a least element.
LEMMA LeastNatural ==
  ASSUME NEW T, T \subseteq Nat, T # {}
  PROVE  \E n \in T : \A m \in T : n <= m
<1> DEFINE D == {0 .. n : n \in T}
<1>1. D \subseteq FiniteSubsetsOf(Nat) /\ D # {}
  <2>1. ASSUME NEW n \in T PROVE 0 .. n \in FiniteSubsetsOf(Nat)
    <3>1. IsFiniteSet(0 .. n) /\ 0 .. n \subseteq Nat
      BY FS_Interval
    <3>2. QED
      BY <3>1 DEF FiniteSubsetsOf
  <2>2. QED
    BY <2>1
<1>2. PICK d \in D : \A e \in D : ~(<<e, d>> \in StrictSubsetOrdering(Nat))
  BY <1>1, FS_StrictSubsetOrderingWellFounded, WFMin, Zenon
<1>3. PICK n \in T : d = 0 .. n
  OBVIOUS
<1>4. ASSUME NEW m \in T, ~(n <= m) PROVE FALSE
  <2>1. /\ 0 .. m \subseteq 0 .. n /\ n \in 0 .. n /\ n \notin 0 .. m
        /\ 0 .. m \subseteq Nat /\ 0 .. n \subseteq Nat
    BY <1>4
  <2>2. <<0 .. m, 0 .. n>> \in StrictSubsetOrdering(Nat)
    BY <2>1 DEF StrictSubsetOrdering
  <2>3. QED
    BY <1>2, <1>3, <2>2
<1>5. QED
  BY <1>4

\* state is what loading the first n events yields, event by event.
LoadStep(state, evs, i) ==
  IF i = 0 THEN EmptyAccount ELSE Apply(state[i - 1], evs[i])
IsLoaded(state, evs, n) == state = [i \in 0 .. n |-> LoadStep(state, evs, i)]

LEMMA LoadedExists ==
  ASSUME NEW evs, NEW N \in Nat
  PROVE  \E state : IsLoaded(state, evs, N)
<1> DEFINE Bad == {n \in Nat : ~\E state : IsLoaded(state, evs, n)}
<1> SUFFICES ASSUME Bad # {} PROVE FALSE
  OBVIOUS
<1>1. PICK n \in Bad : \A m \in Bad : n <= m
  <2>1. Bad \subseteq Nat
    OBVIOUS
  <2> HIDE DEF Bad
  <2>2. QED
    BY <2>1, LeastNatural
<1>2. CASE n = 0
  <2> DEFINE s == [i \in 0 .. n |-> EmptyAccount]
  <2>1. \A i \in 0 .. n : s[i] = LoadStep(s, evs, i)
    BY <1>2 DEF LoadStep
  <2>2. IsLoaded(s, evs, n)
    BY <2>1 DEF IsLoaded
  <2>3. QED
    BY <2>2
<1>3. CASE n # 0
  <2>1. n - 1 \in Nat /\ n - 1 \notin Bad
    BY <1>1, <1>3
  <2>2. PICK s : IsLoaded(s, evs, n - 1)
    BY <2>1
  <2> DEFINE t == [i \in 0 .. n |-> IF i = n THEN Apply(s[n - 1], evs[n]) ELSE s[i]]
  <2>3. ASSUME NEW i \in 0 .. n PROVE t[i] = LoadStep(t, evs, i)
    <3>1. CASE i = n
      BY <1>3, <3>1 DEF LoadStep
    <3>2. CASE i # n
      <4>1. i \in 0 .. (n - 1) /\ (i # 0 => i - 1 \in 0 .. n /\ i - 1 # n)
        BY <3>2
      <4>2. s[i] = LoadStep(s, evs, i)
        BY <2>2, <4>1 DEF IsLoaded
      <4>3. QED
        BY <3>2, <4>1, <4>2 DEF LoadStep
    <3>3. QED
      BY <3>1, <3>2
  <2>4. IsLoaded(t, evs, n)
    BY <2>3 DEF IsLoaded
  <2>5. QED
    BY <2>4
<1>4. QED
  BY <1>2, <1>3

\* The equation of Loaded.
LEMMA LoadedIsLoaded ==
  ASSUME NEW evs, Len(evs) \in Nat
  PROVE  IsLoaded(Loaded(evs), evs, Len(evs))
<1>1. PICK s : IsLoaded(s, evs, Len(evs))
  BY LoadedExists
<1>2. Loaded(evs) = CHOOSE state : IsLoaded(state, evs, Len(evs))
  BY DEF Loaded, IsLoaded, LoadStep
<1>3. QED
  BY <1>1, <1>2

\* Logs with the same first events load them alike.
LEMMA SamePrefixLoaded ==
  ASSUME NEW evs, NEW more, Len(evs) \in Nat, Len(more) \in Nat,
         NEW n \in Nat, n <= Len(evs), n <= Len(more),
         \A i \in 1 .. n : evs[i] = more[i]
  PROVE  \A i \in 0 .. n : Loaded(more)[i] = Loaded(evs)[i]
<1> DEFINE s == Loaded(evs)
           t == Loaded(more)
           Bad == {i \in 0 .. n : t[i] # s[i]}
<1>1. IsLoaded(s, evs, Len(evs)) /\ IsLoaded(t, more, Len(more))
  BY LoadedIsLoaded
<1> HIDE DEF s, t
<1> SUFFICES ASSUME Bad # {} PROVE FALSE
  BY DEF s, t
<1>2. PICK i \in Bad : \A j \in Bad : i <= j
  <2>1. Bad \subseteq Nat
    OBVIOUS
  <2> HIDE DEF Bad
  <2>2. QED
    BY <2>1, LeastNatural
<1>3. s[i] = LoadStep(s, evs, i) /\ t[i] = LoadStep(t, more, i)
  <2>1. i \in 0 .. Len(evs) /\ i \in 0 .. Len(more)
    OBVIOUS
  <2> HIDE DEF Bad
  <2>2. QED
    BY <1>1, <2>1 DEF IsLoaded
<1>4. i # 0
  BY <1>3 DEF LoadStep
<1>5. i - 1 \in 0 .. n /\ i - 1 \notin Bad /\ i \in 1 .. n
  BY <1>2, <1>4
<1>6. t[i - 1] = s[i - 1]
  BY <1>5
<1>7. QED
  BY <1>3, <1>4, <1>5, <1>6 DEF LoadStep

\* No event, no account; and what one event more does to a log.
LEMMA ReplayEmpty == Replay(<<>>) = EmptyAccount /\ Replays(<<>>)
<1>1. Len(<<>>) = 0
  OBVIOUS
<1>2. IsLoaded(Loaded(<<>>), <<>>, 0)
  BY <1>1, LoadedIsLoaded
<1>3. Loaded(<<>>)[0] = EmptyAccount
  BY <1>2 DEF IsLoaded, LoadStep
<1>4. QED
  BY <1>1, <1>3 DEF Replay, Replays

LEMMA ReplayAppend ==
  ASSUME NEW E, NEW evs \in Seq(E), NEW ev \in E
  PROVE  /\ Replay(Append(evs, ev)) = Apply(Replay(evs), ev)
         /\ Replays(Append(evs, ev)) <=> Replays(evs) /\ CanApply(Replay(evs), ev)
<1> DEFINE n == Len(evs)
           more == Append(evs, ev)
<1>1. /\ n \in Nat /\ Len(more) = n + 1 /\ more[n + 1] = ev
      /\ \A i \in 1 .. n : evs[i] = more[i]
  BY AppendProperties, LenProperties
<1> HIDE DEF n, more
<1>2. \A i \in 0 .. n : Loaded(more)[i] = Loaded(evs)[i]
  <2>1. Len(evs) = n
    BY DEF n
  <2>2. QED
    BY <1>1, <2>1, SamePrefixLoaded
<1>3. Loaded(more)[n + 1] = LoadStep(Loaded(more), more, n + 1)
  BY <1>1, LoadedIsLoaded DEF IsLoaded
<1>4. Loaded(more)[n + 1] = Apply(Loaded(evs)[n], ev)
  BY <1>1, <1>2, <1>3 DEF LoadStep
<1>5. Replay(more) = Apply(Replay(evs), ev)
  BY <1>1, <1>4 DEF Replay, n
<1>6. Replays(more) <=> /\ \A i \in 1 .. n : CanApply(Loaded(evs)[i - 1], evs[i])
                        /\ CanApply(Loaded(evs)[n], ev)
  <2>1. 1 .. (n + 1) = (1 .. n) \union {n + 1}
    BY <1>1
  <2>2. \A i \in 1 .. n : Loaded(more)[i - 1] = Loaded(evs)[i - 1] /\ more[i] = evs[i]
    BY <1>1, <1>2
  <2>3. Loaded(more)[(n + 1) - 1] = Loaded(evs)[n] /\ more[n + 1] = ev
    BY <1>1, <1>2
  <2>4. QED
    BY <1>1, <2>1, <2>2, <2>3 DEF Replays
<1>7. QED
  BY <1>5, <1>6 DEF Replay, Replays, n, more

----------------------------------------------------------------------------
(* Jobs: the locks they take and the rows they append.                     *)

LEMMA OneElement ==
  ASSUME NEW a
  PROVE  /\ Len(<<a>>) = 1 /\ Head(<<a>>) = a /\ Tail(<<a>>) = <<>>
         /\ <<a>> # <<>> /\ <<a>>[1] = a /\ Range(<<a>>) = {a}
BY DEF Range

LEMMA TwoElements ==
  ASSUME NEW a, NEW b
  PROVE  /\ Len(<<a, b>>) = 2 /\ Head(<<a, b>>) = a /\ Tail(<<a, b>>) = <<b>>
         /\ <<a, b>> # <<>> /\ <<a, b>> # <<b>>
         /\ <<a, b>>[1] = a /\ <<a, b>>[2] = b /\ Range(<<a, b>>) = {a, b}
BY DEF Range

LEMMA TupleTyped ==
  ASSUME NEW S, NEW a \in S, NEW b \in S
  PROVE  <<a>> \in Seq(S) /\ <<a, b>> \in Seq(S) /\ <<>> \in Seq(S)
OBVIOUS

LEMMA JobTyped ==
  ASSUME NEW job \in Jobs
  PROVE  /\ job.kind \in JobKinds /\ job.id \in Requests \union EventUIDs
         /\ job.user \in Users /\ job.owner \in Users
         /\ job.lot \in Lots /\ job.amount \in Amounts
BY JobsAssumption DEF JobType

LEMMA EventTyped ==
  ASSUME NEW job \in Jobs, NEW t \in AccountEventTypes, NEW u \in Users
  PROVE  Event(t, job) \in AccountEvent /\ Row(u, Event(t, job)) \in TxRow
<1>1. job.lot \in Lots /\ job.amount \in Amounts
  BY JobTyped
<1>2. Event(t, job) \in AccountEvent
  BY <1>1 DEF Event, AccountEvent
<1>3. QED
  BY <1>2 DEF Row, TxRow

\* All jobs but lot_received change one account.
LEMMA OneChange ==
  ASSUME NEW job \in Jobs, job.kind # "received"
  PROVE  /\ LockNames(job) = <<job.user>>
         /\ \E t \in AccountEventTypes : Changes(job) = <<Row(job.user, Event(t, job))>>
<1>1. job.kind \in {"topUp", "payment", "registered", "released"}
  BY JobTyped DEF JobKinds, RequestKinds
<1>2. LockNames(job) = <<job.user>>
  BY DEF LockNames
<1>3. CASE job.kind = "topUp"
  <2>1. Changes(job) = <<Row(job.user, Event("topUp", job))>>
    BY <1>3 DEF Changes
  <2>2. "topUp" \in AccountEventTypes
    BY DEF AccountEventTypes
  <2>3. QED
    BY <1>2, <2>1, <2>2
<1>4. CASE job.kind = "payment"
  <2>1. Changes(job) = <<Row(job.user, Event("block", job))>>
    BY <1>4 DEF Changes
  <2>2. "block" \in AccountEventTypes
    BY DEF AccountEventTypes
  <2>3. QED
    BY <1>2, <2>1, <2>2
<1>5. CASE job.kind = "registered"
  <2>1. Changes(job) = <<Row(job.user, Event("create", job))>>
    BY <1>5 DEF Changes
  <2>2. "create" \in AccountEventTypes
    BY DEF AccountEventTypes
  <2>3. QED
    BY <1>2, <2>1, <2>2
<1>6. CASE job.kind = "released"
  <2>1. Changes(job) = <<Row(job.user, Event("unblock", job))>>
    BY <1>6 DEF Changes
  <2>2. "unblock" \in AccountEventTypes
    BY DEF AccountEventTypes
  <2>3. QED
    BY <1>2, <2>1, <2>2
<1>7. QED
  BY <1>1, <1>2, <1>3, <1>4, <1>5, <1>6

\* A settlement locks both users by name, and changes winner and owner.
LEMMA TwoChanges ==
  ASSUME NEW job \in Jobs, job.kind = "received"
  PROVE  /\ \E a, b \in Users :
              /\ LockNames(job) = <<a, b>> /\ {a, b} = {job.user, job.owner}
              /\ NameRank[a] <= NameRank[b]
         /\ Changes(job) = <<Row(job.user, Event("finish", job)),
                             Row(job.owner, Event("receive", job))>>
<1>1. job.user \in Users /\ job.owner \in Users
  BY JobTyped
<1>2. NameRank[job.user] \in Nat /\ NameRank[job.owner] \in Nat
  BY <1>1, NameRankAssumption
<1>3. CASE NameRank[job.owner] <= NameRank[job.user]
  <2>1. LockNames(job) = <<job.owner, job.user>>
    BY <1>3 DEF LockNames
  <2>2. QED
    BY <1>1, <1>3, <2>1 DEF Changes
<1>4. CASE ~(NameRank[job.owner] <= NameRank[job.user])
  <2>1. LockNames(job) = <<job.user, job.owner>> /\ NameRank[job.user] <= NameRank[job.owner]
    BY <1>2, <1>4 DEF LockNames
  <2>2. QED
    BY <1>1, <2>1 DEF Changes
<1>5. QED
  BY <1>3, <1>4

LEMMA JobSequences ==
  ASSUME NEW job \in Jobs
  PROVE  /\ LockNames(job) \in Seq(Users) /\ LockNames(job) # <<>>
         /\ Changes(job) \in Seq(TxRow) /\ Changes(job) # <<>>
         /\ \A i \in 1 .. Len(Changes(job)) : Changes(job)[i].user \in Range(LockNames(job))
         /\ Range(LockNames(job)) \subseteq Users
<1>1. job.user \in Users /\ job.owner \in Users
  BY JobTyped
<1>2. CASE job.kind # "received"
  <2>1. PICK t \in AccountEventTypes : Changes(job) = <<Row(job.user, Event(t, job))>>
    BY <1>2, OneChange
  <2>2. Row(job.user, Event(t, job)) \in TxRow
    BY <1>1, EventTyped
  <2>3. LockNames(job) = <<job.user>>
    BY <1>2, OneChange
  <2>4. \A i \in 1 .. Len(Changes(job)) : Changes(job)[i].user = job.user
    BY <2>1, OneElement DEF Row
  <2>5. QED
    BY <1>1, <2>1, <2>2, <2>3, <2>4, OneElement
<1>3. CASE job.kind = "received"
  <2>1. /\ Changes(job) = <<Row(job.user, Event("finish", job)),
                            Row(job.owner, Event("receive", job))>>
    BY <1>3, TwoChanges
  <2>2. /\ Row(job.user, Event("finish", job)) \in TxRow
        /\ Row(job.owner, Event("receive", job)) \in TxRow
    BY <1>1, EventTyped DEF AccountEventTypes
  <2>3. PICK a, b \in Users : LockNames(job) = <<a, b>> /\ {a, b} = {job.user, job.owner}
    BY <1>3, TwoChanges
  <2>4. \A i \in 1 .. Len(Changes(job)) : Changes(job)[i].user \in {job.user, job.owner}
    BY <2>1, TwoElements DEF Row
  <2>5. Changes(job) \in Seq(TxRow) /\ Changes(job) # <<>>
    <3> DEFINE first == Row(job.user, Event("finish", job))
               second == Row(job.owner, Event("receive", job))
    <3>1. Changes(job) = <<first, second>> /\ first \in TxRow /\ second \in TxRow
      BY <2>1, <2>2
    <3> HIDE DEF first, second
    <3>2. Changes(job) \in Seq(TxRow)
      BY <3>1, TupleTyped
    <3>3. Changes(job) # <<>>
      BY <3>1, TwoElements
    <3>4. QED
      BY <3>2, <3>3
  <2>6. /\ LockNames(job) \in Seq(Users) /\ LockNames(job) # <<>>
        /\ Range(LockNames(job)) = {job.user, job.owner}
    <3>1. <<a, b>> \in Seq(Users)
      OBVIOUS
    <3>2. <<a, b>> # <<>> /\ Range(<<a, b>>) = {a, b}
      BY TwoElements
    <3>3. QED
      BY <2>3, <3>1, <3>2
  <2>7. QED
    BY <1>1, <2>4, <2>5, <2>6
<1>4. QED
  BY <1>2, <1>3

\* What has been locked, by what is left to lock.
LEMMA TakenOf ==
  ASSUME NEW t, t.job \in Jobs
  PROVE  /\ t.locks = LockNames(t.job) => Taken(t) = {}
         /\ t.locks = <<>> => Taken(t) = Range(LockNames(t.job))
         /\ t.locks \in {LockNames(t.job), Tail(LockNames(t.job)), <<>>} =>
              Taken(t) \subseteq Range(LockNames(t.job))
<1>1. LockNames(t.job) # <<>> /\ LockNames(t.job) \in Seq(Users)
  BY JobSequences
<1>2. LockNames(t.job)[1] \in Range(LockNames(t.job))
  BY <1>1 DEF Range
<1>3. QED
  BY <1>1, <1>2 DEF Taken

----------------------------------------------------------------------------
(* What a step of one transaction leaves alone.                            *)

LEMMA OpenTyped ==
  ASSUME TxTypeOK, NEW w \in Workers
  PROVE  /\ InTx(w) => tx[w] \in TxState
         /\ ~InTx(w) => tx[w] = Idle
         /\ tx[w].pc \in {"locking", "recording", "changing", "committing"} => InTx(w)
<1>1. tx[w] = Idle \/ tx[w] \in TxState
  BY DEF TxTypeOK
<1>2. tx[w] = Idle => tx[w].pc = "idle"
  BY DEF Idle
<1>3. tx[w] \in TxState => tx[w].pc \in {"locking", "recording", "changing", "committing"}
  BY DEF TxState
<1>4. QED
  BY <1>1, <1>2, <1>3 DEF InTx

LEMMA OrderlyStays ==
  ASSUME NEW v \in Workers, Orderly(v), tx'[v] = tx[v], UNCHANGED log
  PROVE  Orderly(v)'
BY DEF Orderly, InTx, Stage, Progress, NothingChanged, FirstChanged, BothChanged,
       FirstApplies, SecondApplies

\* A transaction opens or goes on: the open ones stay finitely many.
LEMMA OpenFinite ==
  ASSUME IsFiniteSet(OpenTx), NEW w \in Workers,
         \A v \in Workers \ {w} : tx'[v] = tx[v]
  PROVE  IsFiniteSet(OpenTx)'
<1>1. OpenTx' \subseteq OpenTx \union {w}
  BY DEF OpenTx, InTx
<1>2. IsFiniteSet(OpenTx \union {w})
  BY FS_AddElement
<1>3. IsFiniteSet(OpenTx')
  BY <1>1, <1>2, FS_Subset
<1>4. QED
  BY <1>3

\* No lock changes hands.
LEMMA HoldsStays ==
  ASSUME NEW v \in Workers, Holds(v), UNCHANGED holder,
         InTx(v) => InTx(v)' /\ Taken(tx'[v]) = Taken(tx[v]),
         ~InTx(v) /\ InTx(v)' => Taken(tx'[v]) = {}
  PROVE  Holds(v)'
<1>1. ASSUME InTx(v)', NEW u \in Taken(tx'[v]) PROVE holder'[LockKey[u]] = v
  BY <1>1 DEF Holds
<1>2. ASSUME NEW k \in Keys, holder'[k] = v
      PROVE  InTx(v)' /\ \E u \in Taken(tx'[v]) : k = LockKey[u]
  BY <1>2 DEF Holds
<1>3. QED
  BY <1>1, <1>2 DEF Holds, Keys

----------------------------------------------------------------------------
(* The inductive invariant, action by action.                              *)

LEMMA TxInit == Init => TxIInv
<1> SUFFICES ASSUME Init PROVE TxIInv
  OBVIOUS
<1>1. \A w \in Workers : ~InTx(w) /\ tx[w] = Idle
  BY DEF Init, InTx, Idle
<1>2. TxTypeOK
  BY <1>1 DEF Init, TxTypeOK, Keys
<1>3. \A w \in Workers : Holds(w)
  BY <1>1, NoWorkerAssumption DEF Init, Holds, Keys
<1>4. LogsReplay
  BY ReplayEmpty DEF Init, LogsReplay
<1>5. IsFiniteSet(OpenTx)
  <2>1. OpenTx = {}
    BY <1>1 DEF OpenTx
  <2>2. QED
    BY <2>1, FS_EmptySet
<1>6. QED
  BY <1>1, <1>2, <1>3, <1>4, <1>5 DEF TxIInv, RecordedOnce, Orderly

LEMMA BeginStep ==
  ASSUME TxIInv, NEW w \in Workers, Begin(w)
  PROVE  TxIInv'
<1>1. PICK job \in Jobs :
        tx' = [tx EXCEPT ![w] = [pc |-> IF job.kind \in RequestKinds THEN "locking"
                                                                  ELSE "recording",
                                 job |-> job, recorded |-> FALSE,
                                 locks |-> LockNames(job), todo |-> Changes(job),
                                 rows |-> NoRows]]
  BY DEF Begin
<1>2. ~InTx(w) /\ UNCHANGED <<log, processed, holder>>
  BY DEF Begin
<1> DEFINE t == tx'[w]
<1>3. TxTypeOK
  BY DEF TxIInv
<1>4. /\ t.pc = (IF job.kind \in RequestKinds THEN "locking" ELSE "recording")
      /\ t.job = job /\ t.recorded = FALSE /\ t.locks = LockNames(job)
      /\ t.todo = Changes(job) /\ t.rows = NoRows
      /\ \A v \in Workers \ {w} : tx'[v] = tx[v]
  BY <1>1, <1>3 DEF TxTypeOK
<1>5. t \in TxState
  <2>1. NoRows \in [Users -> Seq(AccountEvent)]
    BY DEF NoRows
  <2>2. QED
    BY <1>1, <1>3, <2>1, JobSequences DEF TxState, TxTypeOK
<1>6. TxTypeOK'
  <2>1. tx' \in [Workers -> {Idle} \union TxState]
    BY <1>1, <1>3, <1>5 DEF TxTypeOK
  <2>2. QED
    BY <1>2, <1>3, <2>1 DEF TxTypeOK, Keys
<1>7. InTx(w)' /\ Stage(tx'[w])
  BY <1>4, JobSequences DEF Stage, InTx
<1>8. Orderly(w)'
  BY <1>4, <1>7 DEF Orderly, Stage, Progress, NothingChanged
<1>9. \A v \in Workers : Orderly(v)'
  BY <1>2, <1>4, <1>8, OrderlyStays DEF TxIInv
<1>10. \A v \in Workers : Holds(v)'
  <2>1. Taken(tx'[w]) = {}
    BY <1>4, TakenOf
  <2>2. \A v \in Workers \ {w} : (InTx(v)' <=> InTx(v)) /\ Taken(tx'[v]) = Taken(tx[v])
    BY <1>4 DEF InTx
  <2>3. QED
    BY <1>2, <2>1, <2>2, HoldsStays DEF TxIInv
<1>11. RecordedOnce'
  BY <1>2, <1>4 DEF TxIInv, RecordedOnce, InTx
<1>12. LogsReplay' /\ IsFiniteSet(OpenTx)'
  BY <1>2, <1>4, OpenFinite DEF TxIInv, LogsReplay
<1>13. QED
  BY <1>6, <1>9, <1>10, <1>11, <1>12 DEF TxIInv

LEMMA RecordedStays ==
  ASSUME RecordedOnce, UNCHANGED processed,
         \A v \in Workers : InTx(v)' /\ tx'[v].recorded =>
           InTx(v) /\ tx[v].recorded /\ tx'[v].job = tx[v].job
  PROVE  RecordedOnce'
<1>1. ASSUME NEW v \in Workers, InTx(v)', tx'[v].recorded
      PROVE  tx'[v].job.id \notin processed'
  BY <1>1 DEF RecordedOnce
<1>2. ASSUME NEW v \in Workers, NEW w \in Workers, InTx(v)', InTx(w)',
             tx'[v].recorded, tx'[w].recorded, tx'[v].job.id = tx'[w].job.id
      PROVE  v = w
  BY <1>2 DEF RecordedOnce
<1>3. QED
  BY <1>1, <1>2 DEF RecordedOnce

\* One name more is taken, the first of those left.
LEMMA LockTakes ==
  ASSUME NEW t, NEW t2, t.job \in Jobs, t2.job = t.job, t.locks # <<>>,
         t.locks \in {LockNames(t.job), Tail(LockNames(t.job))},
         t2.locks = Tail(t.locks)
  PROVE  /\ Head(t.locks) \in Users
         /\ Taken(t2) = Taken(t) \union {Head(t.locks)}
         /\ Tail(t.locks) \in {Tail(LockNames(t.job)), <<>>}
<1> DEFINE job == t.job
<1>1. job.user \in Users
  BY JobTyped
<1>2. CASE job.kind # "received"
  <2>1. LockNames(job) = <<job.user>>
    BY <1>2, OneChange
  <2>2. t.locks = <<job.user>> /\ Tail(LockNames(job)) = <<>>
    BY <2>1, OneElement
  <2>3. Head(t.locks) = job.user /\ t2.locks = <<>> /\ Range(<<job.user>>) = {job.user}
    BY <2>2, OneElement
  <2>4. Taken(t) = {} /\ Taken(t2) = {job.user}
    BY <2>1, <2>2, <2>3, OneElement DEF Taken
  <2>5. QED
    BY <1>1, <2>2, <2>3, <2>4
<1>3. CASE job.kind = "received"
  <2>1. PICK a, b \in Users : LockNames(job) = <<a, b>>
    BY <1>3, TwoChanges
  <2>2. Tail(LockNames(job)) = <<b>> /\ <<a, b>>[1] = a /\ Range(<<a, b>>) = {a, b}
    BY <2>1, TwoElements
  <2>3. CASE t.locks = <<a, b>>
    <3>1. Head(t.locks) = a /\ t2.locks = <<b>> /\ <<b>> # <<a, b>> /\ <<b>> # <<>>
      BY <2>3, TwoElements, OneElement
    <3>2. Taken(t) = {} /\ Taken(t2) = {a}
      BY <2>1, <2>2, <2>3, <3>1 DEF Taken
    <3>3. QED
      BY <2>2, <2>3, <3>1, <3>2
  <2>4. CASE t.locks = <<b>>
    <3>1. Head(t.locks) = b /\ t2.locks = <<>> /\ <<b>> # <<a, b>> /\ <<b>> # <<>> /\ <<a, b>> # <<>>
      BY <2>4, TwoElements, OneElement
    <3>2. Taken(t) = {a}
      BY <2>1, <2>2, <2>4, <3>1 DEF Taken
    <3>3. Taken(t2) = {a, b}
      BY <2>1, <2>2, <3>1 DEF Taken
    <3>4. QED
      BY <2>2, <2>4, <3>1, <3>2, <3>3
  <2>5. QED
    BY <2>1, <2>2, <2>3, <2>4
<1>4. QED
  BY <1>2, <1>3

LEMMA LockStep ==
  ASSUME TxIInv, NEW w \in Workers, Lock(w)
  PROVE  TxIInv'
<1> DEFINE t == tx[w]
           key == LockKey[Head(t.locks)]
           rest == Tail(t.locks)
           pc2 == IF rest # <<>> THEN "locking"
                  ELSE IF t.recorded THEN "changing" ELSE "recording"
<1>1. /\ t.pc = "locking" /\ holder[key] \in {NoWorker, w}
      /\ holder' = [holder EXCEPT ![key] = w]
      /\ tx' = [tx EXCEPT ![w].locks = rest, ![w].pc = pc2]
      /\ UNCHANGED <<log, processed>>
  BY DEF Lock
<1>2. TxTypeOK /\ Orderly(w) /\ Holds(w)
  BY DEF TxIInv
<1>3. InTx(w) /\ t \in TxState
  BY <1>1, <1>2, OpenTyped
<1>4. Stage(t) /\ Progress(t)
  BY <1>2, <1>3 DEF Orderly
<1>5. /\ t.job \in Jobs /\ t.locks # <<>> /\ t.recorded \in BOOLEAN
      /\ t.locks \in {LockNames(t.job), Tail(LockNames(t.job))}
      /\ t.locks \in Seq(Users)
  BY <1>1, <1>3, <1>4 DEF TxState, Stage
<1>6. /\ tx'[w] = [t EXCEPT !.locks = rest, !.pc = pc2]
      /\ \A v \in Workers \ {w} : tx'[v] = tx[v]
  BY <1>1, <1>2 DEF TxTypeOK
<1>7. /\ tx'[w].job = t.job /\ tx'[w].locks = rest /\ tx'[w].pc = pc2
      /\ tx'[w].recorded = t.recorded /\ tx'[w].todo = t.todo /\ tx'[w].rows = t.rows
  BY <1>3, <1>6 DEF TxState
<1>8. /\ Head(t.locks) \in Users
      /\ Taken(tx'[w]) = Taken(t) \union {Head(t.locks)}
      /\ rest \in {Tail(LockNames(t.job)), <<>>}
  BY <1>5, <1>7, LockTakes
<1>9. pc2 \in {"locking", "recording", "changing"} /\ rest \in Seq(Users)
  BY <1>5
<1>10. tx'[w] \in TxState
  BY <1>3, <1>6, <1>9 DEF TxState
<1>11. TxTypeOK'
  <2>1. tx' \in [Workers -> {Idle} \union TxState]
    BY <1>1, <1>2, <1>10 DEF TxTypeOK
  <2>2. holder' \in [Keys -> Workers \union {NoWorker}]
    BY <1>1, <1>2 DEF TxTypeOK
  <2>3. QED
    BY <1>1, <1>2, <2>1, <2>2 DEF TxTypeOK, Keys
<1>12. InTx(w)'
  BY <1>7, <1>9 DEF InTx
<1>13. Stage(tx'[w])
  <2>1. /\ pc2 = "locking" => rest # <<>>
        /\ pc2 = "changing" => rest = <<>> /\ t.recorded
        /\ pc2 = "recording" => rest = <<>> /\ ~t.recorded
    BY <1>5
  <2>2. /\ t.job.kind \in RequestKinds => ~t.recorded
        /\ t.job.kind \notin RequestKinds => t.recorded
    BY <1>1, <1>4 DEF Stage
  <2>3. QED
    BY <1>7, <1>8, <1>9, <2>1, <2>2 DEF Stage
<1>14. Progress(tx'[w])
  <2>1. NothingChanged(t)
    BY <1>1, <1>4 DEF Progress
  <2>2. NothingChanged(tx'[w])
    BY <1>7, <2>1 DEF NothingChanged
  <2>3. QED
    BY <1>7, <1>9, <2>2 DEF Progress
<1>15. \A v \in Workers : Orderly(v)'
  <2>1. Orderly(w)'
    BY <1>1, <1>13, <1>14 DEF Orderly, Stage, Progress, NothingChanged, FirstChanged,
       BothChanged, FirstApplies, SecondApplies
  <2>2. QED
    BY <1>1, <1>6, <2>1, OrderlyStays DEF TxIInv
<1>16. key \in Keys /\ holder'[key] = w /\ \A k \in Keys \ {key} : holder'[k] = holder[k]
  BY <1>1, <1>2, <1>8 DEF TxTypeOK, Keys
<1>17. \A v \in Workers : Holds(v)'
  <2>1. ASSUME NEW v \in Workers \ {w} PROVE Holds(v)'
    <3>1. tx'[v] = tx[v] /\ Holds(v)
      BY <1>6 DEF TxIInv
    <3>2. \A k \in Keys : holder'[k] = v <=> holder[k] = v
      BY <1>1, <1>16, NoWorkerAssumption
    <3>3. ASSUME InTx(v), NEW u \in Taken(tx[v]) PROVE holder'[LockKey[u]] = v
      <4>1. holder[LockKey[u]] = v
        BY <3>1, <3>3 DEF Holds
      <4>2. TxTypeOK /\ tx[v] \in TxState /\ Stage(tx[v])
        BY <3>3, OpenTyped DEF TxIInv, Orderly
      <4>3. u \in Users
        BY <4>2, TakenOf, JobSequences DEF TxState, Stage
      <4>4. LockKey[u] \in Keys
        BY <4>3 DEF Keys
      <4>5. QED
        BY <3>2, <4>1, <4>4
    <3>4. ASSUME NEW k \in Keys, holder'[k] = v
          PROVE  InTx(v) /\ \E u \in Taken(tx[v]) : k = LockKey[u]
      BY <3>1, <3>2, <3>4 DEF Holds
    <3>5. QED
      BY <3>1, <3>3, <3>4 DEF Holds, InTx, Keys
  <2>2. Holds(w)'
    <3>1. ASSUME NEW u \in Taken(tx'[w]) PROVE holder'[LockKey[u]] = w
      <4>1. CASE u = Head(t.locks)
        BY <1>16, <4>1
      <4>2. CASE u \in Taken(t)
        <5>1. u \in Users
          BY <1>4, <1>5, <4>2, TakenOf, JobSequences DEF Stage
        <5>2. LockKey[u] \in Keys /\ holder[LockKey[u]] = w
          BY <1>2, <1>3, <4>2, <5>1 DEF Holds, Keys
        <5>3. QED
          BY <1>16, <5>2
      <4>3. QED
        BY <1>8, <4>1, <4>2
    <3>2. ASSUME NEW k \in Keys, holder'[k] = w
          PROVE  \E u \in Taken(tx'[w]) : k = LockKey[u]
      BY <1>2, <1>8, <1>16, <3>2 DEF Holds
    <3>3. QED
      BY <1>12, <3>1, <3>2 DEF Holds, Keys
  <2>3. QED
    BY <2>1, <2>2
<1>18. RecordedOnce'
  <2>1. ASSUME NEW v \in Workers, InTx(v)', tx'[v].recorded
        PROVE  InTx(v) /\ tx[v].recorded /\ tx'[v].job = tx[v].job
    BY <1>3, <1>6, <1>7, <2>1 DEF InTx
  <2>2. QED
    BY <1>1, <2>1, RecordedStays DEF TxIInv
<1>19. LogsReplay' /\ IsFiniteSet(OpenTx)'
  BY <1>1, <1>6, OpenFinite DEF TxIInv, LogsReplay
<1>20. QED
  BY <1>11, <1>15, <1>17, <1>18, <1>19 DEF TxIInv

LEMMA SetProcessedStep ==
  ASSUME TxIInv, NEW w \in Workers, SetProcessed(w)
  PROVE  TxIInv'
<1> DEFINE t == tx[w]
           pc2 == IF t.job.kind \in RequestKinds THEN "changing" ELSE "locking"
<1>1. /\ t.pc = "recording" /\ t.job.id \notin processed
      /\ \A v \in Workers : ~Recording(w, v)
      /\ tx' = [tx EXCEPT ![w].recorded = TRUE, ![w].pc = pc2]
      /\ UNCHANGED <<log, processed, holder>>
  BY DEF SetProcessed
<1>2. TxTypeOK /\ Orderly(w)
  BY DEF TxIInv
<1>3. InTx(w) /\ t \in TxState
  BY <1>1, <1>2, OpenTyped
<1>4. Stage(t) /\ NothingChanged(t)
  BY <1>1, <1>2, <1>3 DEF Orderly, Progress
<1>5. /\ tx'[w] = [t EXCEPT !.recorded = TRUE, !.pc = pc2]
      /\ \A v \in Workers \ {w} : tx'[v] = tx[v]
  BY <1>1, <1>2 DEF TxTypeOK
<1>6. /\ tx'[w].job = t.job /\ tx'[w].locks = t.locks /\ tx'[w].pc = pc2
      /\ tx'[w].recorded = TRUE /\ tx'[w].todo = t.todo /\ tx'[w].rows = t.rows
  BY <1>3, <1>5 DEF TxState
<1>7. tx'[w] \in TxState
  BY <1>3, <1>5 DEF TxState
<1>8. TxTypeOK'
  <2>1. tx' \in [Workers -> {Idle} \union TxState]
    BY <1>1, <1>2, <1>7 DEF TxTypeOK
  <2>2. QED
    BY <1>1, <1>2, <2>1 DEF TxTypeOK, Keys
<1>9. InTx(w)'
  BY <1>6 DEF InTx
<1>10. Orderly(w)'
  <2>1. LockNames(t.job) # <<>>
    BY <1>3, JobSequences DEF TxState
  <2>2. NothingChanged(tx'[w])
    BY <1>4, <1>6 DEF NothingChanged
  <2>3. Stage(tx'[w])
    BY <1>1, <1>4, <1>6, <2>1 DEF Stage
  <2>4. QED
    BY <1>6, <2>2, <2>3 DEF Orderly, Stage, Progress, NothingChanged
<1>11. \A v \in Workers : Orderly(v)'
  BY <1>1, <1>5, <1>10, OrderlyStays DEF TxIInv
<1>12. \A v \in Workers : Holds(v)'
  <2>1. Taken(tx'[w]) = Taken(t)
    BY <1>6 DEF Taken
  <2>2. \A v \in Workers \ {w} : (InTx(v)' <=> InTx(v)) /\ Taken(tx'[v]) = Taken(tx[v])
    BY <1>5 DEF InTx
  <2>3. QED
    BY <1>1, <1>3, <1>9, <2>1, <2>2, HoldsStays DEF TxIInv
<1>13. RecordedOnce'
  <2>1. ASSUME NEW v \in Workers \ {w}, InTx(v)', tx'[v].recorded
        PROVE  /\ InTx(v) /\ tx[v].recorded /\ tx'[v].job.id = tx[v].job.id
               /\ tx'[v].job.id # t.job.id
    BY <1>1, <1>5, <2>1 DEF Recording, InTx
  <2>2. ASSUME NEW v \in Workers, InTx(v)', tx'[v].recorded
        PROVE  tx'[v].job.id \notin processed'
    <3>1. CASE v = w
      BY <1>1, <1>6, <3>1
    <3>2. CASE v # w
      <4>1. v \in Workers \ {w}
        BY <3>2
      <4>2. InTx(v) /\ tx[v].recorded /\ tx'[v].job.id = tx[v].job.id
        BY <2>1, <2>2, <4>1
      <4>3. tx[v].job.id \notin processed
        BY <4>2 DEF TxIInv, RecordedOnce
      <4>4. QED
        BY <1>1, <4>2, <4>3
    <3>3. QED
      BY <3>1, <3>2
  <2>3. ASSUME NEW v \in Workers, NEW u \in Workers, InTx(v)', InTx(u)',
               tx'[v].recorded, tx'[u].recorded, tx'[v].job.id = tx'[u].job.id
        PROVE  v = u
    <3>1. CASE v = w \/ u = w
      BY <1>6, <2>1, <2>3, <3>1
    <3>2. CASE v # w /\ u # w
      BY <2>1, <2>3, <3>2 DEF TxIInv, RecordedOnce
    <3>3. QED
      BY <3>1, <3>2
  <2>4. QED
    BY <2>2, <2>3 DEF RecordedOnce
<1>14. LogsReplay' /\ IsFiniteSet(OpenTx)'
  BY <1>1, <1>5, OpenFinite DEF TxIInv, LogsReplay
<1>15. QED
  BY <1>8, <1>11, <1>12, <1>13, <1>14 DEF TxIInv

----------------------------------------------------------------------------
(* Changing accounts.                                                      *)

\* What the rows of a transaction add to the log of each user.
LEMMA RowsOfOne ==
  ASSUME TxTypeOK, NEW row \in TxRow, NEW u \in Users
  PROVE  /\ log[u] \in Seq(AccountEvent) /\ log[u] \o <<>> = log[u]
         /\ OneRow(row)[u] = (IF u = row.user THEN <<row.event>> ELSE <<>>)
         /\ OneRow(row) \in [Users -> Seq(AccountEvent)]
         /\ row.user \in Users /\ row.event \in AccountEvent
         /\ log[u] \o <<row.event>> = Append(log[u], row.event)
<1>1. log[u] \in Seq(AccountEvent)
  BY DEF TxTypeOK
<1>2. row.user \in Users /\ row.event \in AccountEvent
  BY DEF TxRow
<1>3. log[u] \o <<>> = log[u]
  BY <1>1, ConcatEmptySeq
<1>4. log[u] \o <<row.event>> = Append(log[u], row.event)
  BY <1>1, <1>2, AppendIsConcat
<1> DEFINE one == <<row.event>>
<1>5. one \in Seq(AccountEvent) /\ <<>> \in Seq(AccountEvent)
  BY <1>2
<1>6. OneRow(row) = [[x \in Users |-> <<>>] EXCEPT ![row.user] = one]
  BY DEF OneRow, NoRows
<1>7. /\ OneRow(row)[u] = (IF u = row.user THEN one ELSE <<>>)
      /\ OneRow(row) \in [Users -> Seq(AccountEvent)]
  <2> HIDE DEF one
  <2>1. QED
    BY <1>2, <1>5, <1>6
<1>8. QED
  BY <1>1, <1>2, <1>3, <1>4, <1>7

\* The first and the second row of a job.
LEMMA RowsOfJob ==
  ASSUME NEW job \in Jobs
  PROVE  /\ Changes(job)[1] \in TxRow /\ Head(Changes(job)) = Changes(job)[1]
         /\ Changes(job)[1].user \in Range(LockNames(job))
         /\ job.kind # "received" => Tail(Changes(job)) = <<>>
         /\ job.kind = "received" =>
              /\ Changes(job)[2] \in TxRow
              /\ Changes(job)[2].user \in Range(LockNames(job))
              /\ Tail(Changes(job)) # <<>>
              /\ Head(Tail(Changes(job))) = Changes(job)[2]
              /\ Tail(Tail(Changes(job))) = <<>>
<1>1. job.user \in Users /\ job.owner \in Users
  BY JobTyped
<1>2. CASE job.kind # "received"
  <2>1. PICK t \in AccountEventTypes : Changes(job) = <<Row(job.user, Event(t, job))>>
    BY <1>2, OneChange
  <2> DEFINE first == Row(job.user, Event(t, job))
  <2>2. first \in TxRow /\ Changes(job) = <<first>> /\ first.user = job.user
    BY <1>1, <2>1, EventTyped DEF Row
  <2>3. job.user \in Range(LockNames(job))
    BY <1>2, OneChange, OneElement
  <2> HIDE DEF first
  <2>4. Head(Changes(job)) = first /\ Tail(Changes(job)) = <<>> /\ Changes(job)[1] = first
    BY <2>2, OneElement
  <2>5. QED
    BY <1>2, <2>2, <2>3, <2>4
<1>3. CASE job.kind = "received"
  <2> DEFINE first == Row(job.user, Event("finish", job))
             second == Row(job.owner, Event("receive", job))
  <2>1. Changes(job) = <<first, second>>
    BY <1>3, TwoChanges
  <2>2. first \in TxRow /\ second \in TxRow /\ first.user = job.user /\ second.user = job.owner
    BY <1>1, EventTyped DEF AccountEventTypes, Row
  <2>3. job.user \in Range(LockNames(job)) /\ job.owner \in Range(LockNames(job))
    <3>1. PICK a, b \in Users : LockNames(job) = <<a, b>> /\ {a, b} = {job.user, job.owner}
      BY <1>3, TwoChanges
    <3>2. Range(<<a, b>>) = {a, b}
      BY TwoElements
    <3>3. QED
      BY <3>1, <3>2
  <2> HIDE DEF first, second
  <2>4. /\ Head(Changes(job)) = first /\ Tail(Changes(job)) = <<second>>
        /\ Changes(job)[1] = first /\ Changes(job)[2] = second
    BY <2>1, TwoElements
  <2>5. Head(<<second>>) = second /\ Tail(<<second>>) = <<>> /\ <<second>> # <<>>
    BY OneElement
  <2>6. QED
    BY <1>3, <2>2, <2>3, <2>4, <2>5
<1>4. QED
  BY <1>2, <1>3

LEMMA ChangeStep ==
  ASSUME TxIInv, NEW w \in Workers, ChangeAccountState(w)
  PROVE  TxIInv'
<1> DEFINE t == tx[w]
           row == Head(t.todo)
           seen == View(w, row.user)
           rest == Tail(t.todo)
           pc2 == IF rest = <<>> THEN "committing" ELSE t.pc
           first == Changes(t.job)[1]
           second == Changes(t.job)[2]
<1>1. /\ t.pc = "changing" /\ CanApply(Replay(seen), row.event)
      /\ UNCHANGED <<log, processed, holder>>
  BY DEF ChangeAccountState
<1>2. TxTypeOK /\ Orderly(w)
  BY DEF TxIInv
<1>3. InTx(w) /\ t \in TxState
  BY <1>1, <1>2, OpenTyped
<1>4. /\ t.job \in Jobs /\ t.rows \in [Users -> Seq(AccountEvent)] /\ t.todo \in Seq(TxRow)
      /\ Stage(t) /\ Progress(t)
  BY <1>2, <1>3 DEF Orderly, TxState
<1>5. /\ tx'[w] = [t EXCEPT !.rows[row.user] = Append(@, row.event), !.todo = rest, !.pc = pc2]
      /\ \A v \in Workers \ {w} : tx'[v] = tx[v]
      /\ DOMAIN tx' = Workers /\ tx' = [tx EXCEPT ![w] = tx'[w]]
  BY <1>2 DEF ChangeAccountState, TxTypeOK
<1>6. /\ tx'[w].job = t.job /\ tx'[w].locks = t.locks /\ tx'[w].pc = pc2
      /\ tx'[w].recorded = t.recorded /\ tx'[w].todo = rest
      /\ tx'[w].rows = [t.rows EXCEPT ![row.user] = Append(@, row.event)]
  BY <1>3, <1>5 DEF TxState
<1>7. first \in TxRow
  BY <1>4, RowsOfJob
<1>8. Progress(tx'[w]) /\ row \in TxRow /\ rest \in Seq(TxRow) /\ pc2 \in {"changing", "committing"}
  <2>1. CASE NothingChanged(t)
    <3>1. row = first /\ rest = Tail(Changes(t.job)) /\ t.rows = NoRows
      BY <1>4, <2>1, RowsOfJob DEF NothingChanged
    <3>2. first.user \in Users /\ first.event \in AccountEvent
      BY <1>7 DEF TxRow
    <3>3. tx'[w].rows = OneRow(first)
      <4>1. NoRows[first.user] = <<>> /\ Append(<<>>, first.event) = <<first.event>>
        BY <3>2 DEF NoRows
      <4>2. tx'[w].rows = [NoRows EXCEPT ![first.user] = Append(NoRows[first.user], first.event)]
        BY <1>6, <3>1
      <4>3. QED
        BY <4>1, <4>2 DEF OneRow
    <3>4. seen = log[first.user]
      <4>1. seen = log[first.user] \o NoRows[first.user]
        BY <3>1 DEF View
      <4>2. NoRows[first.user] = <<>>
        BY <3>2 DEF NoRows
      <4>3. QED
        BY <1>2, <1>7, <3>2, <4>1, <4>2, RowsOfOne
    <3>5. FirstApplies(t.job)
      BY <1>1, <3>1, <3>4 DEF FirstApplies
    <3>6. FirstChanged(tx'[w])
      BY <1>6, <3>1, <3>3, <3>5 DEF FirstChanged
    <3>7. /\ t.job.kind = "received" => pc2 = "changing"
          /\ t.job.kind # "received" => pc2 = "committing"
      BY <1>1, <1>4, <3>1, RowsOfJob
    <3>8. rest \in Seq(TxRow)
      BY <1>4, <2>1, JobSequences DEF NothingChanged
    <3>9. Progress(tx'[w])
      BY <1>6, <3>6, <3>7 DEF Progress
    <3>10. QED
      BY <1>7, <3>1, <3>7, <3>8, <3>9
  <2>2. CASE t.job.kind = "received" /\ FirstChanged(t)
    <3>1. row = second /\ rest = <<>> /\ t.rows = OneRow(first) /\ second \in TxRow
      BY <1>4, <2>2, RowsOfJob DEF FirstChanged
    <3>2. FirstApplies(t.job)
      BY <2>2 DEF FirstChanged
    <3>3. seen = log[second.user] \o OneRow(first)[second.user]
      BY <3>1 DEF View
    <3>4. SecondApplies(t.job)
      BY <1>1, <3>1, <3>3 DEF SecondApplies
    <3>5. BothChanged(tx'[w])
      BY <1>6, <3>1, <3>2, <3>4 DEF BothChanged
    <3>6. pc2 = "committing"
      BY <3>1
    <3>7. Progress(tx'[w])
      BY <1>6, <2>2, <3>5, <3>6 DEF Progress
    <3>8. <<>> \in Seq(TxRow)
      OBVIOUS
    <3>9. QED
      BY <3>1, <3>6, <3>7, <3>8
  <2>3. QED
    BY <1>1, <1>4, <2>1, <2>2 DEF Progress
<1>9. tx'[w] \in TxState
  <2>1. row.user \in Users /\ row.event \in AccountEvent
    BY <1>8 DEF TxRow
  <2>2. [t.rows EXCEPT ![row.user] = Append(@, row.event)] \in [Users -> Seq(AccountEvent)]
    BY <1>4, <2>1
  <2> HIDE DEF pc2, rest, row
  <2>3. QED
    BY <1>3, <1>5, <1>8, <2>2 DEF TxState
<1>10. TxTypeOK'
  <2>1. tx' \in [Workers -> {Idle} \union TxState]
    BY <1>2, <1>5, <1>9 DEF TxTypeOK
  <2>2. QED
    BY <1>1, <1>2, <2>1 DEF TxTypeOK, Keys
<1>11. InTx(w)'
  BY <1>6, <1>8 DEF InTx
<1>12. Orderly(w)'
  <2>1. Stage(tx'[w])
    BY <1>1, <1>4, <1>6, <1>8 DEF Stage
  <2>2. QED
    BY <1>1, <1>8, <2>1 DEF Orderly, Stage, Progress, NothingChanged, FirstChanged,
       BothChanged, FirstApplies, SecondApplies
<1>13. \A v \in Workers : Orderly(v)'
  BY <1>1, <1>5, <1>12, OrderlyStays DEF TxIInv
<1>14. \A v \in Workers : Holds(v)'
  <2>1. Taken(tx'[w]) = Taken(t)
    BY <1>6 DEF Taken
  <2>2. \A v \in Workers \ {w} : (InTx(v)' <=> InTx(v)) /\ Taken(tx'[v]) = Taken(tx[v])
    BY <1>5 DEF InTx
  <2>3. QED
    BY <1>1, <1>3, <1>11, <2>1, <2>2, HoldsStays DEF TxIInv
<1>15. RecordedOnce'
  <2>1. ASSUME NEW v \in Workers, InTx(v)', tx'[v].recorded
        PROVE  InTx(v) /\ tx[v].recorded /\ tx'[v].job = tx[v].job
    BY <1>3, <1>5, <1>6, <2>1 DEF InTx
  <2>2. QED
    BY <1>1, <2>1, RecordedStays DEF TxIInv
<1>16. LogsReplay' /\ IsFiniteSet(OpenTx)'
  BY <1>1, <1>5, OpenFinite DEF TxIInv, LogsReplay
<1>17. QED
  BY <1>10, <1>13, <1>14, <1>15, <1>16 DEF TxIInv

----------------------------------------------------------------------------
(* The end of a transaction.                                               *)

\* It releases its locks, and the others keep theirs.
LEMMA EndReleases ==
  ASSUME TxIInv, NEW w \in Workers, End(w)
  PROVE  /\ tx'[w] = Idle /\ ~InTx(w)'
         /\ \A v \in Workers \ {w} : tx'[v] = tx[v] /\ (InTx(v)' <=> InTx(v))
         /\ tx' \in [Workers -> {Idle} \union TxState]
         /\ holder' \in [Keys -> Workers \union {NoWorker}]
         /\ \A v \in Workers : Holds(v)'
         /\ IsFiniteSet(OpenTx)'
<1>1. TxTypeOK
  BY DEF TxIInv
<1>2. tx'[w] = Idle /\ \A v \in Workers \ {w} : tx'[v] = tx[v]
  BY <1>1 DEF End, TxTypeOK
<1>3. ~InTx(w)' /\ \A v \in Workers \ {w} : InTx(v)' <=> InTx(v)
  BY <1>2 DEF InTx, Idle
<1>4. tx' \in [Workers -> {Idle} \union TxState]
  BY <1>1 DEF End, TxTypeOK
<1>5. holder' = [k \in Keys |-> IF holder[k] = w THEN NoWorker ELSE holder[k]]
  BY <1>1 DEF End, TxTypeOK
<1>6. holder' \in [Keys -> Workers \union {NoWorker}]
  BY <1>1, <1>5 DEF TxTypeOK
<1>7. Holds(w)'
  <2>1. \A k \in Keys : holder'[k] # w
    BY <1>5, NoWorkerAssumption
  <2>2. QED
    BY <1>3, <2>1 DEF Holds, Keys
<1>8. ASSUME NEW v \in Workers \ {w} PROVE Holds(v)'
  <2>1. tx'[v] = tx[v] /\ Holds(v)
    BY <1>2 DEF TxIInv
  <2>2. \A k \in Keys : holder'[k] = v <=> holder[k] = v
    BY <1>5, NoWorkerAssumption
  <2>3. ASSUME InTx(v), NEW u \in Taken(tx[v]) PROVE holder'[LockKey[u]] = v
    <3>1. holder[LockKey[u]] = v
      BY <2>1, <2>3 DEF Holds
    <3>2. TxTypeOK /\ tx[v] \in TxState /\ Stage(tx[v])
      BY <2>3, OpenTyped DEF TxIInv, Orderly
    <3>3. u \in Users
      BY <3>2, TakenOf, JobSequences DEF TxState, Stage
    <3>4. LockKey[u] \in Keys
      BY <3>3 DEF Keys
    <3>5. QED
      BY <2>2, <3>1, <3>4
  <2>4. ASSUME NEW k \in Keys, holder'[k] = v
        PROVE  InTx(v) /\ \E u \in Taken(tx[v]) : k = LockKey[u]
    BY <2>1, <2>2, <2>4 DEF Holds
  <2>5. QED
    BY <2>1, <2>3, <2>4 DEF Holds, InTx, Keys
<1>9. IsFiniteSet(OpenTx)'
  BY <1>2, OpenFinite DEF TxIInv
<1>10. QED
  BY <1>2, <1>3, <1>4, <1>6, <1>7, <1>8, <1>9

LEMMA EndStep ==
  ASSUME TxIInv, NEW w \in Workers, End(w), UNCHANGED <<log, processed>>
  PROVE  TxIInv'
<1>1. TxTypeOK'
  BY EndReleases DEF TxIInv, TxTypeOK, Keys
<1>2. Orderly(w)'
  BY EndReleases DEF Orderly
<1>3. \A v \in Workers : Orderly(v)'
  BY <1>2, EndReleases, OrderlyStays DEF TxIInv
<1>4. RecordedOnce'
  <2>1. ASSUME NEW v \in Workers, InTx(v)', tx'[v].recorded
        PROVE  InTx(v) /\ tx[v].recorded /\ tx'[v].job = tx[v].job
    BY <2>1, EndReleases
  <2>2. QED
    BY <2>1, RecordedStays DEF TxIInv
<1>5. LogsReplay'
  BY DEF TxIInv, LogsReplay
<1>6. QED
  BY <1>1, <1>3, <1>4, <1>5, EndReleases DEF TxIInv

LEMMA ConcatAppend ==
  ASSUME NEW E, NEW s \in Seq(E), NEW t \in Seq(E), NEW e \in E
  PROVE  s \o Append(t, e) = Append(s \o t, e)
<1> DEFINE one == <<e>>
<1>1. one \in Seq(E)
  OBVIOUS
<1>2. s \o t \in Seq(E)
  BY ConcatProperties
<1>3. Append(t, e) = t \o one
  BY AppendIsConcat
<1>4. Append(s \o t, e) = (s \o t) \o one
  BY <1>2, AppendIsConcat
<1>5. (s \o t) \o one = s \o (t \o one)
  <2> HIDE DEF one
  <2>1. QED
    BY <1>1, ConcatAssociative
<1>6. QED
  BY <1>3, <1>4, <1>5

\* What a transaction that is about to commit has done to one account.
LEMMA CommittedRows ==
  ASSUME TxIInv, NEW w \in Workers, tx[w].pc = "committing", NEW u \in Users
  PROVE  LET job == tx[w].job
             first == Changes(job)[1]
             second == Changes(job)[2]
             once == IF u = first.user THEN Append(log[u], first.event) ELSE log[u]
             logged == IF job.kind = "received" /\ u = second.user
                       THEN Append(once, second.event) ELSE once
         IN  /\ View(w, u) = logged
             /\ once \in Seq(AccountEvent)
             /\ logged \in Seq(AccountEvent)
             /\ Replays(once)
             /\ Replays(logged)
             /\ logged # log[u] => u \in Range(LockNames(job))
             /\ u = first.user => CanApply(Replay(log[u]), first.event)
             /\ job.kind = "received" /\ u = second.user =>
                  CanApply(Replay(once), second.event)
<1> DEFINE t == tx[w]
           job == tx[w].job
           first == Changes(job)[1]
           second == Changes(job)[2]
           once == IF u = first.user THEN Append(log[u], first.event) ELSE log[u]
           logged == IF job.kind = "received" /\ u = second.user
                     THEN Append(once, second.event) ELSE once
<1>1. TxTypeOK /\ InTx(w) /\ t \in TxState
  BY OpenTyped DEF TxIInv
<1>2. /\ job \in Jobs /\ Stage(t) /\ Progress(t) /\ t.pc = "committing"
      /\ log[u] \in Seq(AccountEvent) /\ Replays(log[u])
  BY <1>1 DEF TxIInv, Orderly, TxState, LogsReplay, TxTypeOK
<1>3. first \in TxRow /\ first.user \in Users /\ first.event \in AccountEvent
      /\ first.user \in Range(LockNames(job))
  BY <1>2, RowsOfJob DEF TxRow
<1>4. job.kind = "received" => /\ second \in TxRow /\ second.user \in Users
                               /\ second.event \in AccountEvent
                               /\ second.user \in Range(LockNames(job))
  BY <1>2, RowsOfJob DEF TxRow
<1>5. FirstApplies(job)
  BY <1>2 DEF Progress, FirstChanged, BothChanged
<1>6. u = first.user => CanApply(Replay(log[u]), first.event)
  BY <1>5 DEF FirstApplies
<1>7. log[u] \o OneRow(first)[u] = once
  BY <1>1, <1>3, RowsOfOne
<1>8. once \in Seq(AccountEvent) /\ Replays(once)
  <2>1. CASE u = first.user
    BY <1>2, <1>3, <1>6, <2>1, ReplayAppend, AppendProperties
  <2>2. CASE u # first.user
    BY <1>2, <2>2
  <2>3. QED
    BY <2>1, <2>2
<1>9. job.kind = "received" /\ u = second.user => CanApply(Replay(once), second.event)
  <2> HAVE job.kind = "received" /\ u = second.user
  <2>1. SecondApplies(job)
    BY <1>2 DEF Progress, BothChanged
  <2>2. CanApply(Replay(log[u] \o OneRow(first)[u]), second.event)
    BY <2>1 DEF SecondApplies
  <2> HIDE DEF once
  <2>3. QED
    BY <1>7, <2>2
<1>10. logged \in Seq(AccountEvent) /\ Replays(logged)
  <2> HIDE DEF once
  <2>1. CASE job.kind = "received" /\ u = second.user
    BY <1>4, <1>8, <1>9, <2>1, ReplayAppend, AppendProperties
  <2>2. CASE ~(job.kind = "received" /\ u = second.user)
    BY <1>8, <2>2
  <2>3. QED
    BY <2>1, <2>2
<1>11. View(w, u) = logged
  <2>1. CASE job.kind # "received"
    <3>1. t.rows = OneRow(first)
      BY <1>2, <2>1 DEF Progress, FirstChanged
    <3>2. QED
      BY <1>7, <2>1, <3>1 DEF View
  <2>2. CASE job.kind = "received"
    <3>1. t.rows = [OneRow(first) EXCEPT ![second.user] = Append(@, second.event)]
      BY <1>2, <2>2 DEF Progress, BothChanged
    <3>2. OneRow(first) \in [Users -> Seq(AccountEvent)]
      BY <1>1, <1>3, RowsOfOne
    <3>3. CASE u = second.user
      <4>1. t.rows[u] = Append(OneRow(first)[u], second.event)
        BY <3>1, <3>2, <3>3
      <4>2. OneRow(first)[u] \in Seq(AccountEvent) /\ second.event \in AccountEvent
        BY <1>4, <2>2, <3>2
      <4>3. log[u] \o Append(OneRow(first)[u], second.event)
              = Append(log[u] \o OneRow(first)[u], second.event)
        <5> DEFINE rows == OneRow(first)[u]
                   ev == second.event
                   old == log[u]
        <5>1. rows \in Seq(AccountEvent) /\ ev \in AccountEvent /\ old \in Seq(AccountEvent)
          BY <1>2, <4>2
        <5> HIDE DEF rows, ev, old
        <5>2. old \o Append(rows, ev) = Append(old \o rows, ev)
          BY <5>1, ConcatAppend
        <5>3. QED
          BY <5>2 DEF rows, ev, old
      <4>4. View(w, u) = Append(once, second.event)
        BY <1>7, <4>1, <4>3 DEF View
      <4>5. QED
        BY <2>2, <3>3, <4>4
    <3>4. CASE u # second.user
      <4>1. t.rows[u] = OneRow(first)[u]
        BY <3>1, <3>2, <3>4
      <4>2. QED
        BY <1>7, <3>4, <4>1 DEF View
    <3>5. QED
      BY <3>3, <3>4
  <2>3. QED
    BY <2>1, <2>2
<1>12. logged # log[u] => u \in Range(LockNames(job))
  BY <1>3, <1>4
<1>13. QED
  BY <1>6, <1>8, <1>9, <1>10, <1>11, <1>12

\* While its rows are not committed, the accounts they change are locked: no
\* other transaction commits to the logs that a transaction has replayed.
LEMMA LockedLogsStay ==
  ASSUME TxIInv, NEW w \in Workers, Commit(w), NEW v \in Workers \ {w}, InTx(v),
         tx[v].pc \in {"changing", "committing"}, NEW u \in Range(LockNames(tx[v].job))
  PROVE  log'[u] = log[u]
<1>1. TxTypeOK /\ Holds(v) /\ Holds(w) /\ tx[w].pc = "committing"
  BY DEF TxIInv, Commit
<1>2. InTx(w) /\ tx[w] \in TxState /\ tx[v] \in TxState
  BY <1>1, OpenTyped
<1>3. Stage(tx[w]) /\ Stage(tx[v]) /\ tx[w].job \in Jobs /\ tx[v].job \in Jobs
  BY <1>2 DEF TxIInv, Orderly, TxState
<1>4. /\ Taken(tx[w]) = Range(LockNames(tx[w].job))
      /\ Taken(tx[v]) = Range(LockNames(tx[v].job))
  BY <1>1, <1>3, TakenOf DEF Stage
<1>5. u \in Users /\ holder[LockKey[u]] = v
  BY <1>1, <1>3, <1>4, JobSequences DEF Holds
<1>6. u \notin Range(LockNames(tx[w].job))
  BY <1>1, <1>2, <1>4, <1>5 DEF Holds
<1>7. View(w, u) = log[u]
  BY <1>1, <1>5, <1>6, CommittedRows
<1>8. QED
  BY <1>5, <1>7 DEF Commit

LEMMA CommitStep ==
  ASSUME TxIInv, NEW w \in Workers, Commit(w)
  PROVE  TxIInv'
<1>1. /\ tx[w].pc = "committing" /\ End(w)
      /\ log' = [u \in Users |-> View(w, u)]
      /\ processed' = processed \union {tx[w].job.id}
  BY DEF Commit
<1>2. TxTypeOK /\ InTx(w) /\ tx[w] \in TxState
  BY <1>1, OpenTyped DEF TxIInv
<1>3. Stage(tx[w]) /\ tx[w].job \in Jobs /\ tx[w].recorded
  BY <1>1, <1>2 DEF TxIInv, Orderly, TxState, Stage
<1>4. \A u \in Users : View(w, u) \in Seq(AccountEvent) /\ Replays(View(w, u))
  BY <1>1, CommittedRows
<1>5. TxTypeOK'
  <2>1. processed' \subseteq Requests \union EventUIDs
    BY <1>1, <1>2, <1>3, JobTyped DEF TxTypeOK
  <2>2. log' \in [Users -> Seq(AccountEvent)]
    BY <1>1, <1>4
  <2>3. QED
    BY <1>1, <2>1, <2>2, EndReleases DEF TxTypeOK, Keys
<1>6. LogsReplay'
  BY <1>1, <1>4 DEF LogsReplay
<1>7. ASSUME NEW v \in Workers PROVE Orderly(v)'
  <2>1. CASE v = w \/ ~InTx(v)
    BY <1>1, <2>1, EndReleases DEF Orderly
  <2>2. CASE v # w /\ InTx(v)
    <3> DEFINE t == tx[v]
               job == tx[v].job
               first == Changes(job)[1]
               second == Changes(job)[2]
    <3>1. tx'[v] = t /\ InTx(v)' /\ t \in TxState /\ Stage(t) /\ Progress(t) /\ job \in Jobs
      BY <1>1, <1>2, <2>2, EndReleases, OpenTyped DEF TxIInv, Orderly, TxState
    <3>2. /\ first.user \in Range(LockNames(job))
          /\ job.kind = "received" => second.user \in Range(LockNames(job))
      BY <3>1, RowsOfJob
    <3>3. t.pc \in {"changing", "committing"} =>
            \A u \in Range(LockNames(job)) : log'[u] = log[u]
      BY <2>2, LockedLogsStay
    <3>4. t.pc \in {"changing", "committing"} /\ FirstChanged(t) => FirstChanged(t)'
      BY <3>1, <3>2, <3>3 DEF FirstChanged, FirstApplies
    <3>5. t.pc = "committing" /\ job.kind = "received" /\ BothChanged(t) => BothChanged(t)'
      BY <3>1, <3>2, <3>3 DEF BothChanged, FirstApplies, SecondApplies
    <3>6. NothingChanged(t) => NothingChanged(t)'
      BY <3>1 DEF NothingChanged
    <3>7. Progress(tx[v])'
      BY <3>1, <3>4, <3>5, <3>6 DEF Progress
    <3>8. Stage(tx[v])'
      BY <3>1 DEF Stage
    <3>9. QED
      BY <3>7, <3>8 DEF Orderly
  <2>3. QED
    BY <2>1, <2>2
<1>8. RecordedOnce'
  <2>1. ASSUME NEW v \in Workers, InTx(v)', tx'[v].recorded
        PROVE  v # w /\ InTx(v) /\ tx[v].recorded /\ tx'[v].job = tx[v].job
    BY <1>1, <2>1, EndReleases
  <2>2. ASSUME NEW v \in Workers, InTx(v)', tx'[v].recorded
        PROVE  tx'[v].job.id \notin processed'
    <3>1. tx[v].job.id \notin processed
      BY <2>1, <2>2 DEF TxIInv, RecordedOnce
    <3>2. tx[v].job.id # tx[w].job.id
      BY <1>2, <1>3, <2>1, <2>2 DEF TxIInv, RecordedOnce
    <3>3. QED
      BY <1>1, <2>1, <2>2, <3>1, <3>2
  <2>3. ASSUME NEW v \in Workers, NEW u \in Workers, InTx(v)', InTx(u)',
               tx'[v].recorded, tx'[u].recorded, tx'[v].job.id = tx'[u].job.id
        PROVE  v = u
    BY <2>1, <2>3 DEF TxIInv, RecordedOnce
  <2>4. QED
    BY <2>2, <2>3 DEF RecordedOnce
<1>9. QED
  BY <1>1, <1>5, <1>6, <1>7, <1>8, EndReleases DEF TxIInv

LEMMA TxNext == TxIInv /\ [Next]_vars => TxIInv'
<1> SUFFICES ASSUME TxIInv, [Next]_vars PROVE TxIInv'
  OBVIOUS
<1>1. CASE UNCHANGED vars
  <2>1. UNCHANGED log /\ UNCHANGED processed /\ UNCHANGED tx /\ UNCHANGED holder
    BY <1>1 DEF vars
  <2>2. TxTypeOK' /\ RecordedOnce' /\ LogsReplay' /\ IsFiniteSet(OpenTx)'
    BY <2>1 DEF TxIInv, TxTypeOK, RecordedOnce, LogsReplay, OpenTx, InTx, Keys
  <2>3. ASSUME NEW v \in Workers PROVE Orderly(v)' /\ Holds(v)'
    <3>1. Orderly(v)'
      BY <2>1, OrderlyStays DEF TxIInv
    <3>2. InTx(v)' <=> InTx(v)
      BY <2>1 DEF InTx
    <3>3. QED
      BY <2>1, <3>1, <3>2, HoldsStays DEF TxIInv
  <2>4. QED
    BY <2>2, <2>3 DEF TxIInv
<1>2. ASSUME NEW w \in Workers, Begin(w) PROVE TxIInv'
  BY <1>2, BeginStep
<1>3. ASSUME NEW w \in Workers, Lock(w) PROVE TxIInv'
  BY <1>3, LockStep
<1>4. ASSUME NEW w \in Workers, SetProcessed(w) PROVE TxIInv'
  BY <1>4, SetProcessedStep
<1>5. ASSUME NEW w \in Workers, AlreadyProcessed(w) PROVE TxIInv'
  BY <1>5, EndStep DEF AlreadyProcessed
<1>6. ASSUME NEW w \in Workers, ChangeAccountState(w) PROVE TxIInv'
  BY <1>6, ChangeStep
<1>7. ASSUME NEW w \in Workers, ChangeFails(w) PROVE TxIInv'
  BY <1>7, EndStep DEF ChangeFails
<1>8. ASSUME NEW w \in Workers, Commit(w) PROVE TxIInv'
  BY <1>8, CommitStep
<1>9. ASSUME NEW w \in Workers, Abort(w) PROVE TxIInv'
  BY <1>9, EndStep DEF Abort
<1>10. QED
  BY <1>1, <1>2, <1>3, <1>4, <1>5, <1>6, <1>7, <1>8, <1>9 DEF Next

LEMMA TxIInvForever == Spec => []TxIInv
BY TxInit, TxNext, PTL DEF Spec

\* Workers, transactions, logs and locks always have their types.
THEOREM BillingTxTypeCorrect == Spec => []TxTypeOK
<1>1. TxIInv => TxTypeOK
  BY DEF TxIInv
<1>2. QED
  BY <1>1, TxIInvForever, PTL

\* Whatever transactions interleave, fail or are repeated, every committed log
\* of every user replays: LoadEvents never fails on it.
THEOREM BillingLogsReplay == Spec => []LogsReplay
<1>1. TxIInv => LogsReplay
  BY DEF TxIInv
<1>2. QED
  BY <1>1, TxIInvForever, PTL

----------------------------------------------------------------------------
(* No cycle of waiting transactions.                                       *)

\* Names that share a lock key are neighbours in the order of the names; so it
\* is when no two names collide.
KeysFollowNames ==
  \A u, x, v \in Users :
    NameRank[u] <= NameRank[x] /\ NameRank[x] <= NameRank[v] /\ LockKey[u] = LockKey[v]
      => LockKey[x] = LockKey[u]

\* A settlement that holds the lock of its first name and wants the second.
BetweenLocks(w) ==
  /\ tx[w].pc = "locking" /\ tx[w].job.kind = "received"
  /\ tx[w].locks = Tail(LockNames(tx[w].job))
FirstName(w) == LockNames(tx[w].job)[1]
SecondName(w) == Head(tx[w].locks)

LEMMA GreatestNatural ==
  ASSUME NEW T, T \subseteq Nat, T # {}, IsFiniteSet(T)
  PROVE  \E n \in T : \A m \in T : m <= n
<1> DEFINE Above(n) == {m \in T : m > n}
           D == {Above(n) : n \in T}
<1>1. D \subseteq FiniteSubsetsOf(T) /\ D # {}
  <2>1. ASSUME NEW n \in T PROVE Above(n) \in FiniteSubsetsOf(T)
    <3>1. Above(n) \subseteq T
      OBVIOUS
    <3>2. IsFiniteSet(Above(n))
      BY <3>1, FS_Subset
    <3>3. QED
      BY <3>1, <3>2 DEF FiniteSubsetsOf
  <2>2. QED
    BY <2>1
<1>2. PICK d \in D : \A e \in D : ~(<<e, d>> \in StrictSubsetOrdering(T))
  BY <1>1, FS_StrictSubsetOrderingWellFounded, WFMin, Zenon
<1>3. PICK n \in T : d = Above(n)
  OBVIOUS
<1>4. ASSUME NEW m \in T, ~(m <= n) PROVE FALSE
  <2>1. /\ Above(m) \subseteq Above(n) /\ m \in Above(n) /\ m \notin Above(m)
        /\ Above(m) \subseteq T /\ Above(n) \subseteq T
    <3>1. m \in Nat /\ n \in Nat /\ m > n /\ ~(m > m) /\ \A x \in T : x \in Nat
      BY <1>4
    <3>2. \A x \in T : x > m => x > n
      BY <3>1
    <3>3. Above(m) \subseteq Above(n)
      BY <3>2
    <3>4. m \in Above(n) /\ m \notin Above(m)
      BY <3>1
    <3>5. QED
      BY <3>3, <3>4
  <2>2. <<Above(m), Above(n)>> \in StrictSubsetOrdering(T)
    BY <2>1 DEF StrictSubsetOrdering
  <2>3. QED
    BY <1>2, <1>3, <2>2
<1>5. QED
  BY <1>4

\* Among transactions that all wait, one that holds something is a settlement
\* between its two locks: a request locks one name before it records its id,
\* and an event records its UID before it locks.
LEMMA WaitingHolder ==
  ASSUME TxIInv, NEW v \in Workers, InTx(v), tx[v].pc \in {"locking", "recording"},
         Taken(tx[v]) # {}, ~(tx[v].pc = "recording" /\ tx[v].job.kind \in RequestKinds)
  PROVE  /\ BetweenLocks(v) /\ Taken(tx[v]) = {FirstName(v)}
         /\ FirstName(v) \in Users /\ SecondName(v) \in Users
         /\ NameRank[FirstName(v)] <= NameRank[SecondName(v)]
<1> DEFINE t == tx[v]
           job == tx[v].job
<1>1. t \in TxState /\ job \in Jobs /\ Stage(t)
  BY OpenTyped DEF TxIInv, Orderly, TxState
<1>2. t.locks # LockNames(job)
  BY <1>1, TakenOf
<1>3. t.pc = "locking"
  BY <1>1, <1>2 DEF Stage
<1>4. t.locks # <<>> /\ t.locks = Tail(LockNames(job))
  BY <1>1, <1>2, <1>3 DEF Stage
<1>5. job.kind = "received"
  <2>1. job.kind # "received" => Tail(LockNames(job)) = <<>>
    BY <1>1, OneChange, OneElement
  <2>2. QED
    BY <1>4, <2>1
<1>6. PICK a, b \in Users : LockNames(job) = <<a, b>> /\ NameRank[a] <= NameRank[b]
  BY <1>1, <1>5, TwoChanges
<1>7. t.locks = <<b>> /\ Head(<<b>>) = b /\ <<a, b>>[1] = a /\ <<b>> # <<a, b>> /\ <<b>> # <<>>
  BY <1>4, <1>6, TwoElements, OneElement
<1>8. Taken(t) = {a} /\ FirstName(v) = a /\ SecondName(v) = b
  BY <1>6, <1>7 DEF Taken, FirstName, SecondName
<1>9. QED
  BY <1>3, <1>4, <1>5, <1>6, <1>8 DEF BetweenLocks

\* Who waits for a transaction that waits too.
LEMMA WaitsForWaiting ==
  ASSUME TxIInv, NEW w \in Workers, NEW v \in Workers, NEW x \in Workers,
         WaitsFor(w, v), WaitsFor(v, x), tx[x].pc \in {"locking", "recording"}
  PROVE  IF tx[w].pc = "locking"
         THEN /\ BetweenLocks(v) /\ v # w
              /\ holder[LockKey[Head(tx[w].locks)]] = v
              /\ LockKey[Head(tx[w].locks)] = LockKey[FirstName(v)]
              /\ FirstName(v) \in Users /\ SecondName(v) \in Users
              /\ NameRank[FirstName(v)] <= NameRank[SecondName(v)]
         ELSE tx[v].pc = "locking"
<1>1. /\ TxTypeOK /\ tx[w].pc \in {"locking", "recording"}
      /\ tx[v].pc \in {"locking", "recording"}
  BY DEF TxIInv, WaitsFor
<1>2. InTx(w) /\ InTx(v) /\ tx[w] \in TxState /\ tx[v] \in TxState
  BY <1>1, OpenTyped
<1>3. /\ Stage(tx[w]) /\ Stage(tx[v]) /\ Holds(w) /\ Holds(v)
      /\ tx[w].job \in Jobs /\ tx[v].job \in Jobs
  BY <1>2 DEF TxIInv, Orderly, TxState
<1>4. ASSUME NEW y \in Workers, tx[y].pc = "recording", NEW z \in Workers, Recording(y, z),
             InTx(y), Stage(tx[y]), Stage(tx[z]), tx[y].job \in Jobs, tx[z].job \in Jobs
      PROVE  /\ tx[z].pc # "recording"
             /\ tx[y].job.kind \in RequestKinds => tx[z].pc # "locking"
  <2>1. tx[z].recorded /\ tx[z].job.id = tx[y].job.id
    BY <1>4 DEF Recording
  <2>2. tx[z].job.kind \in RequestKinds <=> tx[y].job.kind \in RequestKinds
    BY <1>4, <2>1, JobsAssumption
  <2>3. QED
    BY <1>4, <2>1, <2>2 DEF Stage
<1>5. CASE tx[w].pc = "recording"
  <2>1. Recording(w, v)
    BY <1>5 DEF WaitsFor
  <2>2. QED
    BY <1>1, <1>2, <1>3, <1>4, <1>5, <2>1
<1>6. CASE tx[w].pc = "locking"
  <2> DEFINE key == LockKey[Head(tx[w].locks)]
  <2>1. holder[key] = v /\ v # w
    BY <1>6 DEF WaitsFor
  <2>2. ~(tx[v].pc = "recording" /\ tx[v].job.kind \in RequestKinds)
    <3> SUFFICES ASSUME tx[v].pc = "recording", tx[v].job.kind \in RequestKinds PROVE FALSE
      OBVIOUS
    <3>1. Recording(v, x) /\ InTx(x)
      BY DEF WaitsFor, Recording
    <3>2. tx[x] \in TxState /\ Stage(tx[x]) /\ tx[x].job \in Jobs
      BY <1>1, <3>1, OpenTyped DEF TxIInv, Orderly, TxState
    <3>3. tx[x].recorded /\ tx[x].pc \notin {"recording", "locking"}
      BY <1>2, <1>3, <1>4, <3>1, <3>2 DEF Recording
    <3>4. QED
      BY <3>3
  <2>3. key \in Keys
    <3>1. Head(tx[w].locks) \in Users
      <4>1. tx[w].locks # <<>> /\ tx[w].locks \in Seq(Users)
        BY <1>2, <1>3, <1>6 DEF Stage, TxState
      <4>2. QED
        BY <4>1
    <3>2. QED
      BY <3>1 DEF Keys
  <2>4. PICK u \in Taken(tx[v]) : key = LockKey[u]
    BY <1>3, <2>1, <2>3 DEF Holds
  <2>5. /\ BetweenLocks(v) /\ Taken(tx[v]) = {FirstName(v)}
        /\ FirstName(v) \in Users /\ SecondName(v) \in Users
        /\ NameRank[FirstName(v)] <= NameRank[SecondName(v)]
    BY <1>1, <1>2, <2>2, <2>4, WaitingHolder
  <2>6. QED
    BY <1>6, <2>1, <2>4, <2>5
<1>7. QED
  BY <1>1, <1>5, <1>6

\* Transactions never wait for each other in a cycle, as long as names that
\* collide are neighbours: every set of transactions has one that waits for none
\* of them.
THEOREM BillingNoWaitCycle == KeysFollowNames => (Spec => []NoWaitCycle)
<1> SUFFICES ASSUME KeysFollowNames PROVE Spec => []NoWaitCycle
  OBVIOUS
<1>1. TxIInv => NoWaitCycle
  <2> SUFFICES ASSUME TxIInv PROVE NoWaitCycle
    OBVIOUS
  <2> SUFFICES ASSUME NEW S \in (SUBSET Workers) \ {{}},
                      \A w \in S : \E v \in S : WaitsFor(w, v)
               PROVE  FALSE
    BY DEF NoWaitCycle
  <2> DEFINE D == {w \in S : BetweenLocks(w)}
             R == {NameRank[FirstName(w)] : w \in D}
             N(w) == LockKey[Head(tx[w].locks)]
  <2>1. ASSUME NEW w \in S PROVE tx[w].pc \in {"locking", "recording"} /\ InTx(w)
    <3>1. tx[w].pc \in {"locking", "recording"}
      BY DEF WaitsFor
    <3>2. QED
      BY <3>1, OpenTyped DEF TxIInv
  <2>2. ASSUME NEW w \in S
        PROVE  \E v \in S :
                 IF tx[w].pc = "locking"
                 THEN /\ BetweenLocks(v) /\ v # w
                      /\ holder[LockKey[Head(tx[w].locks)]] = v
                      /\ LockKey[Head(tx[w].locks)] = LockKey[FirstName(v)]
                      /\ FirstName(v) \in Users /\ SecondName(v) \in Users
                      /\ NameRank[FirstName(v)] <= NameRank[SecondName(v)]
                 ELSE tx[v].pc = "locking"
    <3>1. PICK v \in S : WaitsFor(w, v)
      OBVIOUS
    <3>2. PICK x \in S : WaitsFor(v, x)
      OBVIOUS
    <3>3. tx[x].pc \in {"locking", "recording"}
      BY <2>1
    <3>4. QED
      BY <3>1, <3>2, <3>3, WaitsForWaiting
  <2>3. \E w \in S : tx[w].pc = "locking"
    <3>1. PICK w \in S : TRUE
      <4>1. S # {}
        OBVIOUS
      <4>2. QED
        BY <4>1
    <3>2. QED
      BY <2>2, <3>1
  <2>4. D # {}
    BY <2>2, <2>3
  <2>5. ASSUME NEW w \in D
        PROVE  \E v \in D : /\ v # w /\ holder[LockKey[SecondName(w)]] = v
                            /\ LockKey[SecondName(w)] = LockKey[FirstName(v)]
                            /\ FirstName(v) \in Users /\ SecondName(v) \in Users
    BY <2>2 DEF BetweenLocks, SecondName
  <2>6. ASSUME NEW w \in D
        PROVE  /\ FirstName(w) \in Users /\ SecondName(w) \in Users
               /\ NameRank[FirstName(w)] <= NameRank[SecondName(w)]
               /\ holder[LockKey[FirstName(w)]] = w
    <3>1. w \in Workers /\ tx[w].pc = "locking" /\ tx[w].job.kind = "received" /\ InTx(w)
      BY <2>1 DEF BetweenLocks
    <3>2. Stage(tx[w]) /\ Holds(w) /\ tx[w].job \in Jobs
      BY <3>1, OpenTyped DEF TxIInv, Orderly, TxState
    <3>3. tx[w].locks # LockNames(tx[w].job) /\ tx[w].locks # <<>>
      <4>1. tx[w].locks # <<>> /\ tx[w].locks = Tail(LockNames(tx[w].job))
        BY <3>1, <3>2 DEF Stage, BetweenLocks
      <4>2. PICK a, b \in Users : LockNames(tx[w].job) = <<a, b>>
        BY <3>1, <3>2, TwoChanges
      <4>3. QED
        BY <4>1, <4>2, TwoElements
    <3>4. Taken(tx[w]) # {}
      BY <3>3 DEF Taken
    <3>5. Taken(tx[w]) = {FirstName(w)} /\ FirstName(w) \in Users /\ SecondName(w) \in Users
          /\ NameRank[FirstName(w)] <= NameRank[SecondName(w)]
      BY <3>1, <3>4, WaitingHolder
    <3>6. QED
      BY <3>1, <3>2, <3>5 DEF Holds
  <2>7. ASSUME NEW w \in D
        PROVE  \E v \in D : NameRank[FirstName(w)] < NameRank[FirstName(v)]
    <3>1. PICK v \in D : /\ v # w /\ holder[LockKey[SecondName(w)]] = v
                         /\ LockKey[SecondName(w)] = LockKey[FirstName(v)]
      BY <2>5
    <3> DEFINE a == FirstName(w)
               b == SecondName(w)
               c == FirstName(v)
    <3>2. /\ a \in Users /\ b \in Users /\ c \in Users
          /\ NameRank[a] <= NameRank[b] /\ holder[LockKey[a]] = w
      BY <2>6
    <3>3. LockKey[a] # LockKey[b] /\ LockKey[b] = LockKey[c]
      BY <3>1, <3>2
    <3>4. NameRank[a] \in Nat /\ NameRank[b] \in Nat /\ NameRank[c] \in Nat
      BY <3>2, NameRankAssumption
    <3> HIDE DEF a, b, c
    <3>5. ~(NameRank[c] <= NameRank[a])
      BY <3>2, <3>3 DEF KeysFollowNames
    <3>6. NameRank[a] < NameRank[c]
      BY <3>4, <3>5
    <3>7. QED
      BY <3>6 DEF a, c
  <2>8. R \subseteq Nat /\ R # {}
    BY <2>4, <2>6, NameRankAssumption
  <2>9. IsFiniteSet(R)
    <3>1. D \subseteq OpenTx
      BY <2>1 DEF OpenTx
    <3>2. IsFiniteSet(D)
      BY <3>1, FS_Subset DEF TxIInv
    <3> DEFINE rank == [w \in D |-> NameRank[FirstName(w)]]
    <3>3. rank \in Surjection(D, R)
      BY DEF Surjection
    <3> HIDE DEF D, R, rank
    <3>4. QED
      BY <3>2, <3>3, FS_Surjection
  <2>10. PICK n \in R : \A m \in R : m <= n
    <3> HIDE DEF R
    <3>1. QED
      BY <2>8, <2>9, GreatestNatural
  <2>11. PICK w \in D : n = NameRank[FirstName(w)]
    OBVIOUS
  <2>12. PICK v \in D : NameRank[FirstName(w)] < NameRank[FirstName(v)]
    BY <2>7
  <2>13. n \in Nat /\ NameRank[FirstName(v)] \in Nat /\ NameRank[FirstName(v)] <= n
    BY <2>8, <2>10
  <2>14. QED
    BY <2>11, <2>12, <2>13
<1>2. QED
  BY <1>1, TxIInvForever, PTL

----------------------------------------------------------------------------
(* A commit is one step of Billing, everything else a stutter.             *)

\* The operators of Account are the same for an account of Billing.
LEMMA AbstractAccount ==
  /\ Abstract!EmptyAccount = EmptyAccount
  /\ \A acc, l, a :
       /\ Abstract!CanCreateAccount(acc) <=> CanCreateAccount(acc)
       /\ Abstract!CreateAccount(acc) = CreateAccount(acc)
       /\ Abstract!CanTopUp(acc) <=> CanTopUp(acc)
       /\ Abstract!TopUp(acc, a) = TopUp(acc, a)
       /\ Abstract!CanBlock(acc, l, a) <=> CanBlock(acc, l, a)
       /\ Abstract!Block(acc, l, a) = Block(acc, l, a)
       /\ Abstract!CanUnblock(acc, l, a) <=> CanUnblock(acc, l, a)
       /\ Abstract!Unblock(acc, l, a) = Unblock(acc, l, a)
       /\ Abstract!CanFinish(acc, l, a) <=> CanFinish(acc, l, a)
       /\ Abstract!Finish(acc, l, a) = Finish(acc, l, a)
       /\ Abstract!CanReceive(acc) <=> CanReceive(acc)
       /\ Abstract!Receive(acc, a) = Receive(acc, a)
       /\ Abstract!Fits(acc, a)
BY DEF Abstract!EmptyAccount, EmptyAccount, Abstract!CanCreateAccount, CanCreateAccount,
       Abstract!CreateAccount, CreateAccount, Abstract!CanTopUp, CanTopUp,
       Abstract!TopUp, TopUp, Abstract!CanBlock, CanBlock, Abstract!Block, Block,
       Abstract!CanUnblock, CanUnblock, Abstract!Unblock, Unblock,
       Abstract!CanFinish, CanFinish, Abstract!Finish, Finish,
       Abstract!CanReceive, CanReceive, Abstract!Receive, Receive, Abstract!Fits,
       Abstract!Plus, Plus, Abstract!Minus, Minus, Abstract!Available, Available,
       Abstract!HasPayment, HasPayment

\* The dispatch of applyEvent.
LEMMA AppliedEvent ==
  ASSUME NEW acc, NEW ev
  PROVE  /\ ev.type = "create" => (CanApply(acc, ev) <=> CanCreateAccount(acc)) /\ Apply(acc, ev) = CreateAccount(acc)
         /\ ev.type = "topUp" => (CanApply(acc, ev) <=> CanTopUp(acc)) /\ Apply(acc, ev) = TopUp(acc, ev.amount)
         /\ ev.type = "block" =>
              /\ CanApply(acc, ev) <=> CanBlock(acc, ev.lot, ev.amount)
              /\ Apply(acc, ev) = Block(acc, ev.lot, ev.amount)
         /\ ev.type = "unblock" =>
              /\ CanApply(acc, ev) <=> CanUnblock(acc, ev.lot, ev.amount)
              /\ Apply(acc, ev) = Unblock(acc, ev.lot, ev.amount)
         /\ ev.type = "finish" =>
              /\ CanApply(acc, ev) <=> CanFinish(acc, ev.lot, ev.amount)
              /\ Apply(acc, ev) = Finish(acc, ev.lot, ev.amount)
         /\ ev.type = "receive" => (CanApply(acc, ev) <=> CanReceive(acc)) /\ Apply(acc, ev) = Receive(acc, ev.amount)
BY DEF CanApply, Apply

LEMMA AppliedEvents ==
  ASSUME NEW job, NEW acc
  PROVE  /\ CanApply(acc, Event("create", job)) <=> CanCreateAccount(acc)
         /\ Apply(acc, Event("create", job)) = CreateAccount(acc)
         /\ CanApply(acc, Event("topUp", job)) <=> CanTopUp(acc)
         /\ Apply(acc, Event("topUp", job)) = TopUp(acc, job.amount)
         /\ CanApply(acc, Event("block", job)) <=> CanBlock(acc, job.lot, job.amount)
         /\ Apply(acc, Event("block", job)) = Block(acc, job.lot, job.amount)
         /\ CanApply(acc, Event("unblock", job)) <=> CanUnblock(acc, job.lot, job.amount)
         /\ Apply(acc, Event("unblock", job)) = Unblock(acc, job.lot, job.amount)
         /\ CanApply(acc, Event("finish", job)) <=> CanFinish(acc, job.lot, job.amount)
         /\ Apply(acc, Event("finish", job)) = Finish(acc, job.lot, job.amount)
         /\ CanApply(acc, Event("receive", job)) <=> CanReceive(acc)
         /\ Apply(acc, Event("receive", job)) = Receive(acc, job.amount)
<1>1. \A t : /\ Event(t, job).type = t /\ Event(t, job).lot = job.lot
             /\ Event(t, job).amount = job.amount
  BY DEF Event
<1>2. QED
  BY <1>1, AppliedEvent

Accounts == [u \in Users |-> Replay(log[u])]

\* What a commit does to the accounts: the events of its rows, in their order.
LEMMA CommittedAccounts ==
  ASSUME TxIInv, NEW w \in Workers, Commit(w)
  PROVE  LET job == tx[w].job
             first == Changes(job)[1]
             second == Changes(job)[2]
             once == [Accounts EXCEPT ![first.user] = Apply(@, first.event)]
         IN  /\ CanApply(Accounts[first.user], first.event)
             /\ job.kind # "received" => Accounts' = once
             /\ job.kind = "received" =>
                  /\ CanApply(once[second.user], second.event)
                  /\ Accounts' = [once EXCEPT ![second.user] = Apply(@, second.event)]
<1> DEFINE job == tx[w].job
           first == Changes(job)[1]
           second == Changes(job)[2]
           once == [Accounts EXCEPT ![first.user] = Apply(@, first.event)]
           logOnce(u) == IF u = first.user THEN Append(log[u], first.event) ELSE log[u]
           logged(u) == IF job.kind = "received" /\ u = second.user
                        THEN Append(logOnce(u), second.event) ELSE logOnce(u)
<1>1. tx[w].pc = "committing" /\ TxTypeOK /\ log' = [u \in Users |-> View(w, u)]
  BY DEF Commit, TxIInv
<1>2. job \in Jobs
  BY <1>1, OpenTyped DEF TxState
<1>3. first.user \in Users /\ first.event \in AccountEvent
  BY <1>2, RowsOfJob DEF TxRow
<1>4. job.kind = "received" => second.user \in Users /\ second.event \in AccountEvent
  BY <1>2, RowsOfJob DEF TxRow
<1>5. ASSUME NEW u \in Users
      PROVE  /\ log'[u] = logged(u)
             /\ logOnce(u) \in Seq(AccountEvent) /\ log[u] \in Seq(AccountEvent)
             /\ u = first.user => CanApply(Replay(log[u]), first.event)
             /\ job.kind = "received" /\ u = second.user =>
                  CanApply(Replay(logOnce(u)), second.event)
  BY <1>1, CommittedRows DEF TxTypeOK
<1>6. ASSUME NEW u \in Users PROVE once[u] = Replay(logOnce(u))
  <2>1. u = first.user => Replay(Append(log[u], first.event)) = Apply(Replay(log[u]), first.event)
    BY <1>3, <1>5, ReplayAppend
  <2>2. once[u] = IF u = first.user THEN Apply(Replay(log[u]), first.event) ELSE Replay(log[u])
    BY <1>3 DEF Accounts
  <2>3. QED
    BY <2>1, <2>2
<1>7. ASSUME NEW u \in Users
      PROVE  Accounts'[u] = IF job.kind = "received" /\ u = second.user
                            THEN Apply(once[u], second.event) ELSE once[u]
  <2>1. Accounts'[u] = Replay(logged(u))
    BY <1>5 DEF Accounts
  <2>2. CASE job.kind = "received" /\ u = second.user
    <3>1. Replay(Append(logOnce(u), second.event)) = Apply(Replay(logOnce(u)), second.event)
      <4> DEFINE s == logOnce(u)
                 ev == second.event
      <4>1. s \in Seq(AccountEvent) /\ ev \in AccountEvent
        BY <1>4, <1>5, <2>2
      <4> HIDE DEF s, ev
      <4>2. Replay(Append(s, ev)) = Apply(Replay(s), ev)
        BY <4>1, ReplayAppend
      <4>3. QED
        BY <4>2 DEF s, ev
    <3>2. logged(u) = Append(logOnce(u), second.event)
      BY <2>2
    <3> HIDE DEF once, logOnce, logged, first, second
    <3>3. QED
      BY <1>6, <2>1, <2>2, <3>1, <3>2
  <2>3. CASE ~(job.kind = "received" /\ u = second.user)
    <3>1. logged(u) = logOnce(u)
      BY <2>3
    <3> HIDE DEF once, logOnce, logged, first, second
    <3>2. QED
      BY <1>6, <2>1, <2>3, <3>1
  <2>4. QED
    BY <2>2, <2>3
<1>8. CanApply(Accounts[first.user], first.event)
  BY <1>3, <1>5 DEF Accounts
<1>9. job.kind = "received" => CanApply(once[second.user], second.event)
  <2> HAVE job.kind = "received"
  <2>1. CanApply(Replay(logOnce(second.user)), second.event)
    BY <1>4, <1>5
  <2>2. once[second.user] = Replay(logOnce(second.user))
    BY <1>4, <1>6
  <2> HIDE DEF once, logOnce
  <2>3. QED
    BY <2>1, <2>2
<1>10. /\ DOMAIN once = Users /\ once = [u \in Users |-> once[u]]
       /\ Accounts' = [u \in Users |-> Accounts'[u]]
  BY DEF Accounts
<1>11. job.kind # "received" => Accounts' = once
  <2> HIDE DEF once, first, second, job
  <2>1. QED
    BY <1>7, <1>10
<1>12. job.kind = "received" => Accounts' = [once EXCEPT ![second.user] = Apply(@, second.event)]
  <2> HIDE DEF once, first, second, job
  <2>1. QED
    BY <1>7, <1>10
<1>13. QED
  BY <1>8, <1>9, <1>11, <1>12

\* Which step of Billing a commit is.
LEMMA CommittedStep ==
  ASSUME TxIInv, NEW w \in Workers, Commit(w)
  PROVE  LET job == tx[w].job
             id == job.id
             u == job.user
             l == job.lot
             a == job.amount
             o == job.owner
         IN  /\ u \in Users /\ l \in Lots /\ a \in Amounts /\ o \in Users
             /\ \/ job.kind = "topUp" /\ id \in Requests /\ Abstract!TopUpAccount(id, u, a)
                \/ job.kind = "payment" /\ id \in Requests
                   /\ Abstract!ProcessLotPayment(id, u, l, a)
                \/ job.kind = "registered" /\ id \in EventUIDs
                   /\ Abstract!HandleUserRegistered(id, u)
                \/ job.kind = "released" /\ id \in EventUIDs
                   /\ Abstract!HandleBidReleased(id, u, l, a)
                \/ job.kind = "received" /\ id \in EventUIDs
                   /\ Abstract!HandleLotReceived(id, o, u, l, a)
<1> DEFINE job == tx[w].job
           id == tx[w].job.id
           u == tx[w].job.user
           l == tx[w].job.lot
           a == tx[w].job.amount
<1>1. tx[w].pc = "committing" /\ processed' = processed \union {id} /\ InTx(w)
  BY OpenTyped DEF Commit, TxIInv
<1>2. job \in Jobs /\ tx[w].recorded /\ id \notin processed
  BY <1>1, OpenTyped DEF TxIInv, TxState, RecordedOnce, Orderly, Stage
<1>3. /\ u \in Users /\ l \in Lots /\ a \in Amounts /\ job.owner \in Users
      /\ id \in Requests \union EventUIDs /\ job.kind \in JobKinds
  BY <1>2, JobTyped
<1>4. CASE job.kind \in RequestKinds
  <2>1. /\ id \in Requests /\ id \notin processed \intersect Requests
        /\ processed' \intersect Requests = (processed \intersect Requests) \union {id}
        /\ processed' \intersect EventUIDs = processed \intersect EventUIDs
    BY <1>1, <1>2, <1>4, JobsAssumption
  <2>2. CASE job.kind = "topUp"
    <3>1. Changes(job) = <<Row(u, Event("topUp", job))>>
      BY <2>2 DEF Changes
    <3>2. /\ CanTopUp(Accounts[u])
          /\ Accounts' = [Accounts EXCEPT ![u] = TopUp(@, a)]
      BY <2>2, <3>1, CommittedAccounts, OneElement, AppliedEvents DEF Row
    <3>3. Abstract!TopUpAccount(id, u, a)
      BY <2>1, <3>2, AbstractAccount DEF Abstract!TopUpAccount, Accounts
    <3>4. QED
      BY <1>3, <2>1, <2>2, <3>3
  <2>3. CASE job.kind = "payment"
    <3>1. Changes(job) = <<Row(u, Event("block", job))>>
      BY <2>3 DEF Changes
    <3>2. /\ CanBlock(Accounts[u], l, a)
          /\ Accounts' = [Accounts EXCEPT ![u] = Block(@, l, a)]
      BY <2>3, <3>1, CommittedAccounts, OneElement, AppliedEvents DEF Row
    <3>3. Abstract!ProcessLotPayment(id, u, l, a)
      BY <2>1, <3>2, AbstractAccount DEF Abstract!ProcessLotPayment, Accounts
    <3>4. QED
      BY <1>3, <2>1, <2>3, <3>3
  <2>4. QED
    BY <1>4, <2>2, <2>3 DEF RequestKinds
<1>5. CASE job.kind \notin RequestKinds
  <2>1. /\ id \in EventUIDs /\ id \notin processed \intersect EventUIDs
        /\ processed' \intersect EventUIDs = (processed \intersect EventUIDs) \union {id}
        /\ processed' \intersect Requests = processed \intersect Requests
    BY <1>1, <1>2, <1>3, <1>5, JobsAssumption
  <2>2. Abstract!MarkProcessed(id)
    BY <2>1 DEF Abstract!MarkProcessed
  <2>3. CASE job.kind = "registered"
    <3>1. Changes(job) = <<Row(u, Event("create", job))>>
      BY <2>3 DEF Changes
    <3>2. /\ CanCreateAccount(Accounts[u])
          /\ Accounts' = [Accounts EXCEPT ![u] = CreateAccount(@)]
      BY <2>3, <3>1, CommittedAccounts, OneElement, AppliedEvents DEF Row
    <3>3. Abstract!HandleUserRegistered(id, u)
      BY <2>2, <3>2, AbstractAccount DEF Abstract!HandleUserRegistered, Accounts
    <3>4. QED
      BY <1>3, <2>1, <2>3, <3>3
  <2>4. CASE job.kind = "released"
    <3>1. Changes(job) = <<Row(u, Event("unblock", job))>>
      BY <2>4 DEF Changes
    <3>2. /\ CanUnblock(Accounts[u], l, a)
          /\ Accounts' = [Accounts EXCEPT ![u] = Unblock(@, l, a)]
      BY <2>4, <3>1, CommittedAccounts, OneElement, AppliedEvents DEF Row
    <3>3. Abstract!HandleBidReleased(id, u, l, a)
      BY <2>2, <3>2, AbstractAccount DEF Abstract!HandleBidReleased, Accounts
    <3>4. QED
      BY <1>3, <2>1, <2>4, <3>3
  <2>5. CASE job.kind = "received"
    <3> DEFINE o == job.owner
               paid == [Accounts EXCEPT ![u] = Finish(@, l, a)]
    <3>1. Changes(job) = <<Row(u, Event("finish", job)), Row(o, Event("receive", job))>>
      BY <2>5 DEF Changes
    <3>2. /\ Changes(job)[1].user = u /\ Changes(job)[1].event = Event("finish", job)
          /\ Changes(job)[2].user = o /\ Changes(job)[2].event = Event("receive", job)
      BY <3>1, TwoElements DEF Row
    <3>3. /\ CanFinish(Accounts[u], l, a)
          /\ CanReceive(paid[o])
          /\ Accounts' = [paid EXCEPT ![o] = Receive(@, a)]
      <4>1. /\ CanApply(Accounts[u], Event("finish", job))
            /\ LET once == [Accounts EXCEPT ![u] = Apply(@, Event("finish", job))]
               IN  /\ CanApply(once[o], Event("receive", job))
                   /\ Accounts' = [once EXCEPT ![o] = Apply(@, Event("receive", job))]
        BY <2>5, <3>2, CommittedAccounts
      <4>2. QED
        BY <4>1, AppliedEvents
    <3>4. Abstract!HandleLotReceived(id, o, u, l, a)
      <4>1. Abstract!CanFinish(Accounts[u], l, a)
        BY <3>3, AbstractAccount
      <4>2. paid = [Accounts EXCEPT ![u] = Abstract!Finish(@, l, a)]
        BY AbstractAccount
      <4> HIDE DEF paid
      <4>3. /\ Abstract!CanReceive(paid[o]) /\ Abstract!Fits(paid[o], a)
            /\ Accounts' = [paid EXCEPT ![o] = Abstract!Receive(@, a)]
        BY <3>3, AbstractAccount
      <4>4. QED
        BY <2>2, <4>1, <4>2, <4>3 DEF Abstract!HandleLotReceived, Accounts
    <3>5. QED
      BY <1>3, <2>1, <2>5, <3>4
  <2>6. QED
    BY <1>3, <1>5, <2>3, <2>4, <2>5 DEF RequestKinds, JobKinds
<1>6. QED
  BY <1>4, <1>5

LEMMA CommitRefines ==
  ASSUME TxIInv, NEW w \in Workers, Commit(w)
  PROVE  Abstract!BillingNext
BY CommittedStep DEF Abstract!BillingNext, Abstract!HandleRequest, Abstract!HandleEvent

\* Only a commit is visible to others.
LEMMA QuietStep ==
  ASSUME [Next]_vars, ~\E w \in Workers : Commit(w)
  PROVE  UNCHANGED log /\ UNCHANGED processed
BY DEF Next, vars, Begin, Lock, SetProcessed, AlreadyProcessed, ChangeAccountState,
       ChangeFails, Abort

\* The Billing service with its interleaved transactions, locks, rollbacks,
\* retries and redeliveries implements the abstract Billing, whose requests and
\* events are single steps, each id taking effect once.
THEOREM BillingTxRefinesBilling == Spec => BillingRefined
<1>1. Init => Abstract!BillingInit
  BY ReplayEmpty, AbstractAccount DEF Init, Abstract!BillingInit
<1>2. TxIInv /\ [Next]_vars => [Abstract!BillingNext]_(Abstract!billingVars)
  <2> SUFFICES ASSUME TxIInv, [Next]_vars
               PROVE  Abstract!BillingNext \/ UNCHANGED Abstract!billingVars
    OBVIOUS
  <2>1. CASE \E w \in Workers : Commit(w)
    BY <2>1, CommitRefines
  <2>2. CASE ~\E w \in Workers : Commit(w)
    BY <2>2, QuietStep DEF Abstract!billingVars
  <2>3. QED
    BY <2>1, <2>2
<1>3. QED
  BY <1>1, <1>2, TxIInvForever, PTL DEF Spec, BillingRefined, Abstract!BillingSpec

----------------------------------------------------------------------------
(* What Billing promises holds of the accounts the logs replay to, as long *)
(* as no total wraps.                                                      *)

\* The theorems of BillingProofs, about the accounts the logs replay to.
Bounded ==
  INSTANCE BillingProofs WITH
    account <- [u \in Users |-> Replay(log[u])],
    processedRequests <- processed \intersect Requests,
    processedEvents <- processed \intersect EventUIDs,
    WrapAllowed <- FALSE

\* No event of a log takes a total past 2^64 - 1.
NoTotalWraps ==
  \A u \in Users : \A i \in 1 .. Len(log[u]) :
    log[u][i].type \in {"topUp", "receive"}
      => Loaded(log[u])[i - 1].total + log[u][i].amount < Width

\* The last event of a log is applied to what the events before it replay to.
LEMMA LastEvent ==
  ASSUME NEW E, NEW evs \in Seq(E), NEW ev \in E
  PROVE  LET more == Append(evs, ev) IN
         /\ Len(more) \in 1 .. Len(more) /\ more[Len(more)] = ev
         /\ Loaded(more)[Len(more) - 1] = Replay(evs)
<1> DEFINE n == Len(evs)
           more == Append(evs, ev)
<1>1. /\ n \in Nat /\ Len(more) = n + 1 /\ more[n + 1] = ev
      /\ \A i \in 1 .. n : evs[i] = more[i]
  BY AppendProperties, LenProperties
<1> HIDE DEF more
<1>2. Loaded(more)[n] = Loaded(evs)[n]
  <2>1. Len(evs) = n
    OBVIOUS
  <2> HIDE DEF n
  <2>2. \A i \in 0 .. n : Loaded(more)[i] = Loaded(evs)[i]
    BY <1>1, <2>1, SamePrefixLoaded
  <2>3. QED
    BY <1>1, <2>2
<1>3. (n + 1) - 1 = n
  BY <1>1
<1>4. QED
  BY <1>1, <1>2, <1>3 DEF Replay, more

\* The last row of a commit fits the total it is added to.
LEMMA CommitFits ==
  ASSUME TxIInv, NEW w \in Workers, Commit(w), NoTotalWraps'
  PROVE  LET job == tx[w].job
             paid == [Accounts EXCEPT ![job.user] = Finish(@, job.lot, job.amount)]
         IN  /\ job.kind = "topUp" => Accounts[job.user].total + job.amount < Width
             /\ job.kind = "received" => paid[job.owner].total + job.amount < Width
<1> DEFINE job == tx[w].job
           u == job.user
           o == job.owner
           first == Changes(job)[1]
           second == Changes(job)[2]
           logOnce(x) == IF x = first.user THEN Append(log[x], first.event) ELSE log[x]
<1>1. tx[w].pc = "committing" /\ TxTypeOK /\ log' = [x \in Users |-> View(w, x)]
  BY DEF Commit, TxIInv
<1>2. job \in Jobs /\ u \in Users /\ o \in Users
  BY <1>1, OpenTyped, JobTyped DEF TxState
<1>3. first.event \in AccountEvent
      /\ (job.kind = "received" => second.event \in AccountEvent)
  BY <1>2, RowsOfJob DEF TxRow
<1>4. ASSUME NEW x \in Users
      PROVE  /\ log[x] \in Seq(AccountEvent) /\ logOnce(x) \in Seq(AccountEvent)
             /\ log'[x] = IF job.kind = "received" /\ x = second.user
                          THEN Append(logOnce(x), second.event) ELSE logOnce(x)
  BY <1>1, CommittedRows DEF TxTypeOK
<1>5. ASSUME NEW x \in Users, NEW evs \in Seq(AccountEvent), NEW ev \in AccountEvent,
             log'[x] = Append(evs, ev), ev.type \in {"topUp", "receive"}
      PROVE  Replay(evs).total + ev.amount < Width
  <2> DEFINE more == Append(evs, ev)
  <2>1. /\ Len(more) \in 1 .. Len(more) /\ more[Len(more)] = ev
        /\ Loaded(more)[Len(more) - 1] = Replay(evs)
    BY LastEvent
  <2>2. log'[x] = more
    BY <1>5
  <2>3. \A i \in 1 .. Len(log'[x]) :
          log'[x][i].type \in {"topUp", "receive"}
            => Loaded(log'[x])[i - 1].total + log'[x][i].amount < Width
    BY DEF NoTotalWraps, Loaded
  <2> HIDE DEF more
  <2>4. QED
    BY <1>5, <2>1, <2>2, <2>3
<1>6. CASE job.kind = "topUp"
  <2>1. /\ first.user = u /\ first.event = Event("topUp", job)
        /\ first.event.type = "topUp" /\ first.event.amount = job.amount
    BY <1>6, OneElement DEF Changes, Row, Event
  <2>2. log'[u] = Append(log[u], first.event)
    BY <1>2, <1>4, <1>6, <2>1
  <2> HIDE DEF first
  <2>3. Replay(log[u]).total + first.event.amount < Width
    BY <1>2, <1>3, <1>4, <1>5, <2>1, <2>2
  <2>4. QED
    BY <1>2, <1>6, <2>1, <2>3 DEF Accounts
<1>7. CASE job.kind = "received"
  <2> DEFINE paid == [Accounts EXCEPT ![u] = Finish(@, job.lot, job.amount)]
  <2>1. /\ first.user = u /\ first.event = Event("finish", job)
        /\ second.user = o /\ second.event = Event("receive", job)
        /\ second.event.type = "receive" /\ second.event.amount = job.amount
    BY <1>7, TwoElements DEF Changes, Row, Event
  <2> HIDE DEF first, second
  <2>2. /\ log[o] \in Seq(AccountEvent) /\ logOnce(o) \in Seq(AccountEvent)
        /\ log'[o] = Append(logOnce(o), second.event)
    BY <1>2, <1>4, <1>7, <2>1
  <2>3. Replay(logOnce(o)).total + job.amount < Width
    <3> HIDE DEF logOnce
    <3>1. QED
      BY <1>2, <1>3, <1>5, <1>7, <2>1, <2>2
  <2>4. Replay(logOnce(o)) = paid[o]
    <3>1. CASE o = u
      <4>1. Replay(Append(log[u], first.event)) = Apply(Replay(log[u]), first.event)
        BY <1>3, <2>2, <3>1, ReplayAppend
      <4>2. Apply(Replay(log[u]), first.event) = Finish(Replay(log[u]), job.lot, job.amount)
        BY <2>1, AppliedEvents
      <4>3. QED
        BY <1>2, <2>1, <3>1, <4>1, <4>2 DEF Accounts
    <3>2. CASE o # u
      BY <1>2, <2>1, <3>2 DEF Accounts
    <3>3. QED
      BY <3>1, <3>2
  <2>5. QED
    BY <1>7, <2>3, <2>4
<1>8. QED
  BY <1>6, <1>7

\* The operators of Account and the actions of Billing once more, now with the
\* bound on totals.
LEMMA BoundedAccount ==
  /\ Bounded!EmptyAccount = Abstract!EmptyAccount
  /\ \A acc, l, a :
       /\ Bounded!CanCreateAccount(acc) <=> Abstract!CanCreateAccount(acc)
       /\ Bounded!CreateAccount(acc) = Abstract!CreateAccount(acc)
       /\ Bounded!CanTopUp(acc) <=> Abstract!CanTopUp(acc)
       /\ Bounded!TopUp(acc, a) = Abstract!TopUp(acc, a)
       /\ Bounded!CanBlock(acc, l, a) <=> Abstract!CanBlock(acc, l, a)
       /\ Bounded!Block(acc, l, a) = Abstract!Block(acc, l, a)
       /\ Bounded!CanUnblock(acc, l, a) <=> Abstract!CanUnblock(acc, l, a)
       /\ Bounded!Unblock(acc, l, a) = Abstract!Unblock(acc, l, a)
       /\ Bounded!CanFinish(acc, l, a) <=> Abstract!CanFinish(acc, l, a)
       /\ Bounded!Finish(acc, l, a) = Abstract!Finish(acc, l, a)
       /\ Bounded!CanReceive(acc) <=> Abstract!CanReceive(acc)
       /\ Bounded!Receive(acc, a) = Abstract!Receive(acc, a)
       /\ Bounded!Fits(acc, a) <=> acc.total + a < Width
BY DEF Abstract!EmptyAccount, Bounded!EmptyAccount,
       Abstract!CanCreateAccount, Bounded!CanCreateAccount,
       Abstract!CreateAccount, Bounded!CreateAccount, Abstract!CanTopUp, Bounded!CanTopUp,
       Abstract!TopUp, Bounded!TopUp, Abstract!CanBlock, Bounded!CanBlock,
       Abstract!Block, Bounded!Block, Abstract!CanUnblock, Bounded!CanUnblock,
       Abstract!Unblock, Bounded!Unblock, Abstract!CanFinish, Bounded!CanFinish,
       Abstract!Finish, Bounded!Finish, Abstract!CanReceive, Bounded!CanReceive,
       Abstract!Receive, Bounded!Receive, Bounded!Fits,
       Abstract!Plus, Bounded!Plus, Abstract!Minus, Bounded!Minus,
       Abstract!Available, Bounded!Available, Abstract!HasPayment, Bounded!HasPayment

LEMMA BoundedActions ==
  ASSUME NEW id, NEW u, NEW l, NEW a
  PROVE  /\ Abstract!TopUpAccount(id, u, a) /\ Accounts[u].total + a < Width
              => Bounded!TopUpAccount(id, u, a)
         /\ Abstract!ProcessLotPayment(id, u, l, a) => Bounded!ProcessLotPayment(id, u, l, a)
         /\ Abstract!HandleUserRegistered(id, u) => Bounded!HandleUserRegistered(id, u)
         /\ Abstract!HandleBidReleased(id, u, l, a) => Bounded!HandleBidReleased(id, u, l, a)
<1>1. Abstract!MarkProcessed(id) <=> Bounded!MarkProcessed(id)
  BY DEF Abstract!MarkProcessed, Bounded!MarkProcessed
<1>2. Abstract!TopUpAccount(id, u, a) /\ Accounts[u].total + a < Width
        => Bounded!TopUpAccount(id, u, a)
  BY BoundedAccount DEF Abstract!TopUpAccount, Bounded!TopUpAccount, Accounts
<1>3. Abstract!ProcessLotPayment(id, u, l, a) => Bounded!ProcessLotPayment(id, u, l, a)
  BY BoundedAccount DEF Abstract!ProcessLotPayment, Bounded!ProcessLotPayment
<1>4. Abstract!HandleUserRegistered(id, u) => Bounded!HandleUserRegistered(id, u)
  BY <1>1, BoundedAccount DEF Abstract!HandleUserRegistered, Bounded!HandleUserRegistered
<1>5. Abstract!HandleBidReleased(id, u, l, a) => Bounded!HandleBidReleased(id, u, l, a)
  BY <1>1, BoundedAccount DEF Abstract!HandleBidReleased, Bounded!HandleBidReleased
<1>6. QED
  BY <1>2, <1>3, <1>4, <1>5

LEMMA BoundedReceipt ==
  ASSUME NEW id, NEW u, NEW o, NEW l, NEW a, NEW paid,
         paid = [Accounts EXCEPT ![u] = Finish(@, l, a)], paid[o].total + a < Width,
         Abstract!HandleLotReceived(id, o, u, l, a)
  PROVE  Bounded!HandleLotReceived(id, o, u, l, a)
<1>1. paid = [Accounts EXCEPT ![u] = Abstract!Finish(@, l, a)]
  BY AbstractAccount
<1>2. paid = [Accounts EXCEPT ![u] = Bounded!Finish(@, l, a)]
  BY <1>1, BoundedAccount
<1>3. /\ Abstract!MarkProcessed(id) /\ Abstract!CanFinish(Accounts[u], l, a)
      /\ Abstract!CanReceive(paid[o])
      /\ Accounts' = [paid EXCEPT ![o] = Abstract!Receive(@, a)]
  BY <1>1 DEF Abstract!HandleLotReceived, Accounts
<1>4. /\ Bounded!MarkProcessed(id) /\ Bounded!CanFinish(Accounts[u], l, a)
      /\ Bounded!CanReceive(paid[o]) /\ Bounded!Fits(paid[o], a)
      /\ Accounts' = [paid EXCEPT ![o] = Bounded!Receive(@, a)]
  BY <1>3, BoundedAccount DEF Abstract!MarkProcessed, Bounded!MarkProcessed
<1>5. QED
  BY <1>2, <1>4 DEF Bounded!HandleLotReceived, Accounts

LEMMA CommitBounded ==
  ASSUME TxIInv, NEW w \in Workers, Commit(w), NoTotalWraps'
  PROVE  Bounded!BillingNext
<1> DEFINE job == tx[w].job
           id == job.id
           u == job.user
           l == job.lot
           a == job.amount
           o == job.owner
           paid == [Accounts EXCEPT ![u] = Finish(@, l, a)]
<1>1. /\ job.kind = "topUp" => Accounts[u].total + a < Width
      /\ job.kind = "received" => paid[o].total + a < Width
  BY CommitFits
<1>2. job.kind = "received" /\ Abstract!HandleLotReceived(id, o, u, l, a)
        => Bounded!HandleLotReceived(id, o, u, l, a)
  <2>1. ASSUME Abstract!HandleLotReceived(id, o, u, l, a), job.kind = "received"
        PROVE  Bounded!HandleLotReceived(id, o, u, l, a)
    BY <1>1, <2>1, BoundedReceipt
  <2>2. QED
    BY <2>1
<1>3. /\ u \in Users /\ l \in Lots /\ a \in Amounts /\ o \in Users
      /\ \/ id \in Requests /\ Bounded!TopUpAccount(id, u, a)
         \/ id \in Requests /\ Bounded!ProcessLotPayment(id, u, l, a)
         \/ id \in EventUIDs /\ Bounded!HandleUserRegistered(id, u)
         \/ id \in EventUIDs /\ Bounded!HandleBidReleased(id, u, l, a)
         \/ id \in EventUIDs /\ Bounded!HandleLotReceived(id, o, u, l, a)
  BY <1>1, <1>2, CommittedStep, BoundedActions
<1>4. QED
  BY <1>3 DEF Bounded!BillingNext, Bounded!HandleRequest, Bounded!HandleEvent

\* As long as no total wraps, the transactions of Billing implement it with the
\* bound, so what is proved of Billing holds of the logs.
LEMMA BoundedImplemented == Spec /\ []NoTotalWraps => Bounded!BillingSpec
<1>1. Init => Bounded!BillingInit
  BY ReplayEmpty, AbstractAccount, BoundedAccount DEF Init, Bounded!BillingInit
<1>2. TxIInv /\ [Next]_vars /\ NoTotalWraps' => [Bounded!BillingNext]_(Bounded!billingVars)
  <2> SUFFICES ASSUME TxIInv, [Next]_vars, NoTotalWraps'
               PROVE  Bounded!BillingNext \/ UNCHANGED Bounded!billingVars
    OBVIOUS
  <2>1. CASE \E w \in Workers : Commit(w)
    BY <2>1, CommitBounded
  <2>2. CASE ~\E w \in Workers : Commit(w)
    BY <2>2, QuietStep DEF Bounded!billingVars
  <2>3. QED
    BY <2>1, <2>2
<1>3. QED
  BY <1>1, <1>2, TxIInvForever, PTL DEF Spec, Bounded!BillingSpec

\* The assumptions of Billing are assumptions of BillingTx.
LEMMA BoundedAssumptions ==
  /\ Width \in Nat \ {0} /\ Bounded!IsFiniteSet(Lots)
  /\ Amounts \subseteq Bounded!Raw \ {0} /\ FALSE \in BOOLEAN
<1>1. Bounded!IsFiniteSet(Lots)
  BY LotsAssumption DEF IsFiniteSet, Bounded!IsFiniteSet
<1>2. Amounts \subseteq Bounded!Raw \ {0}
  BY AmountsAssumption DEF Raw, Bounded!Raw
<1>3. QED
  BY <1>1, <1>2, WidthAssumption

\* However its transactions interleave, fail and are repeated, the rows that are
\* committed never overdraw an account: as long as no total wraps, what a log
\* replays to blocks the sum of its lot payments, and that is within the total.
THEOREM BillingTxNeverOverdrawn ==
  Spec /\ []NoTotalWraps => [](Bounded!BlockedIsSum /\ Bounded!BlockedIsCovered)
<1>1. Width \in Nat \ {0}
  BY BoundedAssumptions
<1>2. Bounded!IsFiniteSet(Lots)
  BY BoundedAssumptions
<1>3. Amounts \subseteq Bounded!Raw \ {0}
  BY BoundedAssumptions
<1>4. FALSE \in BOOLEAN
  OBVIOUS
<1>5. Bounded!BillingSpec => []Bounded!BlockedIsSum
  BY <1>1, <1>2, <1>3, <1>4, Bounded!BillingBlockedIsSum, PTL
<1>6. Bounded!BillingSpec => []Bounded!BlockedIsCovered
  BY <1>1, <1>2, <1>3, <1>4, Bounded!BillingNeverOverdrawn, PTL
<1>7. QED
  BY <1>5, <1>6, BoundedImplemented, PTL

\* And only requests change the sum of all totals: a commit of an event moves
\* money from one log to another, or not at all.
THEOREM BillingTxEventsConserveFunds ==
  ASSUME IsFiniteSet(Users)
  PROVE  Spec /\ []NoTotalWraps => Bounded!EventsConserveFunds
<1>1. Width \in Nat \ {0}
  BY BoundedAssumptions
<1>2. Bounded!IsFiniteSet(Lots)
  BY BoundedAssumptions
<1>3. Amounts \subseteq Bounded!Raw \ {0}
  BY BoundedAssumptions
<1>4. FALSE \in BOOLEAN
  OBVIOUS
<1>5. Bounded!IsFiniteSet(Users)
  BY DEF IsFiniteSet, Bounded!IsFiniteSet
<1>6. Bounded!BillingSpec => Bounded!EventsConserveFunds
  BY <1>1, <1>2, <1>3, <1>4, <1>5, Bounded!BillingEventsConserveFunds, PTL
<1>7. QED
  BY <1>6, BoundedImplemented, PTL
============================================================================
