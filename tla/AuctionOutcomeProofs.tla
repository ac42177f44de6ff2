----------------------- MODULE AuctionOutcomeProofs -----------------------
(***************************************************************************)
(* Theorems about how an auction ends, for every set of lots, users, calls *)
(* and bids, with crashes and abandoned calls.                             *)
(*                                                                         *)
(* The completion handler reads the lots without a lock and never looks at *)
(* the status of the one it decides.  What saves it is the clock: a bid's  *)
(* transaction is shorter than Extension, so a bid on a lot that has been  *)
(* read as over moves its end, a buy-it-now bid included, and the handler  *)
(* leaves it alone.  SnapshotSound says this as an invariant.              *)
(***************************************************************************)
EXTENDS AuctionProofs

LotOver(l) == lot[l].status \notin {"none", "active"}

\* A transaction under a lot's lock is shorter than Extension.
LocksAreShort ==
  \A c \in Calls : pc[c] = "locked" => clock[c] <= now /\ now <= clock[c] + Extension

\* A lot read as over is still active unless its end has moved.
SnapshotSound ==
  /\ \A s \in snapshot :
       /\ s.end < now /\ s.end <= lot[s.lot].end
       /\ lot[s.lot].status # "none"
       /\ s.end = lot[s.lot].end => lot[s.lot].status = "active"
  /\ \A s, t \in snapshot : s.lot = t.lot => s = t

\* A lot is sent or received only after a lot_sent event.
SentIsStored ==
  \A l \in Lots : lot[l].status \in {"sent", "received"} => Reports(l, {"sent"}) # {}

\* A lot that is over has one verdict, and it is right.
RightVerdict(l, i) ==
  IF stored[i].type = "won"
  THEN bids[l] # {} /\ stored[i].user = LastBid(l).user
  ELSE bids[l] = {}

Decided(l) ==
  IF LotOver(l) THEN \E i : Verdicts(l) = {i} /\ RightVerdict(l, i) ELSE Verdicts(l) = {}

Outcome ==
  /\ LocksAreShort
  /\ SnapshotSound
  /\ SentIsStored
  /\ \A l \in Lots : Decided(l)

----------------------------------------------------------------------------
(* The clock.                                                              *)

LEMMA ClockIsNat ==
  ASSUME TypeOK
  PROVE  /\ now \in Nat /\ Extension \in Nat
         /\ \A c \in Calls : clock[c] \in Nat
         /\ \A l \in Lots : lot[l].end \in Nat /\ lot[l].status \in LotStatus
         /\ \A s \in snapshot : s.lot \in Lots /\ s.end \in Nat
BY AuctionAssumption DEF TypeOK

LEMMA LockStep ==
  ASSUME TypeOK, LocksAreShort, [Next]_vars
  PROVE  LocksAreShort'
<1>1. ASSUME UNCHANGED <<clock, now>>, \A c \in Calls : pc'[c] = "locked" => pc[c] = "locked"
      PROVE  LocksAreShort'
  BY <1>1 DEF LocksAreShort
<1>2. ASSUME NEW c \in Calls, NEW to, At(c, to), to # "locked", UNCHANGED <<clock, now>>
      PROVE  LocksAreShort'
  BY <1>1, <1>2 DEF At, TypeOK
<1>3. ASSUME NEW c \in Calls, PayForBid(c) PROVE LocksAreShort'
  <2>1. CASE \E b \in Bids : StartBid(c, b)
    BY <1>2, <2>1 DEF StartBid
  <2>2. CASE ServePayment(c)
    BY <1>2, <2>2 DEF ServePayment
  <2>3. CASE ReceivePaid(c) \/ ReceiveRefused(c)
    BY <1>2, <2>3 DEF ReceivePaid, ReceiveRefused
  <2>4. CASE ReceiveOther(c) \/ LosePayment(c)
    BY <1>2, <2>4 DEF ReceiveOther, LosePayment, NextAttempt
  <2>5. CASE ServeLate(c)
    BY <1>1, <2>5 DEF ServeLate
  <2>6. QED
    BY <1>3, <2>1, <2>2, <2>3, <2>4, <2>5 DEF PayForBid
<1>4. ASSUME NEW c \in Calls, BeginBid(c) PROVE LocksAreShort'
  <2>1. pc' = [pc EXCEPT ![c] = "locked"] /\ clock' = [clock EXCEPT ![c] = now] /\ now' = now
    BY <1>4 DEF BeginBid, At
  <2>2. pc \in [Calls -> {"idle"} \union Awaiting \union Charged \union Ended]
        /\ clock \in [Calls -> Nat]
    BY DEF TypeOK
  <2>3. \A d \in Calls \ {c} : pc'[d] = pc[d] /\ clock'[d] = clock[d]
    BY <2>1, <2>2
  <2>4. clock'[c] = now
    BY <2>1, <2>2
  <2>5. QED
    BY <2>1, <2>3, <2>4, ClockIsNat DEF LocksAreShort
<1>5. ASSUME NEW c \in Calls, PlaceBid(c), ~BeginBid(c) PROVE LocksAreShort'
  BY <1>2, <1>5 DEF PlaceBid, StoreBid, RejectBid, SendCancelled, CancelGivesUp
<1>6. CASE Crash
  BY <1>1, <1>6 DEF Crash
<1>7. CASE Tick
  <2>1. /\ UNCHANGED <<pc, clock>> /\ now' = now + 1
        /\ \A c \in Calls : pc[c] = "locked" => now < clock[c] + Extension
    BY <1>7 DEF Tick, callVars
  <2>2. QED
    BY <2>1, ClockIsNat DEF LocksAreShort
<1>8. CASE UNCHANGED <<callVars, now>>
  BY <1>1, <1>8 DEF callVars
<1>9. QED
  BY <1>3, <1>4, <1>5, <1>6, <1>7, <1>8
     DEF Next, vars, LifeOfLot, HandleReport, CompleteLots, BillingWork, CreateLot, SetLotSent,
         SetLotReceived, ReadCompletedLots, CompleteLot, CompletionFails, HandleStored,
         TopUpFunds

\* What a bid does to its lot: its end moves if it has passed before now.
LEMMA BidMovesEnd ==
  ASSUME TypeOK, LocksAreShort, NEW c \in Calls, StoreBid(c)
  PROVE  LET l == arg[c].lot IN
         /\ l \in Lots /\ lot[l].status = "active"
         /\ \A m \in Lots : m # l => lot'[m] = lot[m] /\ bids'[m] = bids[m]
         /\ lot'[l].status = IF BuysNow(arg[c]) THEN "finished" ELSE "active"
         /\ lot'[l].end \in Nat /\ lot[l].end <= lot'[l].end
         /\ lot[l].end < now => lot[l].end < lot'[l].end
<1> DEFINE b == arg[c]
           l == b.lot
<1>1. /\ l \in Lots /\ lot[l].status = "active" /\ pc[c] = "locked"
      /\ lot' = [lot EXCEPT ![l] =
                   [status |-> IF BuysNow(b) THEN "finished" ELSE lot[l].status,
                    end |-> ExtendedEnd(c)]]
      /\ bids' = [bids EXCEPT ![l] = bids[l] \union {[user |-> b.user, amount |-> b.amount]}]
  BY DEF StoreBid, Accepted, TypeOK, BidArgs
<1>2. lot \in [Lots -> [status : LotStatus, end : Nat]] /\ bids \in [Lots -> SUBSET BidRow]
  BY DEF TypeOK
<1> HIDE DEF b
<1>3. /\ \A m \in Lots : m # l => lot'[m] = lot[m] /\ bids'[m] = bids[m]
      /\ lot'[l] = [status |-> IF BuysNow(b) THEN "finished" ELSE lot[l].status,
                    end |-> ExtendedEnd(c)]
  BY <1>1, <1>2
<1>4. ExtendedEnd(c) = IF lot[l].end < clock[c] + Extension
                       THEN clock[c] + Extension ELSE lot[l].end
  BY DEF ExtendedEnd, b
<1>5. now <= clock[c] + Extension
  BY <1>1 DEF LocksAreShort
<1>6. QED
  BY <1>1, <1>3, <1>4, <1>5, ClockIsNat DEF b

\* What the completion handler decides is still active.
LEMMA CompletesActive ==
  ASSUME TypeOK, SnapshotSound, NEW s \in snapshot, CompleteLot(s), lot' # lot
  PROVE  /\ s.lot \in Lots /\ lot[s.lot].status = "active" /\ lot[s.lot].end < now
         /\ lot' = [lot EXCEPT ![s.lot].status =
                      IF bids[s.lot] = {} THEN "closed" ELSE "finished"]
<1>1. NotExtended(s)
  BY DEF CompleteLot
<1>2. QED
  BY <1>1, ClockIsNat DEF CompleteLot, NotExtended, SnapshotSound

----------------------------------------------------------------------------
(* What has been read of the lots.                                         *)

\* A lot whose end is kept keeps being active, if it was read so.
LEMMA SnapshotKept ==
  ASSUME TypeOK, SnapshotSound, snapshot' \subseteq snapshot,
         now' \in Nat, now <= now',
         \A s \in snapshot' :
           /\ lot'[s.lot].end \in Nat /\ lot[s.lot].end <= lot'[s.lot].end
           /\ lot'[s.lot].status # "none"
           /\ lot'[s.lot].end = s.end => lot'[s.lot].status = "active"
  PROVE  SnapshotSound'
<1>1. ASSUME NEW s \in snapshot'
      PROVE  /\ s.end < now' /\ s.end <= lot'[s.lot].end
             /\ lot'[s.lot].status # "none"
             /\ s.end = lot'[s.lot].end => lot'[s.lot].status = "active"
  <2>1. s.end < now /\ s.end <= lot[s.lot].end
    BY DEF SnapshotSound
  <2>2. s.lot \in Lots /\ s.end \in Nat /\ lot[s.lot].end \in Nat /\ now \in Nat
    BY ClockIsNat
  <2>3. QED
    BY <2>1, <2>2
<1>2. QED
  BY <1>1 DEF SnapshotSound

LEMMA SnapshotStep ==
  ASSUME TypeOK, LocksAreShort, SnapshotSound, [Next]_vars
  PROVE  SnapshotSound'
<1>0. lot \in [Lots -> [status : LotStatus, end : Nat]]
  BY DEF TypeOK
<1>1. \A s \in snapshot :
        /\ s.lot \in Lots /\ lot[s.lot].end \in Nat /\ lot[s.lot].status # "none"
        /\ lot[s.lot].end = s.end => lot[s.lot].status = "active"
  BY ClockIsNat DEF SnapshotSound
<1>2. CASE UNCHANGED <<lot, snapshot>> /\ (now' = now \/ now' = now + 1)
  BY <1>1, <1>2, ClockIsNat, SnapshotKept
<1>3. CASE snapshot' = {}
  BY <1>3 DEF SnapshotSound
<1>4. ASSUME NEW c \in Calls, StoreBid(c) PROVE SnapshotSound'
  <2> DEFINE l == arg[c].lot
  <2>1. /\ l \in Lots /\ \A m \in Lots : m # l => lot'[m] = lot[m]
        /\ lot'[l].status \in {"finished", "active"}
        /\ lot'[l].end \in Nat /\ lot[l].end <= lot'[l].end
        /\ lot[l].end < now => lot[l].end < lot'[l].end
    BY <1>4, BidMovesEnd
  <2> HIDE DEF l
  <2>2. UNCHANGED <<snapshot, now>>
    BY <1>4 DEF StoreBid
  <2>3. ASSUME NEW s \in snapshot
        PROVE  /\ lot'[s.lot].end \in Nat /\ lot[s.lot].end <= lot'[s.lot].end
               /\ lot'[s.lot].status # "none"
               /\ lot'[s.lot].end = s.end => lot'[s.lot].status = "active"
    <3>1. CASE s.lot # l
      BY <1>1, <2>1, <3>1
    <3>2. CASE s.lot = l
      <4>1. s.end < now /\ s.end <= lot[l].end /\ s.end \in Nat /\ lot[l].end \in Nat /\ now \in Nat
        BY <2>1, <3>2, ClockIsNat DEF SnapshotSound
      <4>2. s.end < lot'[l].end
        BY <2>1, <4>1
      <4>3. QED
        BY <2>1, <3>2, <4>1, <4>2
    <3>3. QED
      BY <3>1, <3>2
  <2>4. QED
    BY <2>2, <2>3, ClockIsNat, SnapshotKept
\* A lot that is not active any more has moved its end since it was read.
<1>5. ASSUME NEW l \in Lots, lot[l].status # "active", NEW st \in LotStatus \ {"none"},
             lot' = [lot EXCEPT ![l].status = st], UNCHANGED <<snapshot, now>>
      PROVE  SnapshotSound'
  <2>1. \A m \in Lots : /\ lot'[m].end = lot[m].end
                        /\ lot'[m].status = IF m = l THEN st ELSE lot[m].status
    BY <1>0, <1>5
  <2>2. \A s \in snapshot : s.lot = l => lot[s.lot].end # s.end
    BY <1>1, <1>5
  <2>3. QED
    BY <1>1, <1>5, <2>1, <2>2, ClockIsNat, SnapshotKept
<1>6. ASSUME NEW l \in Lots, LifeOfLot(l) PROVE SnapshotSound'
  <2>1. ASSUME NEW r, NEW d, CreateLot(l, r, d) PROVE SnapshotSound'
    <3>1. \A s \in snapshot : s.lot # l
      BY <1>1, <2>1 DEF CreateLot
    <3>2. \A s \in snapshot : lot'[s.lot] = lot[s.lot]
      BY <1>0, <1>1, <2>1, <3>1 DEF CreateLot
    <3>3. UNCHANGED <<snapshot, now>>
      BY <2>1 DEF CreateLot
    <3>4. QED
      BY <1>1, <3>2, <3>3, ClockIsNat, SnapshotKept
  <2>2. CASE SentMayArrive(l) /\ SetLotSent(l)
    BY <1>5, <2>2 DEF SentMayArrive, SetLotSent, LotStatus
  <2>3. CASE ReceivedMayArrive(l) /\ SetLotReceived(l)
    BY <1>5, <2>3 DEF ReceivedMayArrive, SetLotReceived, LotStatus
  <2>4. QED
    BY <1>6, <2>1, <2>2, <2>3 DEF LifeOfLot, HandleReport
<1>7. CASE ReadCompletedLots
  <2>1. /\ snapshot' = { [lot |-> l, end |-> lot[l].end] :
                           l \in { x \in Lots : lot[x].status = "active" /\ lot[x].end < now } }
        /\ UNCHANGED <<lot, now>>
    BY <1>7 DEF ReadCompletedLots
  <2>2. \A s \in snapshot' : /\ s.lot \in Lots /\ s.end = lot[s.lot].end
                             /\ s = [lot |-> s.lot, end |-> lot[s.lot].end]
                             /\ lot[s.lot].status = "active" /\ lot[s.lot].end < now
    BY <2>1
  <2>3. QED
    BY <2>1, <2>2, ClockIsNat DEF SnapshotSound
<1>8. ASSUME NEW s \in snapshot, CompleteLot(s) PROVE SnapshotSound'
  <2>1. snapshot' = snapshot \ {s} /\ now' = now
    BY <1>8 DEF CompleteLot
  <2>2. \A t \in snapshot' : t.lot # s.lot
    BY <2>1 DEF SnapshotSound
  <2>3. \A t \in snapshot' : lot'[t.lot] = lot[t.lot]
    BY <1>0, <1>1, <1>8, <2>1, <2>2, CompletesActive
  <2>4. QED
    BY <1>1, <2>1, <2>3, ClockIsNat, SnapshotKept
<1>9. QED
  BY <1>2, <1>3, <1>4, <1>6, <1>7, <1>8
     DEF Next, vars, lotVars, PayForBid, PlaceBid, CompleteLots, BillingWork,
         StartBid, ServePayment, ReceivePaid, ReceiveRefused, ReceiveOther, LosePayment,
         ServeLate, BeginBid, RejectBid, SendCancelled, CancelGivesUp,
         CompletionFails, HandleStored, TopUpFunds, Crash, Tick

----------------------------------------------------------------------------
(* Verdicts.                                                               *)

NewEvents == DOMAIN stored' \ DOMAIN stored
IsVerdict(ev) == ev.type \in {"won", "closed"}

StoredKept == \A i \in DOMAIN stored : i \in DOMAIN stored' /\ stored'[i] = stored[i]

LEMMA VerdictsGrow ==
  ASSUME StoredKept, NEW l \in Lots
  PROVE  /\ Verdicts(l)' = Verdicts(l)
              \union { i \in NewEvents : stored'[i].lot = l /\ IsVerdict(stored'[i]) }
         /\ Verdicts(l) \subseteq DOMAIN stored
BY DEF StoredKept, Verdicts, NewEvents, IsVerdict

\* Nothing new about a lot.
LEMMA StillDecided ==
  ASSUME StoredKept, NEW l \in Lots, Decided(l), bids'[l] = bids[l], LotOver(l)' <=> LotOver(l),
         \A i \in NewEvents : ~(stored'[i].lot = l /\ IsVerdict(stored'[i]))
  PROVE  Decided(l)'
<1>1. Verdicts(l)' = Verdicts(l) /\ Verdicts(l) \subseteq DOMAIN stored
  BY VerdictsGrow
<1>2. LastBid(l)' = LastBid(l)
  BY DEF LastBid
<1>3. \A i \in DOMAIN stored : RightVerdict(l, i)' <=> RightVerdict(l, i)
  BY <1>2 DEF RightVerdict, StoredKept
<1>4. QED
  BY <1>1, <1>3 DEF Decided

\* The first verdict about a lot.
LEMMA NowDecided ==
  ASSUME StoredKept, NEW l \in Lots, Decided(l), ~LotOver(l), LotOver(l)',
         NEW k \in NewEvents, stored'[k].lot = l, IsVerdict(stored'[k]), RightVerdict(l, k)',
         \A i \in NewEvents : i # k => ~(stored'[i].lot = l /\ IsVerdict(stored'[i]))
  PROVE  Decided(l)'
<1>1. Verdicts(l)' = {k}
  BY VerdictsGrow DEF Decided
<1>2. QED
  BY <1>1 DEF Decided

\* What a stored bid appends: a verdict if it buys the lot.
LEMMA BidVerdict ==
  ASSUME TypeOK, BidsRanked, NEW c \in Calls, arg[c] \in BidArgs, StoreBid(c)
  PROVE  LET b == arg[c]
             won == Ev("won", b.user, b.lot, 0)
         IN  /\ StoredKept
             /\ IF BuysNow(b)
                THEN \E k \in NewEvents : /\ stored'[k] = won
                                          /\ \A i \in NewEvents : i # k => stored'[i].type = "outbid"
                ELSE \A i \in NewEvents : stored'[i].type = "outbid"
<1> DEFINE b == arg[c]
           l == b.lot
           last == LastBid(l)
           won == Ev("won", b.user, l, 0)
           outbid == Ev("outbid", last.user, l, last.amount)
<1>1. stored \in Seq(StoredEvent) /\ stored' = stored \o BidEvents(b)
  BY DEF TypeOK, StoreBid
<1>2. won \in StoredEvent
  BY WidthAssumption DEF BidArgs, Ev, StoredEvent, EventTypes, Raw
<1>3. bids[l] # {} => outbid \in StoredEvent
  <2>1. l \in Lots /\ bids[l] \subseteq BidRow
    BY DEF BidArgs, TypeOK
  <2>2. bids[l] # {} => last \in BidRow
    BY <2>1, LastBidIsGreatest
  <2>3. QED
    BY <2>1, <2>2, AmountsAssumption DEF BidRow, Ev, StoredEvent, EventTypes
<1>4. outbid.type = "outbid" /\ BidEvents(b) =
        (IF BuysNow(b) THEN <<won>> ELSE <<>>)
          \o (IF bids[l] # {} THEN <<outbid>> ELSE <<>>)
  BY DEF BidEvents, Ev
<1> SUFFICES /\ StoredKept
             /\ IF BuysNow(b)
                THEN \E k \in NewEvents : /\ stored'[k] = won
                                          /\ \A i \in NewEvents : i # k => stored'[i].type = "outbid"
                ELSE \A i \in NewEvents : stored'[i].type = "outbid"
  OBVIOUS
<1> HIDE DEF won, outbid, b, l
<1>5. CASE bids[l] = {} /\ BuysNow(b)
  <2>1. BidEvents(b) = <<won>>
    BY <1>4, <1>5
  <2>2. /\ StoredKept /\ NewEvents = {Len(stored) + 1}
        /\ stored'[Len(stored) + 1] = won
    BY <1>1, <1>2, <2>1 DEF StoredKept, NewEvents
  <2>3. QED
    BY <1>5, <2>2
<1>6. CASE bids[l] = {} /\ ~BuysNow(b)
  <2>1. BidEvents(b) = <<>>
    BY <1>4, <1>6
  <2>2. stored' = stored
    BY <1>1, <2>1
  <2>3. QED
    BY <1>6, <2>2 DEF StoredKept, NewEvents
<1>7. CASE bids[l] # {} /\ BuysNow(b)
  <2>1. BidEvents(b) = <<won, outbid>>
    BY <1>4, <1>7, TwoSingletons
  <2>2. /\ StoredKept
        /\ NewEvents = {Len(stored) + 1, Len(stored) + 2}
        /\ stored'[Len(stored) + 1] = won
        /\ stored'[Len(stored) + 2] = outbid
    BY <1>1, <1>2, <1>3, <1>7, <2>1 DEF StoredKept, NewEvents
  <2>3. QED
    BY <1>4, <1>7, <2>2
<1>8. CASE bids[l] # {} /\ ~BuysNow(b)
  <2>1. BidEvents(b) = <<outbid>>
    BY <1>4, <1>8
  <2>2. /\ StoredKept /\ NewEvents = {Len(stored) + 1}
        /\ stored'[Len(stored) + 1] = outbid
    BY <1>1, <1>3, <1>8, <2>1 DEF StoredKept, NewEvents
  <2>3. QED
    BY <1>4, <1>8, <2>2
<1>9. QED
  BY <1>5, <1>6, <1>7, <1>8

\* A bid that is stored is the last one.
LEMMA StoredBidLeads ==
  ASSUME TypeOK, BidsRanked, BidsRanked', NEW c \in Calls, arg[c] \in BidArgs, StoreBid(c),
         NEW l \in Lots, l = arg[c].lot
  PROVE  bids'[l] # {} /\ LastBid(l)' = [user |-> arg[c].user, amount |-> arg[c].amount]
<1> DEFINE b == arg[c]
           row == [user |-> b.user, amount |-> b.amount]
<1>1. /\ b.amount \in Amounts /\ row.amount = b.amount
      /\ \A x \in bids[l] : b.amount > x.amount
      /\ bids' = [bids EXCEPT ![l] = bids[l] \union {row}]
  BY DEF StoreBid, Accepted, BidArgs
<1>2. bids \in [Lots -> SUBSET BidRow]
  BY DEF TypeOK
<1>3. bids'[l] = bids[l] \union {row}
  BY <1>1, <1>2
<1>4. \A x \in bids[l] : x.amount \in Int /\ x.amount < row.amount
  <2>1. \A x \in bids[l] : x.amount \in Amounts
    BY <1>1, <1>2 DEF BidRow
  <2>2. QED
    BY <1>1, <2>1, AmountsAreIntegers
<1>5. row.amount \in Int
  BY <1>1, AmountsAreIntegers
<1> HIDE DEF row, b
<1>6. \A x \in bids'[l] : x.amount <= row.amount /\ x.amount \in Int
  BY <1>3, <1>4, <1>5
<1>7. \A x, y \in bids'[l] : x.amount = y.amount => x = y
  BY <1>1 DEF BidsRanked
<1>8. LastOf(bids'[l]) = row
  BY <1>3, <1>6, <1>7, LastOfRows
<1>9. QED
  BY <1>3, <1>8 DEF LastBid, row, b

\* The event SetLotSent stores.
LEMMA SentStored ==
  ASSUME TypeOK, BidsRanked, NEW l \in Lots, SetLotSent(l)
  PROVE  \E k : /\ StoredKept /\ NewEvents = {k}
                /\ stored'[k] = Ev("sent", LastBid(l).user, l, 0)
                /\ stored' \in Seq(StoredEvent)
<1>1. LastBid(l) \in BidRow
  BY LastBidIsGreatest DEF SetLotSent, TypeOK
<1>2. Ev("sent", LastBid(l).user, l, 0) \in StoredEvent
  BY <1>1, WidthAssumption DEF BidRow, Ev, StoredEvent, EventTypes, Raw
<1>3. Emit(Ev("sent", LastBid(l).user, l, 0)) /\ stored \in Seq(StoredEvent)
  BY DEF SetLotSent, TypeOK
<1> DEFINE ev == Ev("sent", LastBid(l).user, l, 0)
<1> HIDE DEF ev
<1>4. /\ stored' \in Seq(StoredEvent) /\ DOMAIN stored' = DOMAIN stored \union {Len(stored) + 1}
      /\ Len(stored) + 1 \notin DOMAIN stored /\ stored'[Len(stored) + 1] = ev
      /\ \A i \in DOMAIN stored : stored'[i] = stored[i]
  BY <1>2, <1>3, EmitFacts DEF ev
<1>5. StoredKept /\ NewEvents = {Len(stored) + 1}
  BY <1>4 DEF StoredKept, NewEvents
<1>6. QED
  BY <1>4, <1>5 DEF ev

LEMMA SentStep ==
  ASSUME TypeOK, BidsRanked, LocksAreShort, SnapshotSound, SentIsStored, [Next]_vars
  PROVE  SentIsStored'
<1>1. /\ lot \in [Lots -> [status : LotStatus, end : Nat]]
      /\ stored \in Seq(StoredEvent)
  BY DEF TypeOK
<1>2. ASSUME StoredKept,
             \A l \in Lots : lot'[l].status \in {"sent", "received"}
                               => lot[l].status \in {"sent", "received"}
      PROVE  SentIsStored'
  BY <1>2 DEF SentIsStored, StoredKept, Reports
<1>3. CASE UNCHANGED <<lot, stored>>
  BY <1>2, <1>3 DEF StoredKept
<1>4. ASSUME NEW ev \in StoredEvent, Emit(ev) PROVE StoredKept
  BY <1>1, <1>4, EmitFacts DEF StoredKept
<1>5. \A l \in Lots : bids[l] # {} => LastBid(l).user \in Users /\ LastBid(l).amount \in Raw
  <2>1. ASSUME NEW l \in Lots, bids[l] # {} PROVE LastBid(l) \in BidRow
    BY <2>1, LastBidIsGreatest DEF TypeOK
  <2>2. QED
    BY <2>1, AmountsAssumption DEF BidRow
<1>6. ASSUME NEW c \in Calls, StoreBid(c) PROVE SentIsStored'
  <2>1. arg[c] \in BidArgs
    BY <1>6 DEF TypeOK, StoreBid
  <2>2. StoredKept
    BY <1>6, <2>1, BidVerdict
  <2>3. QED
    BY <1>2, <1>6, <2>2, BidMovesEnd
<1>7. ASSUME NEW c \in Calls, SendCancelled(c) PROVE SentIsStored'
  <2>1. arg[c] \in BidArgs
    BY <1>7 DEF TypeOK, SendCancelled
  <2>2. Ev("cancelled", arg[c].user, arg[c].lot, arg[c].amount) \in StoredEvent
    BY <2>1, AmountsAssumption DEF BidArgs, Ev, StoredEvent, EventTypes
  <2>3. QED
    BY <1>2, <1>4, <1>7, <2>2 DEF SendCancelled
<1>8. ASSUME NEW l \in Lots, LifeOfLot(l) PROVE SentIsStored'
  <2>1. ASSUME NEW r, NEW d, CreateLot(l, r, d) PROVE SentIsStored'
    BY <1>1, <1>2, <2>1 DEF CreateLot, StoredKept
  <2>2. CASE SetLotSent(l)
    <3>1. PICK k : /\ StoredKept /\ NewEvents = {k}
                   /\ stored'[k] = Ev("sent", LastBid(l).user, l, 0)
      BY <2>2, SentStored
    <3>2. k \in Reports(l, {"sent"})'
      BY <3>1 DEF Reports, NewEvents, Ev
    <3>3. \A m \in Lots : m # l => lot'[m].status = lot[m].status
      BY <1>1, <2>2 DEF SetLotSent
    <3>4. \A m \in Lots : Reports(m, {"sent"}) \subseteq Reports(m, {"sent"})'
      BY <3>1 DEF Reports, StoredKept
    <3>5. QED
      BY <3>2, <3>3, <3>4 DEF SentIsStored
  <2>3. CASE ReceivedMayArrive(l) /\ SetLotReceived(l)
    <3>1. Ev("received", LastBid(l).user, l, LastBid(l).amount) \in StoredEvent
      BY <1>5, <2>3 DEF SetLotReceived, Ev, StoredEvent, EventTypes
    <3>2. StoredKept
      BY <1>4, <2>3, <3>1 DEF SetLotReceived
    <3>3. QED
      BY <1>1, <1>2, <2>3, <3>2 DEF SetLotReceived, ReceivedMayArrive
  <2>4. QED
    BY <1>8, <2>1, <2>2, <2>3 DEF LifeOfLot, HandleReport
<1>9. ASSUME NEW s \in snapshot, CompleteLot(s) PROVE SentIsStored'
  <2>1. s.lot \in Lots /\ Offer[s.lot].owner \in Users /\ 0 \in Raw
    BY ClockIsNat, AuctionAssumption, WidthAssumption DEF Raw
  <2>2. StoredKept
    <3>1. bids[s.lot] # {} => Ev("won", LastBid(s.lot).user, s.lot, 0) \in StoredEvent
      BY <1>5, <2>1 DEF Ev, StoredEvent, EventTypes
    <3>2. Ev("closed", Offer[s.lot].owner, s.lot, 0) \in StoredEvent
      BY <2>1 DEF Ev, StoredEvent, EventTypes
    <3>3. stored' = stored => StoredKept
      BY DEF StoredKept
    <3>4. QED
      BY <1>4, <1>9, <3>1, <3>2, <3>3 DEF CompleteLot
  <2>3. CASE lot' = lot
    BY <1>2, <2>2, <2>3
  <2>4. CASE lot' # lot
    <3>1. /\ lot[s.lot].status = "active"
          /\ \E st \in {"closed", "finished"} : lot' = [lot EXCEPT ![s.lot].status = st]
      BY <1>9, <2>4, CompletesActive
    <3>2. \A m \in Lots : lot'[m].status \in {lot[m].status, "closed", "finished"}
      BY <1>1, <2>1, <3>1
    <3>3. QED
      BY <1>2, <2>2, <3>2
  <2>5. QED
    BY <2>3, <2>4
<1>10. QED
  BY <1>3, <1>6, <1>7, <1>8, <1>9
     DEF Next, vars, lotVars, PayForBid, PlaceBid, CompleteLots, BillingWork,
         StartBid, ServePayment, ReceivePaid, ReceiveRefused, ReceiveOther, LosePayment,
         ServeLate, BeginBid, RejectBid, CancelGivesUp,
         ReadCompletedLots, CompletionFails, HandleStored, TopUpFunds, Crash, Tick

LEMMA DecidedStep ==
  ASSUME TypeOK, BidsRanked, BidsRanked', Outcome, [Next]_vars, NEW l \in Lots
  PROVE  Decided(l)'
<1>0. /\ lot \in [Lots -> [status : LotStatus, end : Nat]] /\ stored \in Seq(StoredEvent)
      /\ Decided(l)
  BY DEF TypeOK, Outcome
<1>1. CASE UNCHANGED <<lot, bids, stored>>
  BY <1>0, <1>1, StillDecided DEF StoredKept, NewEvents, LotOver
<1>2. ASSUME NEW ev \in StoredEvent, Emit(ev), ~IsVerdict(ev), bids' = bids,
             LotOver(l)' <=> LotOver(l)
      PROVE  Decided(l)'
  <2>1. StoredKept /\ \A i \in NewEvents : ~IsVerdict(stored'[i])
    BY <1>0, <1>2, EmitFacts DEF StoredKept, NewEvents
  <2>2. QED
    BY <1>0, <1>2, <2>1, StillDecided
<1>3. \A m \in Lots : bids[m] # {} => LastBid(m).user \in Users /\ LastBid(m).amount \in Raw
  <2>1. ASSUME NEW m \in Lots, bids[m] # {} PROVE LastBid(m) \in BidRow
    BY <2>1, LastBidIsGreatest DEF TypeOK
  <2>2. QED
    BY <2>1, AmountsAssumption DEF BidRow
<1>4. 0 \in Raw
  BY WidthAssumption DEF Raw
<1>5. ASSUME NEW c \in Calls, StoreBid(c) PROVE Decided(l)'
  <2>1. PICK b \in BidArgs : b = arg[c]
    BY <1>5 DEF TypeOK, StoreBid
  <2>2. StoredKept
    BY <1>5, <2>1, BidVerdict
  <2>3. /\ lot[b.lot].status = "active"
        /\ \A m \in Lots : m # b.lot => lot'[m] = lot[m] /\ bids'[m] = bids[m]
        /\ lot'[b.lot].status = IF BuysNow(b) THEN "finished" ELSE "active"
    BY <1>5, <2>1, BidMovesEnd DEF Outcome
  <2>4. \A i \in NewEvents : IsVerdict(stored'[i]) =>
          BuysNow(b) /\ stored'[i] = Ev("won", b.user, b.lot, 0)
    BY <1>5, <2>1, BidVerdict DEF IsVerdict
  <2>5. CASE l # b.lot
    BY <1>0, <2>2, <2>3, <2>4, <2>5, StillDecided DEF LotOver, Ev
  <2>6. CASE l = b.lot /\ ~BuysNow(b)
    <3>1. Verdicts(l)' = {} /\ ~LotOver(l)'
      BY <1>0, <2>2, <2>3, <2>4, <2>6, VerdictsGrow DEF LotOver, Decided
    <3>2. QED
      BY <3>1 DEF Decided
  <2>7. CASE l = b.lot /\ BuysNow(b)
    <3>1. PICK k \in NewEvents : /\ stored'[k] = Ev("won", b.user, l, 0)
                                 /\ \A i \in NewEvents : i # k => stored'[i].type = "outbid"
      BY <1>5, <2>1, <2>7, BidVerdict
    <3>2. bids'[l] # {} /\ LastBid(l)' = [user |-> b.user, amount |-> b.amount]
      BY <1>5, <2>1, <2>7, StoredBidLeads
    <3>3. RightVerdict(l, k)'
      BY <3>1, <3>2 DEF RightVerdict, Ev
    <3>4. /\ stored'[k].lot = l /\ IsVerdict(stored'[k])
          /\ \A i \in NewEvents : i # k => ~IsVerdict(stored'[i])
      BY <3>1 DEF IsVerdict, Ev
    <3>5. ~LotOver(l) /\ LotOver(l)'
      BY <2>3, <2>7 DEF LotOver
    <3>6. QED
      BY <1>0, <2>2, <3>3, <3>4, <3>5, NowDecided
  <2>8. QED
    BY <2>5, <2>6, <2>7
<1>6. ASSUME NEW c \in Calls, SendCancelled(c) PROVE Decided(l)'
  <2>1. PICK b \in BidArgs : b = arg[c]
    BY <1>6 DEF TypeOK, SendCancelled
  <2>2. /\ Ev("cancelled", b.user, b.lot, b.amount) \in StoredEvent
        /\ ~IsVerdict(Ev("cancelled", b.user, b.lot, b.amount))
    BY AmountsAssumption DEF BidArgs, Ev, StoredEvent, EventTypes, IsVerdict
  <2>3. QED
    BY <1>2, <1>6, <2>1, <2>2 DEF SendCancelled, LotOver
<1>7. ASSUME NEW m \in Lots, LifeOfLot(m) PROVE Decided(l)'
  <2>1. ASSUME NEW r, NEW d, CreateLot(m, r, d) PROVE Decided(l)'
    BY <1>0, <2>1, StillDecided DEF CreateLot, StoredKept, NewEvents, LotOver
  <2>2. CASE SentMayArrive(m) /\ SetLotSent(m)
    <3>1. Ev("sent", LastBid(m).user, m, 0) \in StoredEvent
          /\ ~IsVerdict(Ev("sent", LastBid(m).user, m, 0))
      BY <1>3, <1>4, <2>2 DEF SetLotSent, Ev, StoredEvent, EventTypes, IsVerdict
    <3>2. LotOver(l)' <=> LotOver(l)
      BY <1>0, <2>2 DEF SentMayArrive, SetLotSent, LotOver
    <3>3. QED
      BY <1>2, <2>2, <3>1, <3>2 DEF SetLotSent
  <2>3. CASE ReceivedMayArrive(m) /\ SetLotReceived(m)
    <3>1. Ev("received", LastBid(m).user, m, LastBid(m).amount) \in StoredEvent
          /\ ~IsVerdict(Ev("received", LastBid(m).user, m, LastBid(m).amount))
      BY <1>3, <2>3 DEF SetLotReceived, Ev, StoredEvent, EventTypes, IsVerdict
    <3>2. LotOver(l)' <=> LotOver(l)
      BY <1>0, <2>3 DEF ReceivedMayArrive, SetLotReceived, LotOver
    <3>3. QED
      BY <1>2, <2>3, <3>1, <3>2 DEF SetLotReceived
  <2>4. QED
    BY <1>7, <2>1, <2>2, <2>3 DEF LifeOfLot, HandleReport
<1>8. ASSUME NEW s \in snapshot, CompleteLot(s) PROVE Decided(l)'
  <2>1. CASE UNCHANGED <<lot, stored>>
    BY <1>1, <1>8, <2>1 DEF CompleteLot
  <2> DEFINE m == s.lot
             won == Ev("won", LastBid(m).user, m, 0)
             closed == Ev("closed", Offer[m].owner, m, 0)
  <2>2. m \in Lots
    BY ClockIsNat
  <2>3. CASE NotExtended(s)
    <3>1. lot[m].status = "active"
      BY <2>2, <2>3, ClockIsNat DEF NotExtended, Outcome, SnapshotSound
    <3>2. \E ev \in StoredEvent :
            /\ Emit(ev) /\ IsVerdict(ev) /\ ev.lot = m
            /\ IF ev.type = "won" THEN bids[m] # {} /\ ev.user = LastBid(m).user ELSE bids[m] = {}
            /\ \E st \in {"finished", "closed"} : lot' = [lot EXCEPT ![m].status = st]
      <4>1. CASE bids[m] # {}
        <5>1. won \in StoredEvent /\ IsVerdict(won) /\ won.lot = m /\ won.type = "won"
              /\ won.user = LastBid(m).user
          BY <1>3, <1>4, <2>2, <4>1 DEF Ev, StoredEvent, EventTypes, IsVerdict
        <5>2. Emit(won) /\ lot' = [lot EXCEPT ![m].status = "finished"]
          BY <1>8, <2>3, <4>1 DEF CompleteLot
        <5>3. QED
          BY <4>1, <5>1, <5>2
      <4>2. CASE bids[m] = {}
        <5>1. closed \in StoredEvent /\ IsVerdict(closed) /\ closed.lot = m
              /\ closed.type = "closed"
          BY <1>4, <2>2, AuctionAssumption DEF Ev, StoredEvent, EventTypes, IsVerdict
        <5>2. Emit(closed) /\ lot' = [lot EXCEPT ![m].status = "closed"]
          BY <1>8, <2>3, <4>2 DEF CompleteLot
        <5>3. QED
          BY <4>2, <5>1, <5>2
      <4>3. QED
        BY <4>1, <4>2
    <3>3. PICK ev \in StoredEvent, st \in {"finished", "closed"} :
            /\ Emit(ev) /\ IsVerdict(ev) /\ ev.lot = m
            /\ IF ev.type = "won" THEN bids[m] # {} /\ ev.user = LastBid(m).user ELSE bids[m] = {}
            /\ lot' = [lot EXCEPT ![m].status = st]
      BY <3>2
    <3>4. bids' = bids
      BY <1>8 DEF CompleteLot
    <3>5. PICK k : StoredKept /\ NewEvents = {k} /\ stored'[k] = ev
      BY <1>0, <3>3, EmitFacts DEF StoredKept, NewEvents
    <3> HIDE DEF m
    <3>6. CASE l # m
      <4>1. LotOver(l)' <=> LotOver(l)
        BY <1>0, <3>3, <3>6 DEF LotOver
      <4>2. QED
        BY <1>0, <3>3, <3>4, <3>5, <3>6, <4>1, StillDecided
    <3>7. CASE l = m
      <4>1. ~LotOver(l) /\ LotOver(l)'
        BY <1>0, <2>2, <3>1, <3>3, <3>7 DEF LotOver
      <4>2. LastBid(l)' = LastBid(l)
        BY <3>4 DEF LastBid
      <4>3. RightVerdict(l, k)'
        BY <3>3, <3>4, <3>5, <3>7, <4>2 DEF RightVerdict
      <4>4. QED
        BY <1>0, <3>3, <3>5, <3>7, <4>1, <4>3, NowDecided
    <3>8. QED
      BY <3>6, <3>7
  <2>4. QED
    BY <1>8, <2>1, <2>3 DEF CompleteLot
<1>9. QED
  BY <1>1, <1>5, <1>6, <1>7, <1>8
     DEF Next, vars, lotVars, PayForBid, PlaceBid, CompleteLots, BillingWork,
         StartBid, ServePayment, ReceivePaid, ReceiveRefused, ReceiveOther, LosePayment,
         ServeLate, BeginBid, RejectBid, CancelGivesUp,
         ReadCompletedLots, CompletionFails, HandleStored, TopUpFunds, Crash, Tick

----------------------------------------------------------------------------
(* Theorems.                                                               *)

LEMMA OutcomeInit == Init => Outcome
<1> SUFFICES ASSUME Init PROVE Outcome
  OBVIOUS
<1>1. (\A l \in Lots : lot[l].status = "none") /\ DOMAIN stored = {}
  <2>1. lot = [l \in Lots |-> [status |-> "none", end |-> 0]] /\ stored = <<>>
    BY DEF Init
  <2>2. DOMAIN << >> = {}
    OBVIOUS
  <2>3. QED
    BY <2>1, <2>2
<1>2. \A l \in Lots : Decided(l)
  BY <1>1 DEF Decided, LotOver, Verdicts
<1>3. QED
  BY <1>1, <1>2 DEF Init, Outcome, LocksAreShort, SnapshotSound, SentIsStored

\* What Outcome needs of AuctionProofs.
Typed == TypeOK /\ BidsRanked

LEMMA OutcomeStep == Typed /\ Typed' /\ Outcome /\ [Next]_vars => Outcome'
<1> SUFFICES ASSUME Typed, Typed', Outcome, [Next]_vars PROVE Outcome'
  OBVIOUS
<1>1. LocksAreShort' /\ SnapshotSound' /\ SentIsStored'
  BY LockStep, SnapshotStep, SentStep DEF Typed, Outcome
<1>2. \A l \in Lots : Decided(l)'
  BY DecidedStep DEF Typed
<1>3. QED
  BY <1>1, <1>2 DEF Outcome

LEMMA OutcomeInvariant ==
  ASSUME ~WrapAllowed
  PROVE  Spec => [](Typed /\ Outcome)
<1>1. Spec => []IInv
  BY IInvForever
<1>2. IInv => Typed
  BY DEF IInv, Typed
<1>3. QED
  BY <1>1, <1>2, OutcomeInit, OutcomeStep, PTL DEF Spec

\* A lot that is over was decided exactly once: lot_won names the last bidder,
\* lot_closed means nobody has bid (CompleteLot and the buy-it-now bid race).
THEOREM AuctionDecidedOnce ==
  ASSUME ~WrapAllowed
  PROVE  Spec => []OneVerdict
<1>1. Typed /\ Outcome => OneVerdict
  <2> SUFFICES ASSUME TypeOK, Outcome, NEW l \in Lots
               PROVE  /\ Cardinality(Verdicts(l)) = (IF lot[l].status \in {"none", "active"} THEN 0 ELSE 1)
                      /\ \A i \in Verdicts(l) : RightVerdict(l, i)
    BY DEF Typed, OneVerdict, RightVerdict
  <2>1. Decided(l)
    BY DEF Outcome
  <2>2. CASE LotOver(l)
    <3>1. PICK i : Verdicts(l) = {i} /\ RightVerdict(l, i)
      BY <2>1, <2>2 DEF Decided
    <3>2. Cardinality({i}) = 1
      BY FS_Singleton
    <3>3. QED
      BY <2>2, <3>1, <3>2 DEF LotOver
  <2>3. CASE ~LotOver(l)
    BY <2>1, <2>3, FS_EmptySet DEF Decided, LotOver
  <2>4. QED
    BY <2>2, <2>3
<1>2. QED
  BY <1>1, OutcomeInvariant, PTL

\* A second lot_sent event of a lot.
LEMMA SecondSent ==
  ASSUME TypeOK, BidsRanked, NEW l \in Lots, SetLotSent(l), Reports(l, {"sent"}) # {}
  PROVE  Cardinality(Reports(l, {"sent"})') > 1
<1>1. PICK k : /\ StoredKept /\ NewEvents = {k}
               /\ stored'[k] = Ev("sent", LastBid(l).user, l, 0)
               /\ stored' \in Seq(StoredEvent)
  BY SentStored
<1>2. PICK j : j \in Reports(l, {"sent"})
  OBVIOUS
<1>3. /\ j # k /\ {j, k} \subseteq Reports(l, {"sent"})'
      /\ Reports(l, {"sent"})' \subseteq DOMAIN stored'
  BY <1>1, <1>2 DEF Reports, StoredKept, NewEvents, Ev
<1>4. DOMAIN stored' = 1 .. Len(stored') /\ Len(stored') \in Nat
  BY <1>1
<1>5. IsFiniteSet(Reports(l, {"sent"})')
  <2>1. IsFiniteSet(1 .. Len(stored'))
    BY <1>4, FS_Interval
  <2>2. QED
    BY <1>3, <1>4, <2>1, FS_Subset
<1>6. Cardinality({j, k}) = 2
  <2>1. {j, k} = {j} \union {k} /\ k \notin {j}
    BY <1>3
  <2>2. IsFiniteSet({j}) /\ Cardinality({j}) = 1
    BY FS_Singleton
  <2>3. QED
    BY <2>1, <2>2, FS_AddElement
<1>7. /\ Cardinality({j, k}) <= Cardinality(Reports(l, {"sent"})')
      /\ Cardinality(Reports(l, {"sent"})') \in Nat
  BY <1>3, <1>5, FS_Subset, FS_CardinalityType
<1>8. QED
  BY <1>6, <1>7

\* How a step changes the status of a lot.
LEMMA StatusStep ==
  ASSUME Typed, Outcome, [Next]_vars, NEW l \in Lots, lot'[l].status # lot[l].status
  PROVE  \/ lot[l].status = "none" /\ lot'[l].status = "active"
         \/ /\ lot[l].status = "active" /\ lot'[l].status \in {"finished", "closed"}
            /\ \/ lot[l].end < now
               \/ \E b \in bids'[l] \ bids[l] :
                    Offer[l].buyNow # 0 /\ b.amount >= Offer[l].buyNow
         \/ lot[l].status = "finished" /\ lot'[l].status = "sent"
         \/ lot[l].status = "sent" /\ lot'[l].status = "received"
         \/ SentAgain(l)
<1> DEFINE Goal == \/ lot[l].status = "none" /\ lot'[l].status = "active"
                   \/ /\ lot[l].status = "active" /\ lot'[l].status \in {"finished", "closed"}
                      /\ \/ lot[l].end < now
                         \/ \E b \in bids'[l] \ bids[l] :
                              Offer[l].buyNow # 0 /\ b.amount >= Offer[l].buyNow
                   \/ lot[l].status = "finished" /\ lot'[l].status = "sent"
                   \/ lot[l].status = "sent" /\ lot'[l].status = "received"
                   \/ SentAgain(l)
<1>0. TypeOK /\ lot \in [Lots -> [status : LotStatus, end : Nat]]
  BY DEF Typed, TypeOK
<1>1. ASSUME NEW c \in Calls, StoreBid(c) PROVE Goal
  <2>1. PICK b \in BidArgs : b = arg[c]
    BY <1>0, <1>1 DEF TypeOK, StoreBid
  <2>2. l = b.lot /\ lot[l].status = "active" /\ BuysNow(b) /\ lot'[l].status = "finished"
    BY <1>0, <1>1, <2>1, BidMovesEnd DEF Outcome
  <2> DEFINE row == [user |-> b.user, amount |-> b.amount]
  <2>3. /\ bids'[l] = bids[l] \union {row} /\ row.amount = b.amount
        /\ \A x \in bids[l] : b.amount > x.amount
    BY <1>0, <1>1, <2>1, <2>2 DEF StoreBid, Accepted, TypeOK
  <2>4. b.amount \in Int
    BY AmountsAreIntegers DEF BidArgs
  <2> HIDE DEF row
  <2>5. row \notin bids[l]
    BY <2>3, <2>4
  <2>6. QED
    BY <2>2, <2>3, <2>5 DEF BuysNow
<1>2. ASSUME NEW m \in Lots, LifeOfLot(m) PROVE Goal
  <2>1. ASSUME NEW r, NEW d, CreateLot(m, r, d) PROVE Goal
    BY <1>0, <2>1 DEF CreateLot
  <2>2. CASE SentMayArrive(m) /\ SetLotSent(m)
    <3>1. /\ m = l /\ lot'[l].status = "sent"
          /\ lot[l].status \in {"finished", "received"}
      BY <1>0, <2>2 DEF SetLotSent, SentMayArrive
    <3>2. CASE lot[l].status = "received"
      <4>1. Reports(l, {"sent"}) # {}
        BY <3>2 DEF Outcome, SentIsStored
      <4>2. Cardinality(Reports(l, {"sent"})') > 1
        BY <2>2, <3>1, <4>1, SecondSent DEF Typed
      <4>3. QED
        BY <3>1, <3>2, <4>2 DEF SentAgain
    <3>3. QED
      BY <3>1, <3>2
  <2>3. CASE ReceivedMayArrive(m) /\ SetLotReceived(m)
    BY <1>0, <2>3 DEF SetLotReceived, ReceivedMayArrive
  <2>4. QED
    BY <1>2, <2>1, <2>2, <2>3 DEF LifeOfLot, HandleReport
<1>3. ASSUME NEW s \in snapshot, CompleteLot(s) PROVE Goal
  <2>1. /\ s.lot \in Lots /\ lot[s.lot].status = "active" /\ lot[s.lot].end < now
        /\ lot' = [lot EXCEPT ![s.lot].status =
                     IF bids[s.lot] = {} THEN "closed" ELSE "finished"]
    BY <1>0, <1>3, CompletesActive DEF Outcome
  <2>2. QED
    BY <1>0, <2>1
<1>4. QED
  BY <1>1, <1>2, <1>3
     DEF Next, vars, lotVars, PayForBid, PlaceBid, CompleteLots, BillingWork,
         StartBid, ServePayment, ReceivePaid, ReceiveRefused, ReceiveOther, LosePayment,
         ServeLate, BeginBid, RejectBid, SendCancelled, CancelGivesUp,
         ReadCompletedLots, CompletionFails, HandleStored, TopUpFunds, Crash, Tick

\* The status of a lot moves forward, although every handler overwrites it
\* without looking at it and Delivery may report a lot again and again, unless
\* a repeated lot_sent takes a received lot back to "sent".
THEOREM AuctionMovesForward ==
  ASSUME ~WrapAllowed
  PROVE  Spec => StatusMovesForward
<1>1. Typed /\ Outcome /\ [Next]_vars =>
        [\A l \in Lots : lot'[l].status # lot[l].status
           => Stage[lot'[l].status] > Stage[lot[l].status] \/ SentAgain(l)]_vars
  BY StatusStep DEF Stage
<1>2. QED
  BY <1>1, OutcomeInvariant, PTL DEF Spec, StatusMovesForward

\* An auction ends when its time, with the extensions, is over or by a bid at the
\* buy-it-now price.
THEOREM AuctionEndsOnTime ==
  ASSUME ~WrapAllowed
  PROVE  Spec => EndsOnTime
<1>1. Typed /\ Outcome /\ [Next]_vars =>
        [\A l \in Lots : lot[l].status = "active" /\ lot'[l].status # "active"
           => \/ lot[l].end < now
              \/ \E b \in bids'[l] \ bids[l] :
                   Offer[l].buyNow # 0 /\ b.amount >= Offer[l].buyNow]_vars
  BY StatusStep DEF SentAgain
<1>2. QED
  BY <1>1, OutcomeInvariant, PTL DEF Spec, EndsOnTime

\* Without late requests: what has been refused is not executed.
Refusals ==
  /\ \A c \in Calls : late[c] > 0 => pc[c] = "lost"
  /\ \A c \in Calls : pc[c] \in {"400", "refused"} => c \notin processedRequests

LEMMA RefusalsStep ==
  ASSUME ~Late, TypeOK, Refusals, [Next]_vars
  PROVE  Refusals'
<1>0. /\ pc \in [Calls -> {"idle"} \union Awaiting \union Charged \union Ended]
      /\ late \in [Calls -> Nat]
  BY DEF TypeOK
<1>1. ASSUME NEW c \in Calls, NEW to, At(c, to), UNCHANGED late, pc[c] # "lost",
             processedRequests' = processedRequests,
             to \in {"400", "refused"} => c \notin processedRequests
      PROVE  Refusals'
  BY <1>0, <1>1 DEF Refusals, At
<1>2. ASSUME UNCHANGED <<pc, late>>,
             \A c \in Calls : c \in processedRequests' => c \in processedRequests
      PROVE  Refusals'
  BY <1>2 DEF Refusals
<1>3. ASSUME NEW c \in Calls, ServePayment(c) PROVE Refusals'
  <2>1. pc[c] = "sent" /\ UNCHANGED late
    BY <1>3 DEF ServePayment
  <2>2. CASE ProcessLotPayment(c, arg[c].user, arg[c].lot, arg[c].amount) /\ At(c, "200")
    <3>1. pc' = [pc EXCEPT ![c] = "200"] /\ processedRequests' = processedRequests \union {c}
      BY <2>2 DEF At, ProcessLotPayment
    <3>2. QED
      BY <1>0, <2>1, <3>1 DEF Refusals
  <2>3. CASE PaymentRefused(c, arg[c].user, arg[c].lot, arg[c].amount) /\ At(c, "400")
             /\ UNCHANGED billingVars
    BY <1>1, <2>1, <2>3 DEF PaymentRefused, billingVars
  <2>4. CASE (At(c, "409") \/ At(c, "500")) /\ UNCHANGED billingVars
    BY <1>1, <2>1, <2>4 DEF billingVars
  <2>5. QED
    BY <1>3, <2>2, <2>3, <2>4 DEF ServePayment
<1>4. ASSUME NEW c \in Calls, PayForBid(c) PROVE Refusals'
  <2>1. CASE \E b \in Bids : StartBid(c, b)
    BY <1>1, <2>1 DEF StartBid, billingVars
  <2>2. CASE ReceivePaid(c)
    BY <1>1, <2>2 DEF ReceivePaid, PaymentConfirmed, billingVars
  <2>3. CASE ReceiveRefused(c)
    BY <1>1, <2>3 DEF ReceiveRefused, Refusals, billingVars
  <2>4. CASE ReceiveOther(c) \/ LosePayment(c)
    <3>1. pc[c] \in Awaiting /\ NextAttempt(c) /\ UNCHANGED <<billingVars, late>>
      BY <2>4 DEF ReceiveOther, LosePayment, Awaiting, Answers
    <3>2. QED
      BY <1>1, <3>1 DEF NextAttempt, Awaiting, Answers, billingVars
  <2>5. CASE ServeLate(c)
    <3>1. /\ pc[c] = "lost" /\ pc' = pc /\ late' = [late EXCEPT ![c] = late[c] - 1]
          /\ \/ processedRequests' = processedRequests \union {c}
             \/ processedRequests' = processedRequests
      BY <2>5 DEF ServeLate, Refusals, ProcessLotPayment, billingVars
    <3>2. \A d \in Calls : late'[d] > 0 => late[d] > 0
      BY <1>0, <3>1
    <3>3. QED
      BY <3>1, <3>2 DEF Refusals
  <2>6. QED
    BY <1>3, <1>4, <2>1, <2>2, <2>3, <2>4, <2>5 DEF PayForBid
<1>5. ASSUME NEW c \in Calls, PlaceBid(c) PROVE Refusals'
  BY <1>1, <1>5 DEF PlaceBid, BeginBid, StoreBid, RejectBid, SendCancelled, CancelGivesUp,
                    billingVars
<1>6. CASE Crash
  <2>1. /\ processedRequests' = processedRequests
        /\ pc' = [c \in Calls |-> IF pc[c] \in {"idle"} \union Ended THEN pc[c] ELSE "lost"]
        /\ late' = [c \in Calls |-> IF pc[c] = "sent" THEN late[c] + 1 ELSE late[c]]
    BY <1>6 DEF Crash, billingVars
  <2>2. \A c \in Calls : pc'[c] = "lost" \/ (pc'[c] = pc[c] /\ late'[c] = late[c])
    BY <2>1 DEF Ended
  <2>3. QED
    BY <2>1, <2>2 DEF Refusals
<1>7. ASSUME NEW i \in DOMAIN stored, HandleStored(i) PROVE Refusals'
  BY <1>2, <1>7 DEF HandleStored, HandleBidReleased, HandleLotReceived, MarkProcessed, callVars
<1>8. ASSUME NEW r \in Requests, NEW u \in Users, NEW a \in Amounts, TopUpFunds(r, u, a)
      PROVE  Refusals'
  BY <1>2, <1>8 DEF TopUpFunds, TopUpAccount, callVars
<1>9. QED
  BY <1>2, <1>4, <1>5, <1>6, <1>7, <1>8
     DEF Next, vars, billingVars, callVars, LifeOfLot, CompleteLots, BillingWork,
         CreateLot, HandleReport, SetLotSent, SetLotReceived,
         ReadCompletedLots, CompleteLot, CompletionFails, Tick

\* As long as no payment request is executed after the client gave it up, a
\* bidder whose payment is refused is not charged, whatever is lost and retried.
THEOREM AuctionRefusedNotCharged ==
  ASSUME ~WrapAllowed, ~Late
  PROVE  Spec => []RefusedNotCharged
<1>1. Init => Refusals
  <2>1. Init => \A c \in Calls : late[c] = 0 /\ pc[c] = "idle"
    BY DEF Init
  <2>2. QED
    BY <2>1 DEF Refusals
<1>2. TypeOK /\ Refusals /\ [Next]_vars => Refusals'
  BY RefusalsStep
<1>3. Refusals => RefusedNotCharged
  BY DEF Refusals, RefusedNotCharged
<1>4. Typed => TypeOK
  BY DEF Typed
<1>5. QED
  BY <1>1, <1>2, <1>3, <1>4, OutcomeInvariant, PTL DEF Spec
============================================================================
