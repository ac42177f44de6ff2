--------------------------- MODULE AuctionProofs ---------------------------
(***************************************************************************)
(* Theorems about Auction, for every set of lots, users, calls and bids,   *)
(* with crashes, abandoned calls and late requests.                        *)
(*                                                                         *)
(* FundsAccounted is proved by following each payment from holder to       *)
(* holder: an action leaves all debts as they are, hands one over, adds    *)
(* one (a payment) or removes one (a handled event).  A lot that Billing    *)
(* settles a second time leaves the lots the debts are accounted for.      *)
(***************************************************************************)
EXTENDS Auction, BillingProofs, SequenceTheorems

----------------------------------------------------------------------------
(* Debts in general.                                                       *)

\* What is accounted for on some lots is accounted for on fewer.
LEMMA FewerLots ==
  ASSUME NEW D, NEW acc, NEW L, NEW L2, Accounted(D, acc, L), L2 \subseteq L
  PROVE  Accounted(D, acc, L2)
BY DEF Accounted

\* Handing debts over: each new holder takes the place of one old holder.
LEMMA HandOver ==
  ASSUME NEW D, NEW E, NEW acc, NEW acc2, NEW L, NEW phi \in [DOMAIN E -> DOMAIN D],
         Accounted(D, acc, L),
         \A h \in DOMAIN E : E[h] = D[phi[h]],
         \A g, h \in DOMAIN E : phi[g] = phi[h] => g = h,
         \A d \in DOMAIN D : \E h \in DOMAIN E : phi[h] = d,
         \A h \in DOMAIN D : D[h].user \in Users,
         \A u \in Users, l \in L : acc2[u].lotBlocked[l] = acc[u].lotBlocked[l]
  PROVE  Accounted(E, acc2, L)
<1>1. ASSUME NEW h \in DOMAIN E, E[h].lot \in L
      PROVE  acc2[E[h].user].lotBlocked[E[h].lot] = E[h].amount
  BY <1>1 DEF Accounted
<1>2. ASSUME NEW g \in DOMAIN E, NEW h \in DOMAIN E,
             E[g].user = E[h].user, E[g].lot = E[h].lot, E[g].lot \in L
      PROVE  g = h
  <2>1. phi[g] = phi[h]
    BY <1>2 DEF Accounted
  <2>2. QED
    BY <2>1
<1>3. ASSUME NEW u \in Users, NEW l \in L, acc2[u].lotBlocked[l] # 0
      PROVE  \E h \in DOMAIN E : E[h].user = u /\ E[h].lot = l
  <2>1. PICK d \in DOMAIN D : D[d].user = u /\ D[d].lot = l
    BY <1>3 DEF Accounted
  <2>2. QED
    BY <2>1
<1>4. QED
  BY <1>1, <1>2, <1>3 DEF Accounted

\* A new payment, by a user for a lot for which he had nothing blocked.
LEMMA NewDebt ==
  ASSUME NEW D, NEW E, NEW acc, NEW acc2, NEW L, NEW n, NEW u, NEW l, NEW a,
         Accounted(D, acc, L),
         n \notin DOMAIN D, DOMAIN E = DOMAIN D \union {n},
         \A h \in DOMAIN D : E[h] = D[h] /\ D[h].user \in Users /\ D[h].amount # 0,
         E[n].user = u, E[n].lot = l, E[n].amount = a, u \in Users,
         acc[u].lotBlocked[l] = 0,
         \A v \in Users, m \in L :
           acc2[v].lotBlocked[m] = IF v = u /\ m = l THEN a ELSE acc[v].lotBlocked[m]
  PROVE  Accounted(E, acc2, L)
<1>1. ASSUME NEW h \in DOMAIN D, l \in L PROVE ~(D[h].user = u /\ D[h].lot = l)
  BY <1>1 DEF Accounted
<1>2. ASSUME NEW h \in DOMAIN E, E[h].lot \in L
      PROVE  acc2[E[h].user].lotBlocked[E[h].lot] = E[h].amount
  BY <1>1, <1>2 DEF Accounted
<1>3. ASSUME NEW g \in DOMAIN E, NEW h \in DOMAIN E,
             E[g].user = E[h].user, E[g].lot = E[h].lot, E[g].lot \in L
      PROVE  g = h
  BY <1>1, <1>3 DEF Accounted
<1>4. ASSUME NEW v \in Users, NEW m \in L, acc2[v].lotBlocked[m] # 0
      PROVE  \E h \in DOMAIN E : E[h].user = v /\ E[h].lot = m
  BY <1>4 DEF Accounted
<1>5. QED
  BY <1>2, <1>3, <1>4 DEF Accounted

\* The payment of holder n is released or becomes final.
LEMMA DebtPaid ==
  ASSUME NEW D, NEW E, NEW acc, NEW acc2, NEW L, NEW n \in DOMAIN D,
         Accounted(D, acc, L),
         DOMAIN E = DOMAIN D \ {n},
         \A h \in DOMAIN E : E[h] = D[h],
         \A h \in DOMAIN D : D[h].user \in Users,
         \A v \in Users, m \in L :
           acc2[v].lotBlocked[m] = IF v = D[n].user /\ m = D[n].lot
                                   THEN 0 ELSE acc[v].lotBlocked[m]
  PROVE  Accounted(E, acc2, L)
<1>1. ASSUME NEW h \in DOMAIN E, E[h].lot \in L
      PROVE  acc2[E[h].user].lotBlocked[E[h].lot] = E[h].amount
  BY <1>1 DEF Accounted
<1>2. ASSUME NEW g \in DOMAIN E, NEW h \in DOMAIN E,
             E[g].user = E[h].user, E[g].lot = E[h].lot, E[g].lot \in L
      PROVE  g = h
  BY <1>2 DEF Accounted
<1>3. ASSUME NEW v \in Users, NEW m \in L, acc2[v].lotBlocked[m] # 0
      PROVE  \E h \in DOMAIN E : E[h].user = v /\ E[h].lot = m
  BY <1>3 DEF Accounted
<1>4. QED
  BY <1>1, <1>2, <1>3 DEF Accounted

LEMMA AmountsAreIntegers == \A a \in Amounts : a \in Int
BY AmountsAssumption, WidthAssumption DEF Raw

\* The greatest of a set of rows in which no two have the same amount.
LEMMA LastOfRows ==
  ASSUME NEW R, NEW b \in R,
         \A x \in R : x.amount <= b.amount,
         \A x \in R : x.amount \in Int,
         \A x, y \in R : x.amount = y.amount => x = y
  PROVE  LastOf(R) = b
<1> DEFINE IsGreatest(r) == \A x \in R : x.amount <= r.amount
<1>1. \E r \in R : IsGreatest(r)
  OBVIOUS
<1>2. LastOf(R) = CHOOSE r \in R : IsGreatest(r)
  BY DEF LastOf
<1>3. LastOf(R) \in R /\ IsGreatest(LastOf(R))
  BY <1>1, <1>2
<1>4. LastOf(R).amount <= b.amount /\ b.amount <= LastOf(R).amount
      /\ b.amount \in Int /\ LastOf(R).amount \in Int
  BY <1>3
<1>5. LastOf(R).amount = b.amount
  BY <1>4
<1>6. QED
  BY <1>3, <1>5

----------------------------------------------------------------------------
(* The inductive invariant.                                                *)

AccountsSound ==
  /\ \A u \in Users : Sound(account[u])
  /\ \A u \in Users : account[u].created

\* Events about payments carry payable amounts.
StoredPayable ==
  \A i \in DOMAIN stored :
    stored[i].type \in {"outbid", "cancelled", "received"} => stored[i].amount \in Amounts

\* Billing handles only events that were stored.
ProcessedStored == processedEvents \subseteq DOMAIN stored

\* The rows of a lot are ranked by their amounts.
BidsRanked ==
  \A l \in Lots :
    /\ \A x, y \in bids[l] : x.amount = y.amount => x = y
    /\ bids[l] # {} => \E b \in bids[l] : \A x \in bids[l] : x.amount <= b.amount

\* No bid is stored any more for a lot that Delivery has reported on.
ReportedIsOver ==
  \A i \in DOMAIN stored :
    stored[i].type \in {"sent", "received"}
      => lot[stored[i].lot].status \notin {"none", "active"}

\* Every lot_received event carries the last bid, however many there are.
ReceiptsOfLast ==
  \A i \in DOMAIN stored :
    stored[i].type = "received"
      => /\ bids[stored[i].lot] # {}
         /\ stored[i].user = LastBid(stored[i].lot).user
         /\ stored[i].amount = LastBid(stored[i].lot).amount

\* Whether Billing has executed a call's payment.
CallsCharged ==
  \A c \in Calls :
    /\ pc[c] \in Charged \union {"200", "409", "done", "cancelled"} => c \in processedRequests
    /\ c \in processedRequests \/ late[c] > 0 => pc[c] # "idle"

IInv ==
  /\ TypeOK
  /\ AccountsSound
  /\ StoredPayable
  /\ ProcessedStored
  /\ BidsRanked
  /\ ReportedIsOver
  /\ ReceiptsOfLast
  /\ CallsCharged
  /\ FundsAccounted

----------------------------------------------------------------------------
(* The holders of the debts.                                               *)

HolderFacts ==
  /\ DOMAIN Debts = Holders
  /\ \A h \in Holders : \/ \E c \in Calls : h = <<"call", c>>
                        \/ \E i \in DOMAIN stored : h = <<"event", i>>
                        \/ \E l \in Lots : h = <<"bid", l>>
  /\ \A c : <<"call", c>> \in Holders <=> c \in Calls /\ CallHolds(c)
  /\ \A i : <<"event", i>> \in Holders <=> i \in DOMAIN stored /\ EventHolds(i)
  /\ \A l : <<"bid", l>> \in Holders <=> l \in Lots /\ BidHolds(l)
  /\ \A c : <<"call", c>> \in Holders
       => Debts[<<"call", c>>] = Debt(arg[c].user, arg[c].lot, arg[c].amount)
  /\ \A i : <<"event", i>> \in Holders
       => Debts[<<"event", i>>] = Debt(stored[i].user, stored[i].lot, stored[i].amount)
  /\ \A l : <<"bid", l>> \in Holders
       => Debts[<<"bid", l>>] = Debt(LastBid(l).user, l, LastBid(l).amount)

LEMMA HolderFactsHold == HolderFacts
<1>1. DOMAIN Debts = Holders /\ \A h \in Holders : Debts[h] = Held(h)
  BY DEF Debts
<1>2. \A h \in Holders : \/ \E c \in Calls : h = <<"call", c>>
                         \/ \E i \in DOMAIN stored : h = <<"event", i>>
                         \/ \E l \in Lots : h = <<"bid", l>>
  BY DEF Holders
<1>3. \A c : <<"call", c>> \in Holders <=> c \in Calls /\ CallHolds(c)
  BY DEF Holders
<1>4. \A i : <<"event", i>> \in Holders <=> i \in DOMAIN stored /\ EventHolds(i)
  BY DEF Holders
<1>5. \A l : <<"bid", l>> \in Holders <=> l \in Lots /\ BidHolds(l)
  BY DEF Holders
<1>6. \A c : Held(<<"call", c>>) = Debt(arg[c].user, arg[c].lot, arg[c].amount)
  BY DEF Held
<1>7. \A i : Held(<<"event", i>>)
               = Debt(stored[i].user, stored[i].lot, stored[i].amount)
  BY DEF Held
<1>8. \A l : Held(<<"bid", l>>) = Debt(LastBid(l).user, l, LastBid(l).amount)
  BY DEF Held
<1>9. QED
  BY <1>1, <1>2, <1>3, <1>4, <1>5, <1>6, <1>7, <1>8 DEF HolderFacts

LEMMA HolderFactsHoldNext == HolderFacts'
BY HolderFactsHold, PTL

\* A ranked set of rows has a last one.
LEMMA LastBidIsGreatest ==
  ASSUME BidsRanked, NEW l \in Lots, bids[l] # {}
  PROVE  LastBid(l) \in bids[l] /\ \A x \in bids[l] : x.amount <= LastBid(l).amount
BY DEF BidsRanked, LastBid, LastOf

LEMMA DebtsTyped ==
  ASSUME IInv
  PROVE  \A h \in DOMAIN Debts :
           /\ Debts[h].user \in Users /\ Debts[h].lot \in Lots
           /\ Debts[h].amount \in Amounts /\ Debts[h].amount # 0
<1>1. ASSUME NEW c \in Calls, CallHolds(c)
      PROVE  arg[c].user \in Users /\ arg[c].lot \in Lots /\ arg[c].amount \in Amounts
  BY <1>1 DEF IInv, CallsCharged, CallHolds, TypeOK, BidArgs
<1>2. ASSUME NEW i \in DOMAIN stored, EventHolds(i)
      PROVE  /\ stored[i].user \in Users /\ stored[i].lot \in Lots
             /\ stored[i].amount \in Amounts
  <2>1. stored \in Seq(StoredEvent) /\ stored[i].amount \in Amounts
    BY <1>2 DEF IInv, StoredPayable, EventHolds, TypeOK
  <2>2. stored[i] \in StoredEvent
    BY <2>1
  <2>3. QED
    BY <2>1, <2>2 DEF StoredEvent
<1>3. ASSUME NEW l \in Lots, BidHolds(l)
      PROVE  LastBid(l).user \in Users /\ LastBid(l).amount \in Amounts
  <2>1. LastBid(l) \in bids[l] /\ bids[l] \subseteq BidRow
    BY <1>3, LastBidIsGreatest DEF IInv, BidHolds, TypeOK
  <2>2. QED
    BY <2>1 DEF BidRow
<1>4. ASSUME NEW h \in Holders
      PROVE  /\ Debts[h].user \in Users /\ Debts[h].lot \in Lots
             /\ Debts[h].amount \in Amounts
  <2> DEFINE Good == /\ Debts[h].user \in Users /\ Debts[h].lot \in Lots
                     /\ Debts[h].amount \in Amounts
  <2>1. ASSUME NEW c \in Calls, h = <<"call", c>> PROVE Good
    <3>1. CallHolds(c) /\ Debts[h] = Debt(arg[c].user, arg[c].lot, arg[c].amount)
      BY <1>4, <2>1, HolderFactsHold DEF HolderFacts
    <3>2. QED
      BY <1>1, <3>1 DEF Debt
  <2>2. ASSUME NEW i \in DOMAIN stored, h = <<"event", i>> PROVE Good
    <3>1. /\ EventHolds(i)
          /\ Debts[h] = Debt(stored[i].user, stored[i].lot, stored[i].amount)
      BY <1>4, <2>2, HolderFactsHold DEF HolderFacts
    <3>2. QED
      BY <1>2, <3>1 DEF Debt
  <2>3. ASSUME NEW l \in Lots, h = <<"bid", l>> PROVE Good
    <3>1. BidHolds(l) /\ Debts[h] = Debt(LastBid(l).user, l, LastBid(l).amount)
      BY <1>4, <2>3, HolderFactsHold DEF HolderFacts
    <3>2. QED
      BY <1>3, <3>1 DEF Debt
  <2>4. \/ \E c \in Calls : h = <<"call", c>>
        \/ \E i \in DOMAIN stored : h = <<"event", i>>
        \/ \E l \in Lots : h = <<"bid", l>>
    BY HolderFactsHold DEF HolderFacts
  <2>5. QED
    BY <2>1, <2>2, <2>3, <2>4
<1>5. QED
  BY <1>4, AmountsAssumption, HolderFactsHold DEF Raw, HolderFacts

\* The lots Billing has settled depend on the events it has handled alone.
LEMMA SettledKept ==
  ASSUME ProcessedStored,
         processedEvents' = processedEvents,
         \A i \in DOMAIN stored : i \in DOMAIN stored' /\ stored'[i] = stored[i]
  PROVE  /\ \A l \in Lots : Settled(l)' <=> Settled(l)
         /\ SettledAtMostOnce' = SettledAtMostOnce
<1>1. ASSUME NEW l \in Lots PROVE Settlements(l)' = Settlements(l)
  <2>1. \A i : i \in Settlements(l)' <=> i \in Settlements(l)
    BY DEF Settlements, Reports, ProcessedStored
  <2>2. QED
    BY <2>1
<1>2. QED
  BY <1>1 DEF Settled, SettledAtMostOnce

LEMMA SettledOnceAreLots == \A l \in SettledAtMostOnce : l \in Lots
BY DEF SettledAtMostOnce

\* A step that moves no payment.
LEMMA QuietStep ==
  ASSUME IInv,
         \A u \in Users, l \in Lots :
           account'[u].lotBlocked[l] = account[u].lotBlocked[l],
         \A c \in Calls : c \in processedRequests' <=> c \in processedRequests,
         processedEvents' = processedEvents,
         bids' = bids,
         \A c \in Calls : c \in processedRequests =>
           /\ arg'[c] = arg[c]
           /\ pc'[c] \in {"done", "cancelled"} <=> pc[c] \in {"done", "cancelled"},
         \A i \in DOMAIN stored : i \in DOMAIN stored' /\ stored'[i] = stored[i],
         \A i \in DOMAIN stored' \ DOMAIN stored :
           stored'[i].type \notin {"outbid", "cancelled"}
  PROVE  FundsAccounted'
<1>0. /\ \A l \in Lots : Settled(l)' <=> Settled(l)
      /\ SettledAtMostOnce' = SettledAtMostOnce
  BY SettledKept DEF IInv
<1>1. \A c \in Calls : CallHolds(c)' <=> CallHolds(c)
  BY DEF CallHolds
<1>2. \A i \in DOMAIN stored : EventHolds(i)' <=> EventHolds(i)
  BY DEF EventHolds
<1>3. \A i \in DOMAIN stored' \ DOMAIN stored : ~EventHolds(i)'
  BY DEF EventHolds
<1>4. \A l \in Lots : BidHolds(l)' <=> BidHolds(l)
  BY <1>0 DEF BidHolds
<1>5. \A l \in Lots : LastBid(l)' = LastBid(l)
  BY DEF LastBid
<1>6. \A h : h \in Holders' <=> h \in Holders
  BY <1>1, <1>2, <1>3, <1>4, HolderFactsHold, HolderFactsHoldNext DEF HolderFacts
<1>7. ASSUME NEW h \in Holders PROVE Debts'[h] = Debts[h]
  <2>1. ASSUME NEW c \in Calls, h = <<"call", c>> PROVE Debts'[h] = Debts[h]
    <3>1. arg'[c] = arg[c]
      BY <1>7, <2>1, HolderFactsHold DEF HolderFacts, CallHolds
    <3>2. QED
      BY <1>6, <1>7, <2>1, <3>1, HolderFactsHold, HolderFactsHoldNext DEF HolderFacts
  <2>2. ASSUME NEW i \in DOMAIN stored, h = <<"event", i>> PROVE Debts'[h] = Debts[h]
    BY <1>6, <1>7, <2>2, HolderFactsHold, HolderFactsHoldNext DEF HolderFacts
  <2>3. ASSUME NEW l \in Lots, h = <<"bid", l>> PROVE Debts'[h] = Debts[h]
    BY <1>5, <1>6, <1>7, <2>3, HolderFactsHold, HolderFactsHoldNext DEF HolderFacts
  <2>4. QED
    BY <2>1, <2>2, <2>3, HolderFactsHold DEF HolderFacts
<1>8. DOMAIN Debts' = Holders /\ DOMAIN Debts = Holders
  BY <1>6, HolderFactsHold, HolderFactsHoldNext DEF HolderFacts
<1> DEFINE same == [h \in Holders |-> h]
<1>9. same \in [DOMAIN Debts' -> DOMAIN Debts]
  BY <1>8
<1>10. Accounted(Debts, account, SettledAtMostOnce)
  BY DEF IInv, FundsAccounted
<1>11. /\ \A h \in DOMAIN Debts : Debts[h].user \in Users
       /\ \A u \in Users, l \in SettledAtMostOnce :
            account'[u].lotBlocked[l] = account[u].lotBlocked[l]
  BY DebtsTyped, SettledOnceAreLots
<1>12. /\ \A h \in DOMAIN Debts' : Debts'[h] = Debts[same[h]]
       /\ \A g, h \in DOMAIN Debts' : same[g] = same[h] => g = h
       /\ \A d \in DOMAIN Debts : \E h \in DOMAIN Debts' : same[h] = d
  BY <1>7, <1>8
<1> HIDE DEF same
<1>13. Accounted(Debts', account', SettledAtMostOnce)
  BY <1>9, <1>10, <1>11, <1>12, HandOver
<1>14. QED
  BY <1>0, <1>13 DEF FundsAccounted

\* Billing executes the payment of a call: a debt more.
LEMMA PaymentAccounted ==
  ASSUME IInv, NEW c \in Calls, arg[c] \in BidArgs,
         ProcessLotPayment(c, arg[c].user, arg[c].lot, arg[c].amount),
         UNCHANGED <<arg, lotVars>>,
         \A d \in Calls :
           pc'[d] \in {"done", "cancelled"} <=> pc[d] \in {"done", "cancelled"}
  PROVE  FundsAccounted'
<1> DEFINE u == arg[c].user
           l == arg[c].lot
           a == arg[c].amount
           h0 == <<"call", c>>
<1>1. u \in Users /\ l \in Lots /\ a \in Amounts
  BY DEF BidArgs
<1>2. /\ c \notin processedRequests /\ processedRequests' = processedRequests \union {c}
      /\ processedEvents' = processedEvents
      /\ account' = [account EXCEPT ![u] = Block(@, l, a)]
      /\ account[u].lotBlocked[l] = 0
  BY DEF ProcessLotPayment, CanBlock
<1>3. /\ UNCHANGED <<arg, bids, stored>>
      /\ \A m \in Lots : Settled(m)' <=> Settled(m)
      /\ SettledAtMostOnce' = SettledAtMostOnce
  <2>1. UNCHANGED <<arg, bids, stored>>
    BY DEF lotVars
  <2>2. QED
    BY <1>2, <2>1, SettledKept DEF IInv
<1>4. pc[c] \notin {"done", "cancelled"}
  BY <1>2 DEF IInv, CallsCharged
<1>5. \A v \in Users, m \in Lots :
        account'[v].lotBlocked[m]
          = IF v = u /\ m = l THEN a ELSE account[v].lotBlocked[m]
  <2>1. account \in [Users -> AccountState]
    BY DEF IInv, TypeOK, BillingTypeOK
  <2>2. Block(account[u], l, a).lotBlocked = [account[u].lotBlocked EXCEPT ![l] = a]
    BY <1>1, <2>1 DEF Block, AccountState
  <2>3. account[u].lotBlocked \in [Lots -> Raw]
    BY <1>1, <2>1 DEF AccountState
  <2>4. QED
    BY <1>1, <1>2, <2>1, <2>2, <2>3
<1>6. /\ \A d \in Calls : CallHolds(d)' <=> CallHolds(d) \/ d = c
      /\ ~CallHolds(c)
      /\ \A i \in DOMAIN stored : EventHolds(i)' <=> EventHolds(i)
      /\ \A m \in Lots : BidHolds(m)' <=> BidHolds(m)
      /\ \A m \in Lots : LastBid(m)' = LastBid(m)
  BY <1>2, <1>3, <1>4 DEF CallHolds, EventHolds, BidHolds, LastBid
<1>7. /\ \A h : h \in Holders' <=> h \in Holders \/ h = h0
      /\ h0 \notin Holders
  BY <1>3, <1>6, HolderFactsHold, HolderFactsHoldNext DEF HolderFacts
<1>8. Debts'[h0] = Debt(u, l, a)
  BY <1>3, <1>7, HolderFactsHoldNext DEF HolderFacts
<1>9. ASSUME NEW h \in Holders PROVE Debts'[h] = Debts[h]
  <2>1. ASSUME NEW d \in Calls, h = <<"call", d>> PROVE Debts'[h] = Debts[h]
    BY <1>3, <1>7, <1>9, <2>1, HolderFactsHold, HolderFactsHoldNext DEF HolderFacts
  <2>2. ASSUME NEW i \in DOMAIN stored, h = <<"event", i>> PROVE Debts'[h] = Debts[h]
    BY <1>3, <1>7, <1>9, <2>2, HolderFactsHold, HolderFactsHoldNext DEF HolderFacts
  <2>3. ASSUME NEW m \in Lots, h = <<"bid", m>> PROVE Debts'[h] = Debts[h]
    BY <1>6, <1>7, <1>9, <2>3, HolderFactsHold, HolderFactsHoldNext DEF HolderFacts
  <2>4. QED
    BY <2>1, <2>2, <2>3, HolderFactsHold DEF HolderFacts
<1>10. DOMAIN Debts = Holders /\ DOMAIN Debts' = Holders \union {h0}
  BY <1>7, HolderFactsHold, HolderFactsHoldNext DEF HolderFacts
<1>11. Accounted(Debts, account, SettledAtMostOnce)
  BY DEF IInv, FundsAccounted
<1>12. \A h \in DOMAIN Debts : /\ Debts[h].user \in Users /\ Debts[h].lot \in Lots
                               /\ Debts[h].amount # 0
  BY DebtsTyped
<1>13. /\ Debts'[h0].user = u /\ Debts'[h0].lot = l /\ Debts'[h0].amount = a
       /\ account[u].lotBlocked[l] = 0
  BY <1>2, <1>8 DEF Debt
<1> HIDE DEF h0, u, l, a
<1>14. h0 \notin DOMAIN Debts /\ DOMAIN Debts' = DOMAIN Debts \union {h0}
  BY <1>7, <1>10
<1>15. \A h \in DOMAIN Debts :
         Debts'[h] = Debts[h] /\ Debts[h].user \in Users /\ Debts[h].amount # 0
  BY <1>9, <1>10, <1>12
<1>16. \A v \in Users, m \in SettledAtMostOnce :
         account'[v].lotBlocked[m]
           = IF v = u /\ m = l THEN a ELSE account[v].lotBlocked[m]
  BY <1>5, SettledOnceAreLots
<1>17. Accounted(Debts', account', SettledAtMostOnce)
  BY <1>1, <1>11, <1>13, <1>14, <1>15, <1>16, NewDebt
<1>18. QED
  BY <1>3, <1>17 DEF FundsAccounted

\* What Billing does with an event: it releases the payment or makes it final.
LEMMA EventUnblocks ==
  ASSUME IInv, NEW i \in DOMAIN stored, HandleStored(i)
  PROVE  /\ stored[i].user \in Users /\ stored[i].lot \in Lots
         /\ i \notin processedEvents /\ processedEvents' = processedEvents \union {i}
         /\ processedRequests' = processedRequests
         /\ stored[i].type \in {"outbid", "cancelled", "received"}
         /\ UNCHANGED <<pc, arg, bids, stored>>
         /\ \A v \in Users, m \in Lots :
              account'[v].lotBlocked[m]
                = IF v = stored[i].user /\ m = stored[i].lot
                  THEN 0 ELSE account[v].lotBlocked[m]
<1> DEFINE ev == stored[i]
<1>1. ev \in StoredEvent
  BY DEF IInv, TypeOK
<1>2. ev.user \in Users /\ ev.lot \in Lots
  BY <1>1 DEF StoredEvent
<1>3. /\ i \notin processedEvents /\ processedEvents' = processedEvents \union {i}
      /\ processedRequests' = processedRequests
      /\ ev.type \in {"outbid", "cancelled", "received"}
  BY DEF HandleStored, HandleBidReleased, HandleLotReceived, MarkProcessed
<1>4. UNCHANGED <<pc, arg, bids, stored>>
  BY DEF HandleStored, callVars, lotVars
<1>5. account \in [Users -> AccountState]
  BY DEF IInv, TypeOK, BillingTypeOK
<1>6. \A v \in Users, m \in Lots :
        account'[v].lotBlocked[m]
          = IF v = ev.user /\ m = ev.lot THEN 0 ELSE account[v].lotBlocked[m]
  <2>1. account[ev.user].lotBlocked \in [Lots -> Raw]
    BY <1>2, <1>5 DEF AccountState
  <2>2. CASE HandleBidReleased(i, ev.user, ev.lot, ev.amount)
    <3>1. account' = [account EXCEPT ![ev.user] = Unblock(@, ev.lot, ev.amount)]
      BY <2>2 DEF HandleBidReleased
    <3>2. Unblock(account[ev.user], ev.lot, ev.amount).lotBlocked
            = [account[ev.user].lotBlocked EXCEPT ![ev.lot] = 0]
      BY <1>2, <1>5 DEF Unblock, AccountState
    <3>3. QED
      BY <1>2, <1>5, <2>1, <3>1, <3>2
  <2>3. CASE HandleLotReceived(i, Offer[ev.lot].owner, ev.user, ev.lot, ev.amount)
    <3> DEFINE o == Offer[ev.lot].owner
               paid == [account EXCEPT ![ev.user] = Finish(@, ev.lot, ev.amount)]
    <3>1. account' = [paid EXCEPT ![o] = Receive(@, ev.amount)]
      BY <2>3 DEF HandleLotReceived
    <3>2. Finish(account[ev.user], ev.lot, ev.amount).lotBlocked
            = [account[ev.user].lotBlocked EXCEPT ![ev.lot] = 0]
      BY <1>2, <1>5 DEF Finish, AccountState
    <3>3. \A acc, x : DOMAIN acc = DOMAIN EmptyAccount
                        => Receive(acc, x).lotBlocked = acc.lotBlocked
      BY DEF Receive, EmptyAccount
    <3>4. \A v \in Users : DOMAIN paid[v] = DOMAIN EmptyAccount
      BY <1>2, <1>5 DEF Finish, AccountState, EmptyAccount
    <3>5. \A v \in Users : account'[v].lotBlocked = paid[v].lotBlocked
      BY <3>1, <3>3, <3>4, <1>5
    <3>6. QED
      BY <1>2, <1>5, <2>1, <3>2, <3>5
  <2>4. QED
    BY <2>2, <2>3 DEF HandleStored
<1>7. QED
  BY <1>2, <1>3, <1>4, <1>6

\* What handling an event does to the settlements: a lot_received event is one
\* more settlement of its lot.
LEMMA EventSettles ==
  ASSUME IInv, NEW i \in DOMAIN stored, HandleStored(i)
  PROVE  /\ \A m \in Lots : Settled(m)' <=> \/ Settled(m)
                                            \/ m = stored[i].lot /\ stored[i].type = "received"
         /\ SettledAtMostOnce' \subseteq SettledAtMostOnce
         /\ Settled(stored[i].lot) /\ stored[i].type = "received"
              => stored[i].lot \notin SettledAtMostOnce'
<1>1. /\ i \notin processedEvents /\ processedEvents' = processedEvents \union {i}
      /\ stored' = stored /\ stored[i].lot \in Lots
  BY EventUnblocks
<1>2. \A m \in Lots : Settlements(m)' =
        Settlements(m) \union
          {j \in {i} : m = stored[i].lot /\ stored[i].type = "received"}
  BY <1>1 DEF Settlements, Reports
<1>3. i \notin Settlements(stored[i].lot)
  BY <1>1 DEF Settlements
<1>4. \A m \in Lots : Settled(m)' <=> \/ Settled(m)
                                      \/ m = stored[i].lot /\ stored[i].type = "received"
  BY <1>2 DEF Settled
<1>5. ASSUME NEW m \in SettledAtMostOnce' PROVE m \in SettledAtMostOnce
  <2>1. m \in Lots /\ \A j, k \in Settlements(m)' : j = k
    BY <1>5 DEF SettledAtMostOnce
  <2>2. Settlements(m) \subseteq Settlements(m)'
    BY <1>2, <2>1
  <2>3. QED
    BY <2>1, <2>2 DEF SettledAtMostOnce
<1>6. ASSUME Settled(stored[i].lot), stored[i].type = "received"
      PROVE  stored[i].lot \notin SettledAtMostOnce'
  <2>1. PICK j : j \in Settlements(stored[i].lot)
    BY <1>6 DEF Settled
  <2>2. /\ j \in Settlements(stored[i].lot)' /\ i \in Settlements(stored[i].lot)'
        /\ i # j
    BY <1>1, <1>2, <1>3, <1>6, <2>1
  <2>3. SettledAtMostOnce' = {m \in Lots : \A x, y \in Settlements(m)' : x = y}
    BY DEF SettledAtMostOnce
  <2>4. stored'[i].lot = stored[i].lot
    BY <1>1
  <2>5. QED
    BY <2>2, <2>3, <2>4
<1>7. QED
  BY <1>4, <1>5, <1>6

\* A debt of the user and the lot of an event is paid by the event.
LEMMA EventPays ==
  ASSUME IInv, NEW i \in DOMAIN stored, HandleStored(i), NEW n,
         n \in Holders, \A h : h \in Holders' <=> h \in Holders /\ h # n,
         \A h \in Holders' : Debts'[h] = Debts[h],
         Debts[n].user = stored[i].user, Debts[n].lot = stored[i].lot
  PROVE  FundsAccounted'
<1>1. DOMAIN Debts = Holders /\ DOMAIN Debts' = Holders'
  BY HolderFactsHold, HolderFactsHoldNext DEF HolderFacts
<1>2. Accounted(Debts, account, SettledAtMostOnce')
  <2>1. SettledAtMostOnce' \subseteq SettledAtMostOnce
    BY EventSettles
  <2>2. Accounted(Debts, account, SettledAtMostOnce)
    BY DEF IInv, FundsAccounted
  <2>3. QED
    BY <2>1, <2>2, FewerLots
<1>3. \A h \in DOMAIN Debts : Debts[h].user \in Users
  BY DebtsTyped
<1>4. \A m \in SettledAtMostOnce' : m \in Lots
  BY EventSettles, SettledOnceAreLots
<1>5. \A v \in Users, m \in SettledAtMostOnce' :
        account'[v].lotBlocked[m]
          = IF v = Debts[n].user /\ m = Debts[n].lot
            THEN 0 ELSE account[v].lotBlocked[m]
  BY <1>4, EventUnblocks
<1>6. /\ n \in DOMAIN Debts /\ DOMAIN Debts' = DOMAIN Debts \ {n}
      /\ \A h \in DOMAIN Debts' : Debts'[h] = Debts[h]
  BY <1>1
<1>7. Accounted(Debts', account', SettledAtMostOnce')
  BY <1>2, <1>3, <1>5, <1>6, DebtPaid
<1>8. QED
  BY <1>7 DEF FundsAccounted

\* Billing handles an event: the debt it carries, or for the first
\* lot_received event of a lot the debt of the last bid, is gone.  After a
\* second one the lot is no longer accounted for.
LEMMA EventAccounted ==
  ASSUME IInv, NEW i \in DOMAIN stored, HandleStored(i)
  PROVE  FundsAccounted'
<1> DEFINE ev == stored[i]
           l == ev.lot
<1>1. /\ ev.user \in Users /\ l \in Lots
      /\ i \notin processedEvents /\ processedEvents' = processedEvents \union {i}
      /\ processedRequests' = processedRequests
      /\ ev.type \in {"outbid", "cancelled", "received"}
      /\ UNCHANGED <<pc, arg, bids, stored>>
  BY EventUnblocks
<1>2. /\ \A d \in Calls : CallHolds(d)' <=> CallHolds(d)
      /\ \A j \in DOMAIN stored : EventHolds(j)' <=> EventHolds(j) /\ j # i
      /\ EventHolds(i) <=> ev.type # "received"
      /\ \A m \in Lots : LastBid(m)' = LastBid(m)
  BY <1>1 DEF CallHolds, EventHolds, LastBid
<1>3. \A m \in Lots : BidHolds(m)' <=> BidHolds(m) /\ ~(m = l /\ ev.type = "received")
  BY <1>1, EventSettles DEF BidHolds
<1>4. /\ \A h : h \in Holders'
                  <=> /\ h \in Holders
                      /\ h # <<"event", i>>
                      /\ ev.type = "received" => h # <<"bid", l>>
      /\ <<"event", i>> \in Holders <=> ev.type # "received"
  BY <1>1, <1>2, <1>3, HolderFactsHold, HolderFactsHoldNext DEF HolderFacts
<1>5. ASSUME NEW h \in Holders' PROVE Debts'[h] = Debts[h]
  <2>1. ASSUME NEW d \in Calls, h = <<"call", d>> PROVE Debts'[h] = Debts[h]
    BY <1>1, <1>4, <1>5, <2>1, HolderFactsHold, HolderFactsHoldNext DEF HolderFacts
  <2>2. ASSUME NEW j \in DOMAIN stored, h = <<"event", j>> PROVE Debts'[h] = Debts[h]
    BY <1>1, <1>4, <1>5, <2>2, HolderFactsHold, HolderFactsHoldNext DEF HolderFacts
  <2>3. ASSUME NEW m \in Lots, h = <<"bid", m>> PROVE Debts'[h] = Debts[h]
    BY <1>2, <1>4, <1>5, <2>3, HolderFactsHold, HolderFactsHoldNext DEF HolderFacts
  <2>4. QED
    BY <1>4, <1>5, <2>1, <2>2, <2>3, HolderFactsHold DEF HolderFacts
<1>6. CASE ev.type # "received"
  <2>1. /\ <<"event", i>> \in Holders
        /\ \A h : h \in Holders' <=> h \in Holders /\ h # <<"event", i>>
    BY <1>4, <1>6
  <2>2. Debts[<<"event", i>>] = Debt(ev.user, l, ev.amount)
    BY <2>1, HolderFactsHold DEF HolderFacts
  <2>3. QED
    BY <1>5, <2>1, <2>2, EventPays DEF Debt
<1>7. CASE ev.type = "received" /\ ~Settled(l)
  <2>1. bids[l] # {} /\ ev.user = LastBid(l).user
    BY <1>7 DEF IInv, ReceiptsOfLast
  <2>2. <<"bid", l>> \in Holders
    BY <1>1, <1>7, <2>1, HolderFactsHold DEF HolderFacts, BidHolds
  <2>3. \A h : h \in Holders' <=> h \in Holders /\ h # <<"bid", l>>
    BY <1>4, <1>7
  <2>4. Debts[<<"bid", l>>] = Debt(ev.user, l, LastBid(l).amount)
    BY <2>1, <2>2, HolderFactsHold DEF HolderFacts
  <2>5. QED
    BY <1>5, <2>2, <2>3, <2>4, EventPays DEF Debt
<1>8. CASE ev.type = "received" /\ Settled(l)
  <2>1. <<"bid", l>> \notin Holders
    BY <1>1, <1>8, HolderFactsHold DEF HolderFacts, BidHolds
  <2>2. \A h : h \in Holders' <=> h \in Holders
    BY <1>4, <1>8, <2>1
  <2>3. DOMAIN Debts = Holders /\ DOMAIN Debts' = Holders
    BY <2>2, HolderFactsHold, HolderFactsHoldNext DEF HolderFacts
  <2>4. SettledAtMostOnce' \subseteq SettledAtMostOnce /\ l \notin SettledAtMostOnce'
    BY <1>8, EventSettles
  <2>5. \A v \in Users, m \in SettledAtMostOnce' :
          account'[v].lotBlocked[m] = account[v].lotBlocked[m]
    <3>1. \A m \in SettledAtMostOnce' : m \in Lots /\ m # l
      BY <2>4, SettledOnceAreLots
    <3>2. QED
      BY <3>1, EventUnblocks
  <2> DEFINE same == [h \in Holders |-> h]
  <2>6. /\ same \in [DOMAIN Debts' -> DOMAIN Debts]
        /\ \A h \in DOMAIN Debts' : Debts'[h] = Debts[same[h]]
        /\ \A g, h \in DOMAIN Debts' : same[g] = same[h] => g = h
        /\ \A d \in DOMAIN Debts : \E h \in DOMAIN Debts' : same[h] = d
    BY <1>5, <2>2, <2>3
  <2> HIDE DEF same
  <2>7. Accounted(Debts, account, SettledAtMostOnce')
    BY <2>4, FewerLots DEF IInv, FundsAccounted
  <2>8. \A h \in DOMAIN Debts : Debts[h].user \in Users
    BY DebtsTyped
  <2>9. Accounted(Debts', account', SettledAtMostOnce')
    BY <2>5, <2>6, <2>7, <2>8, HandOver
  <2>10. QED
    BY <2>9 DEF FundsAccounted
<1>9. QED
  BY <1>6, <1>7, <1>8

\* A step that hands debts over, described by a map from the new holders to
\* the old ones.
LEMMA HandOverStep ==
  ASSUME IInv, UNCHANGED account, SettledAtMostOnce' = SettledAtMostOnce,
         NEW phi \in [Holders' -> Holders],
         \A h \in Holders' : Debts'[h] = Debts[phi[h]],
         \A g, h \in Holders' : phi[g] = phi[h] => g = h,
         \A d \in Holders : \E h \in Holders' : phi[h] = d
  PROVE  FundsAccounted'
<1>1. DOMAIN Debts = Holders /\ DOMAIN Debts' = Holders'
  BY HolderFactsHold, HolderFactsHoldNext DEF HolderFacts
<1>2. Accounted(Debts, account, SettledAtMostOnce)
  BY DEF IInv, FundsAccounted
<1>3. \A h \in DOMAIN Debts : Debts[h].user \in Users
  BY DebtsTyped
<1>4. phi \in [DOMAIN Debts' -> DOMAIN Debts]
  BY <1>1
<1>5. Accounted(Debts', account', SettledAtMostOnce)
  BY <1>1, <1>2, <1>3, <1>4, HandOver
<1>6. QED
  BY <1>5 DEF FundsAccounted

\* Appending one event.
LEMMA EmitFacts ==
  ASSUME stored \in Seq(StoredEvent), NEW ev \in StoredEvent, Emit(ev)
  PROVE  /\ stored' \in Seq(StoredEvent)
         /\ DOMAIN stored' = DOMAIN stored \union {Len(stored) + 1}
         /\ Len(stored) + 1 \notin DOMAIN stored
         /\ \A i \in DOMAIN stored : stored'[i] = stored[i]
         /\ stored'[Len(stored) + 1] = ev
BY DEF Emit

\* bid_cancelled takes over from the call.
LEMMA CancelAccounted ==
  ASSUME IInv, NEW c \in Calls, SendCancelled(c)
  PROVE  FundsAccounted'
<1>0. PICK k : k = Len(stored) + 1
  OBVIOUS
<1> DEFINE b == arg[c]
           old == <<"call", c>>
           new == <<"event", k>>
           phi == [h \in Holders' |-> IF h = new THEN old ELSE h]
<1>1. b \in BidArgs /\ stored \in Seq(StoredEvent) /\ pc \in [Calls -> {"idle"} \union Awaiting \union Charged \union Ended]
  BY DEF IInv, TypeOK, SendCancelled
<1>2. Ev("cancelled", b.user, b.lot, b.amount) \in StoredEvent
  BY <1>1, AmountsAssumption DEF BidArgs, Ev, StoredEvent, EventTypes
<1>3. /\ DOMAIN stored' = DOMAIN stored \union {k}
      /\ k \notin DOMAIN stored
      /\ \A i \in DOMAIN stored : stored'[i] = stored[i]
      /\ stored'[k] = Ev("cancelled", b.user, b.lot, b.amount)
  BY <1>0, <1>1, <1>2, EmitFacts DEF SendCancelled
<1>4. /\ UNCHANGED <<account, processedRequests, processedEvents, arg, bids>>
      /\ pc[c] = "failed" /\ pc' = [pc EXCEPT ![c] = "cancelled"]
  BY DEF SendCancelled, At, billingVars
<1>4a. /\ \A m \in Lots : Settled(m)' <=> Settled(m)
       /\ SettledAtMostOnce' = SettledAtMostOnce
  BY <1>3, <1>4, SettledKept DEF IInv
<1>5. CallHolds(c)
  BY <1>4 DEF IInv, CallsCharged, CallHolds, Charged
<1>6. /\ \A d \in Calls : CallHolds(d)' <=> CallHolds(d) /\ d # c
      /\ \A i \in DOMAIN stored : EventHolds(i)' <=> EventHolds(i)
      /\ \A m \in Lots : BidHolds(m)' <=> BidHolds(m)
      /\ \A m \in Lots : LastBid(m)' = LastBid(m)
  BY <1>1, <1>3, <1>4, <1>4a DEF CallHolds, EventHolds, BidHolds, LastBid
<1>7. EventHolds(k)'
  BY <1>3, <1>4 DEF EventHolds, IInv, ProcessedStored, Ev
<1>8. /\ \A h : h \in Holders' <=> (h \in Holders /\ h # old) \/ h = new
      /\ old \in Holders /\ new \notin Holders
  BY <1>3, <1>5, <1>6, <1>7, HolderFactsHold, HolderFactsHoldNext DEF HolderFacts
<1>9. Debts'[new] = Debts[old]
  BY <1>3, <1>4, <1>8, HolderFactsHold, HolderFactsHoldNext DEF HolderFacts, Ev
<1>10. ASSUME NEW h \in Holders', h # new PROVE Debts'[h] = Debts[h]
  <2>1. ASSUME NEW d \in Calls, h = <<"call", d>> PROVE Debts'[h] = Debts[h]
    BY <1>4, <1>8, <1>10, <2>1, HolderFactsHold, HolderFactsHoldNext DEF HolderFacts
  <2>2. ASSUME NEW i \in DOMAIN stored, h = <<"event", i>> PROVE Debts'[h] = Debts[h]
    BY <1>3, <1>8, <1>10, <2>2, HolderFactsHold, HolderFactsHoldNext DEF HolderFacts
  <2>3. ASSUME NEW m \in Lots, h = <<"bid", m>> PROVE Debts'[h] = Debts[h]
    BY <1>6, <1>8, <1>10, <2>3, HolderFactsHold, HolderFactsHoldNext DEF HolderFacts
  <2>4. QED
    BY <1>8, <1>10, <2>1, <2>2, <2>3, HolderFactsHold DEF HolderFacts
<1> HIDE DEF old, new
<1>11. phi \in [Holders' -> Holders]
  BY <1>8
<1>12. /\ \A h \in Holders' : Debts'[h] = Debts[phi[h]]
       /\ \A g, h \in Holders' : phi[g] = phi[h] => g = h
       /\ \A d \in Holders : \E h \in Holders' : phi[h] = d
  BY <1>8, <1>9, <1>10
<1> HIDE DEF phi
<1>13. QED
  BY <1>4, <1>4a, <1>11, <1>12, HandOverStep

LEMMA TwoSingletons == ASSUME NEW x, NEW y PROVE <<x>> \o <<y>> = <<x, y>>
<1> DEFINE s == <<x>> \o <<y>>
<1>1. <<x>> \in Seq({x, y}) /\ <<y>> \in Seq({x, y}) /\ <<x, y>> \in Seq({x, y})
  OBVIOUS
<1>2. /\ s \in Seq({x, y}) /\ Len(s) = 2
      /\ \A i \in 1 .. 2 : s[i] = IF i <= 1 THEN <<x>>[i] ELSE <<y>>[i - 1]
  BY <1>1, ConcatProperties
<1>3. \A i \in 1 .. 2 : s[i] = <<x, y>>[i]
  BY <1>2
<1>4. QED
  BY <1>1, <1>2, <1>3, SeqEqual

\* What a stored bid appends: at most a lot_won event, and a bid_outbid event
\* for the bid it beats if there is one.
LEMMA BidEventFacts ==
  ASSUME TypeOK, BidsRanked, NEW c \in Calls, arg[c] \in BidArgs, StoreBid(c)
  PROVE  LET l == arg[c].lot
             last == LastBid(l)
         IN  /\ stored' \in Seq(StoredEvent)
             /\ \A i \in DOMAIN stored : i \in DOMAIN stored' /\ stored'[i] = stored[i]
             /\ bids[l] = {} =>
                  \A i \in DOMAIN stored' \ DOMAIN stored : stored'[i].type = "won"
             /\ bids[l] # {} =>
                  \E k \in DOMAIN stored' \ DOMAIN stored :
                    /\ stored'[k] = Ev("outbid", last.user, l, last.amount)
                    /\ \A i \in DOMAIN stored' \ DOMAIN stored :
                         i # k => stored'[i].type = "won"
<1> DEFINE b == arg[c]
           l == b.lot
           last == LastBid(l)
           won == Ev("won", b.user, l, 0)
           outbid == Ev("outbid", last.user, l, last.amount)
<1>1. stored \in Seq(StoredEvent) /\ stored' = stored \o BidEvents(b)
  BY DEF TypeOK, StoreBid
<1>2. won \in StoredEvent
  BY WidthAssumption DEF BidArgs, Ev, StoredEvent, EventTypes, Raw
<1>3. bids[l] # {} => outbid \in StoredEvent
  <2>1. l \in Lots /\ bids[l] \subseteq BidRow
    BY DEF BidArgs, TypeOK
  <2>2. bids[l] # {} => last \in BidRow
    BY <2>1, LastBidIsGreatest
  <2>3. QED
    BY <2>1, <2>2, AmountsAssumption DEF BidRow, Ev, StoredEvent, EventTypes
<1>4. won.type = "won" /\ BidEvents(b) =
        (IF BuysNow(b) THEN <<won>> ELSE <<>>)
          \o (IF bids[l] # {} THEN <<outbid>> ELSE <<>>)
  BY DEF BidEvents, Ev
<1> HIDE DEF won, outbid, b, l
<1>5. CASE bids[l] = {} /\ BuysNow(b)
  <2>1. BidEvents(b) = <<won>>
    BY <1>4, <1>5
  <2>2. /\ stored' \in Seq(StoredEvent)
        /\ \A i \in DOMAIN stored : i \in DOMAIN stored' /\ stored'[i] = stored[i]
        /\ \A i \in DOMAIN stored' \ DOMAIN stored : stored'[i] = won
    BY <1>1, <1>2, <2>1
  <2>3. QED
    BY <1>4, <1>5, <2>2 DEF b, l
<1>6. CASE bids[l] = {} /\ ~BuysNow(b)
  <2>1. BidEvents(b) = <<>>
    BY <1>4, <1>6
  <2>2. stored' = stored
    BY <1>1, <2>1
  <2>3. QED
    BY <1>1, <1>6, <2>2 DEF b, l
<1>7. CASE bids[l] # {} /\ BuysNow(b)
  <2>1. BidEvents(b) = <<won, outbid>>
    BY <1>4, <1>7, TwoSingletons
  <2>2. /\ stored' \in Seq(StoredEvent)
        /\ \A i \in DOMAIN stored : i \in DOMAIN stored' /\ stored'[i] = stored[i]
        /\ DOMAIN stored' \ DOMAIN stored = {Len(stored) + 1, Len(stored) + 2}
        /\ stored'[Len(stored) + 1] = won
        /\ stored'[Len(stored) + 2] = outbid
    BY <1>1, <1>2, <1>3, <1>7, <2>1
  <2>3. QED
    BY <1>4, <1>7, <2>2 DEF b, l, outbid
<1>8. CASE bids[l] # {} /\ ~BuysNow(b)
  <2>1. BidEvents(b) = <<outbid>>
    BY <1>4, <1>8
  <2>2. /\ stored' \in Seq(StoredEvent)
        /\ \A i \in DOMAIN stored : i \in DOMAIN stored' /\ stored'[i] = stored[i]
        /\ DOMAIN stored' \ DOMAIN stored = {Len(stored) + 1}
        /\ stored'[Len(stored) + 1] = outbid
    BY <1>1, <1>3, <1>8, <2>1
  <2>3. QED
    BY <1>8, <2>2 DEF b, l, outbid
<1>9. QED
  BY <1>5, <1>6, <1>7, <1>8

\* The stored bid takes over from its call, and bid_outbid from the bid that
\* was the last one so far.
LEMMA BidAccounted ==
  ASSUME IInv, NEW c \in Calls, StoreBid(c)
  PROVE  FundsAccounted'
<1>0. PICK b \in BidArgs : b = arg[c]
  BY DEF IInv, TypeOK, StoreBid
<1>1. PICK l \in Lots : l = b.lot
  BY DEF BidArgs
<1>2. PICK k : /\ bids[l] # {} =>
                    /\ k \in DOMAIN stored' \ DOMAIN stored
                    /\ stored'[k] = Ev("outbid", LastBid(l).user, l, LastBid(l).amount)
               /\ \A i \in DOMAIN stored' \ DOMAIN stored :
                    (bids[l] = {} \/ i # k) => stored'[i].type = "won"
  BY <1>0, <1>1, BidEventFacts DEF IInv
<1>3. \A i \in DOMAIN stored : i \in DOMAIN stored' /\ stored'[i] = stored[i]
  BY <1>0, <1>1, BidEventFacts DEF IInv
<1> DEFINE call == <<"call", c>>
           bid == <<"bid", l>>
           outbid == <<"event", k>>
           row == [user |-> b.user, amount |-> b.amount]
<1>4. /\ UNCHANGED <<account, processedRequests, processedEvents, arg>>
      /\ pc[c] = "locked" /\ pc' = [pc EXCEPT ![c] = "done"]
      /\ bids' = [bids EXCEPT ![l] = @ \union {row}]
      /\ lot[l].status = "active"
      /\ \A x \in bids[l] : b.amount > x.amount
  BY <1>0, <1>1 DEF StoreBid, Accepted, At, billingVars
<1>5. /\ pc \in [Calls -> {"idle"} \union Awaiting \union Charged \union Ended]
      /\ bids \in [Lots -> SUBSET BidRow]
  BY DEF IInv, TypeOK
<1>6. LastBid(l)' = row
  <2>1. bids'[l] = bids[l] \union {row} /\ row.amount = b.amount
    BY <1>4, <1>5
  <2>2. \A x \in bids'[l] : x.amount \in Int
    <3>1. \A a \in Amounts : a \in Int
      BY AmountsAreIntegers
    <3>2. \A x \in BidRow : x.amount \in Amounts
      BY DEF BidRow
    <3>3. b.amount \in Amounts
      BY <1>0 DEF BidArgs
    <3>4. bids[l] \subseteq BidRow
      BY <1>1, <1>5
    <3>5. QED
      BY <2>1, <3>1, <3>2, <3>3, <3>4
  <2> HIDE DEF row
  <2>3. \A x \in bids'[l] : x.amount <= row.amount
    <3>1. ASSUME NEW x \in bids[l] PROVE x.amount <= row.amount
      BY <1>4, <2>1, <2>2
    <3>2. row.amount <= row.amount
      BY <2>1, <2>2
    <3>3. QED
      BY <2>1, <3>1, <3>2
  <2>4. \A x, y \in bids'[l] : x.amount = y.amount => x = y
    BY <1>4, <2>1, <2>2 DEF IInv, BidsRanked
  <2>5. LastOf(bids'[l]) = row
    <3>1. row \in bids'[l]
      BY <2>1
    <3>2. QED
      BY <2>2, <2>3, <2>4, <3>1, LastOfRows
  <2>6. QED
    BY <2>5 DEF LastBid
<1>7. CallHolds(c)
  BY <1>4 DEF IInv, CallsCharged, CallHolds, Charged
<1>8. /\ ~Settled(l) /\ \A m \in Lots : Settled(m)' <=> Settled(m)
      /\ SettledAtMostOnce' = SettledAtMostOnce
  <2>1. ~Settled(l)
    BY <1>4 DEF IInv, ReportedIsOver, Settled, Settlements, Reports
  <2>2. QED
    BY <1>3, <1>4, <2>1, SettledKept DEF IInv
<1>9. /\ \A d \in Calls : CallHolds(d)' <=> CallHolds(d) /\ d # c
      /\ \A i \in DOMAIN stored : EventHolds(i)' <=> EventHolds(i)
      /\ \A m \in Lots : BidHolds(m)' <=> BidHolds(m) \/ m = l
      /\ BidHolds(l) <=> bids[l] # {}
      /\ \A m \in Lots \ {l} : LastBid(m)' = LastBid(m)
  BY <1>3, <1>4, <1>5, <1>8 DEF CallHolds, EventHolds, BidHolds, LastBid
<1>10. \A i \in DOMAIN stored' \ DOMAIN stored :
         EventHolds(i)' <=> i = k /\ bids[l] # {}
  <2>1. processedEvents' \subseteq DOMAIN stored
    BY <1>4 DEF IInv, ProcessedStored
  <2>2. QED
    BY <1>2, <2>1 DEF EventHolds, Ev
<1>11. /\ call \in Holders /\ call \notin Holders'
       /\ bid \in Holders' /\ (bid \in Holders <=> bids[l] # {})
       /\ outbid \in Holders' <=> bids[l] # {} \/ outbid \in Holders
       /\ bids[l] # {} => outbid \notin Holders
       /\ call # bid /\ call # outbid /\ bid # outbid
  <2>1. call \in Holders /\ call \notin Holders'
    BY <1>7, <1>9, HolderFactsHold, HolderFactsHoldNext DEF HolderFacts
  <2>2. bid \in Holders' /\ (bid \in Holders <=> bids[l] # {})
    BY <1>9, HolderFactsHold, HolderFactsHoldNext DEF HolderFacts
  <2>3. CASE bids[l] # {}
    BY <1>2, <1>10, <2>1, <2>2, <2>3, HolderFactsHold, HolderFactsHoldNext DEF HolderFacts
  <2>4. CASE bids[l] = {}
    <3>1. outbid \in Holders' <=> outbid \in Holders
      BY <1>3, <1>9, <1>10, <2>4, HolderFactsHold, HolderFactsHoldNext DEF HolderFacts
    <3>2. QED
      BY <2>1, <2>2, <2>4, <3>1
  <2>5. QED
    BY <2>3, <2>4
<1>12. \A h : h \notin {call, bid, outbid} => (h \in Holders' <=> h \in Holders)
  <2>1. ASSUME NEW h, h \notin {call, bid, outbid}, h \in Holders PROVE h \in Holders'
    BY <1>3, <1>9, <2>1, HolderFactsHold, HolderFactsHoldNext DEF HolderFacts
  <2>2. ASSUME NEW h, h \notin {call, bid, outbid}, h \in Holders' PROVE h \in Holders
    <3>1. ASSUME NEW i \in DOMAIN stored', h = <<"event", i>> PROVE h \in Holders
      BY <1>9, <1>10, <2>2, <3>1, HolderFactsHold, HolderFactsHoldNext DEF HolderFacts
    <3>2. QED
      BY <1>9, <2>2, <3>1, HolderFactsHold, HolderFactsHoldNext DEF HolderFacts
  <2>3. QED
    BY <2>1, <2>2
<1>13. Debts'[bid] = Debts[call]
  <2>1. Debts'[bid] = Debt(b.user, l, b.amount)
    BY <1>6, <1>11, HolderFactsHoldNext DEF HolderFacts
  <2>2. Debts[call] = Debt(b.user, l, b.amount)
    BY <1>0, <1>1, <1>11, HolderFactsHold DEF HolderFacts
  <2>3. QED
    BY <2>1, <2>2
<1>14. bids[l] # {} => Debts'[outbid] = Debts[bid]
  BY <1>2, <1>11, HolderFactsHold, HolderFactsHoldNext DEF HolderFacts, Ev
<1>15. ASSUME NEW h \in Holders, h \in Holders', h # bid PROVE Debts'[h] = Debts[h]
  <2>1. ASSUME NEW d \in Calls, h = <<"call", d>> PROVE Debts'[h] = Debts[h]
    BY <1>4, <1>15, <2>1, HolderFactsHold, HolderFactsHoldNext DEF HolderFacts
  <2>2. ASSUME NEW i \in DOMAIN stored, h = <<"event", i>> PROVE Debts'[h] = Debts[h]
    BY <1>3, <1>15, <2>2, HolderFactsHold, HolderFactsHoldNext DEF HolderFacts
  <2>3. ASSUME NEW m \in Lots, h = <<"bid", m>> PROVE Debts'[h] = Debts[h]
    BY <1>9, <1>15, <2>3, HolderFactsHold, HolderFactsHoldNext DEF HolderFacts
  <2>4. QED
    BY <2>1, <2>2, <2>3, HolderFactsHold DEF HolderFacts
<1> DEFINE phi == [h \in Holders' |-> IF h = bid THEN call
                                      ELSE IF bids[l] # {} /\ h = outbid THEN bid ELSE h]
<1> HIDE DEF call, bid, outbid
<1>16. phi \in [Holders' -> Holders]
  BY <1>11, <1>12
<1>17. /\ \A h \in Holders' : Debts'[h] = Debts[phi[h]]
       /\ \A g, h \in Holders' : phi[g] = phi[h] => g = h
       /\ \A d \in Holders : \E h \in Holders' : phi[h] = d
  <2>1. CASE bids[l] # {}
    BY <1>11, <1>12, <1>13, <1>14, <1>15, <2>1
  <2>2. CASE bids[l] = {}
    BY <1>11, <1>12, <1>13, <1>15, <2>2
  <2>3. QED
    BY <2>1, <2>2
<1> HIDE DEF phi
<1>18. QED
  BY <1>4, <1>8, <1>16, <1>17, HandOverStep

----------------------------------------------------------------------------
(* The other conjuncts of the invariant, for every step.                   *)

\* Every step is a step of Billing or leaves Billing alone.
LEMMA BillingStepTaken ==
  ASSUME TypeOK, StoredPayable, CallsCharged, [Next]_vars
  PROVE  [BillingNext]_billingVars
<1> USE AuctionAssumption
<1>1. ASSUME NEW c \in Calls, ServePayment(c) PROVE [BillingNext]_billingVars
  <2>1. arg[c] \in BidArgs
    BY <1>1 DEF TypeOK, ServePayment
  <2>2. c \in Requests /\ arg[c].user \in Users /\ arg[c].lot \in Lots
        /\ arg[c].amount \in Amounts
    BY <2>1 DEF BidArgs
  <2>3. CASE ProcessLotPayment(c, arg[c].user, arg[c].lot, arg[c].amount)
    BY <2>2, <2>3 DEF BillingNext, HandleRequest
  <2>4. CASE UNCHANGED billingVars
    BY <2>4
  <2>5. QED
    BY <1>1, <2>3, <2>4 DEF ServePayment
<1>2. ASSUME NEW c \in Calls, ServeLate(c) PROVE [BillingNext]_billingVars
  <2>1. arg[c] \in BidArgs
    BY <1>2 DEF TypeOK, CallsCharged, ServeLate
  <2>2. c \in Requests /\ arg[c].user \in Users /\ arg[c].lot \in Lots
        /\ arg[c].amount \in Amounts
    BY <2>1 DEF BidArgs
  <2>3. CASE ProcessLotPayment(c, arg[c].user, arg[c].lot, arg[c].amount)
    BY <2>2, <2>3 DEF BillingNext, HandleRequest
  <2>4. CASE UNCHANGED billingVars
    BY <2>4
  <2>5. QED
    BY <1>2, <2>3, <2>4 DEF ServeLate
<1>3. ASSUME NEW i \in DOMAIN stored, HandleStored(i) PROVE [BillingNext]_billingVars
  <2>1. stored \in Seq(StoredEvent) /\ i \in EventUIDs
    BY DEF TypeOK
  <2>2. stored[i] \in StoredEvent
    BY <2>1
  <2>3. stored[i].user \in Users /\ stored[i].lot \in Lots
        /\ Offer[stored[i].lot].owner \in Users
    BY <2>2 DEF StoredEvent
  <2>4. stored[i].amount \in Amounts
    BY <1>3 DEF StoredPayable, HandleStored
  <2>5. CASE HandleBidReleased(i, stored[i].user, stored[i].lot, stored[i].amount)
    BY <2>1, <2>3, <2>4, <2>5 DEF BillingNext, HandleEvent
  <2>6. CASE HandleLotReceived(i, Offer[stored[i].lot].owner, stored[i].user,
                               stored[i].lot, stored[i].amount)
    BY <2>1, <2>3, <2>4, <2>6 DEF BillingNext, HandleEvent
  <2>7. QED
    BY <1>3, <2>5, <2>6 DEF HandleStored
<1>4. ASSUME NEW r \in Requests, NEW u \in Users, NEW a \in Amounts, TopUpFunds(r, u, a)
      PROVE  [BillingNext]_billingVars
  BY <1>4 DEF TopUpFunds, BillingNext, HandleRequest
<1>5. CASE UNCHANGED vars
  BY <1>5 DEF vars
<1>6. ASSUME NEW c \in Calls, PayForBid(c) \/ PlaceBid(c)
      PROVE  [BillingNext]_billingVars
  BY <1>1, <1>2, <1>6
     DEF PayForBid, PlaceBid, StartBid, ReceivePaid, ReceiveRefused, ReceiveOther,
         LosePayment, BeginBid, StoreBid, RejectBid, SendCancelled, CancelGivesUp
<1>7. ASSUME NEW l \in Lots, LifeOfLot(l) PROVE [BillingNext]_billingVars
  BY <1>7 DEF LifeOfLot, HandleReport, CreateLot, SetLotSent, SetLotReceived
<1>8. CASE CompleteLots \/ Crash \/ Tick
  BY <1>8 DEF CompleteLots, ReadCompletedLots, CompleteLot, CompletionFails, Crash, Tick
<1>9. QED
  BY <1>3, <1>4, <1>5, <1>6, <1>7, <1>8 DEF Next, BillingWork

\* No step of Billing closes an account.
LEMMA CreatedKept ==
  ASSUME BillingTypeOK, [BillingNext]_billingVars,
         \A u \in Users : account[u].created
  PROVE  \A u \in Users : account'[u].created
<1>1. account \in [Users -> AccountState]
  BY DEF BillingTypeOK
<1>2. \A acc \in AccountState, l \in Lots, a \in Amounts :
        /\ Finish(acc, l, a).created = acc.created
        /\ DOMAIN Finish(acc, l, a) = DOMAIN acc
  BY DEF AccountState, Finish
<1>3. \A acc, a : "created" \in DOMAIN acc => Receive(acc, a).created = acc.created
  BY DEF Receive
<1>4. ASSUME NEW r \in Requests, HandleRequest(r) PROVE \A u \in Users : account'[u].created
  <2>1. ASSUME NEW u \in Users, NEW a \in Amounts, TopUpAccount(r, u, a)
        PROVE  \A v \in Users : account'[v].created
    <3>1. account' = [account EXCEPT ![u] = TopUp(account[u], a)]
      BY <2>1 DEF TopUpAccount
    <3>2. TopUp(account[u], a).created
      BY <1>1 DEF AccountState, TopUp
    <3>3. QED
      BY <1>1, <3>1, <3>2
  <2>2. ASSUME NEW u \in Users, NEW l \in Lots, NEW a \in Amounts,
               ProcessLotPayment(r, u, l, a)
        PROVE  \A v \in Users : account'[v].created
    <3>1. account' = [account EXCEPT ![u] = Block(account[u], l, a)]
      BY <2>2 DEF ProcessLotPayment
    <3>2. Block(account[u], l, a).created
      BY <1>1 DEF AccountState, Block
    <3>3. QED
      BY <1>1, <3>1, <3>2
  <2>3. QED
    BY <1>4, <2>1, <2>2 DEF HandleRequest
<1>5. ASSUME NEW e \in EventUIDs, NEW u \in Users,
             \/ HandleUserRegistered(e, u)
             \/ \E l \in Lots, a \in Amounts : HandleBidReleased(e, u, l, a)
      PROVE  \A v \in Users : account'[v].created
  <2>1. CASE HandleUserRegistered(e, u)
    BY <2>1 DEF HandleUserRegistered, CanCreateAccount
  <2>2. ASSUME NEW l \in Lots, NEW a \in Amounts, HandleBidReleased(e, u, l, a)
        PROVE  \A v \in Users : account'[v].created
    <3>1. account' = [account EXCEPT ![u] = Unblock(account[u], l, a)]
      BY <2>2 DEF HandleBidReleased
    <3>2. Unblock(account[u], l, a).created
      BY <1>1 DEF AccountState, Unblock
    <3>3. QED
      BY <1>1, <3>1, <3>2
  <2>3. QED
    BY <1>5, <2>1, <2>2
<1>6. ASSUME NEW e \in EventUIDs, NEW owner \in Users, NEW w \in Users,
             NEW l \in Lots, NEW a \in Amounts, HandleLotReceived(e, owner, w, l, a)
      PROVE  \A v \in Users : account'[v].created
  <2> DEFINE paid == [account EXCEPT ![w] = Finish(@, l, a)]
  <2>1. account' = [paid EXCEPT ![owner] = Receive(@, a)]
    BY <1>6 DEF HandleLotReceived
  <2>2. \A v \in Users : paid[v].created /\ "created" \in DOMAIN paid[v]
    BY <1>1, <1>2 DEF AccountState
  <2>3. DOMAIN paid = Users
    BY <1>1
  <2> HIDE DEF paid
  <2>4. QED
    BY <1>3, <2>1, <2>2, <2>3
<1>7. CASE UNCHANGED billingVars
  BY <1>7 DEF billingVars
<1>8. QED
  BY <1>4, <1>5, <1>6, <1>7 DEF BillingNext, HandleEvent

LEMMA SoundStep ==
  ASSUME ~WrapAllowed, IInv, [Next]_vars
  PROVE  BillingTypeOK' /\ AccountsSound'
<1>1. BillingIInv
  BY DEF IInv, TypeOK, AccountsSound, BillingIInv
<1>2. [BillingNext]_billingVars
  BY BillingStepTaken DEF IInv
<1>3. BillingIInv'
  BY <1>1, <1>2, NextSound
<1>4. \A u \in Users : account'[u].created
  BY <1>2, CreatedKept DEF IInv, TypeOK, AccountsSound
<1>5. QED
  BY <1>3, <1>4 DEF BillingIInv, AccountsSound

\* Type correctness of the variables of the Lot service.
LEMMA TypeStep ==
  ASSUME IInv, BillingTypeOK', [Next]_vars
  PROVE  TypeOK'
<1> USE AuctionAssumption
<1>1. TypeOK
  BY DEF IInv
<1>2. ASSUME NEW c \in Calls, NEW b \in Bids, StartBid(c, b) PROVE TypeOK'
  BY <1>1, <1>2 DEF TypeOK, StartBid, At, lotVars, Awaiting
<1>3. ASSUME NEW c \in Calls, ServePayment(c) PROVE TypeOK'
  BY <1>1, <1>3 DEF TypeOK, ServePayment, At, lotVars, Awaiting, Answers
<1>4. ASSUME NEW c \in Calls, ReceivePaid(c) \/ ReceiveRefused(c) PROVE TypeOK'
  BY <1>1, <1>4 DEF TypeOK, ReceivePaid, ReceiveRefused, PaymentConfirmed, At, lotVars,
                    Awaiting, Answers, Charged, Ended
<1>5. ASSUME NEW c \in Calls, NextAttempt(c), pc[c] # "idle"
      PROVE  /\ attempt' \in [Calls -> 0 .. MaxAttempts - 1]
             /\ pc' \in [Calls -> {"idle"} \union Awaiting \union Charged \union Ended]
             /\ \A d \in Calls : pc'[d] # "idle" => arg[d] \in BidArgs
  <2>1. /\ pc \in [Calls -> {"idle"} \union Awaiting \union Charged \union Ended]
        /\ attempt \in [Calls -> 0 .. MaxAttempts - 1]
        /\ arg[c] \in BidArgs /\ \A d \in Calls : pc[d] # "idle" => arg[d] \in BidArgs
    BY <1>1, <1>5 DEF TypeOK
  <2>2. "sent" \in Awaiting /\ "unpaid" \in Ended
    BY DEF Awaiting, Ended
  <2>3. CASE attempt[c] + 1 < MaxAttempts
    BY <1>5, <2>1, <2>2, <2>3 DEF NextAttempt, At
  <2>4. CASE ~(attempt[c] + 1 < MaxAttempts)
    BY <1>5, <2>1, <2>2, <2>4 DEF NextAttempt, At
  <2>5. QED
    BY <2>3, <2>4
<1>6. ASSUME NEW c \in Calls, ReceiveOther(c) PROVE TypeOK'
  BY <1>1, <1>5, <1>6 DEF TypeOK, ReceiveOther, lotVars
<1>7. ASSUME NEW c \in Calls, LosePayment(c) PROVE TypeOK'
  <2>1. /\ attempt' \in [Calls -> 0 .. MaxAttempts - 1]
        /\ pc' \in [Calls -> {"idle"} \union Awaiting \union Charged \union Ended]
        /\ \A d \in Calls : pc'[d] # "idle" => arg[d] \in BidArgs
    BY <1>5, <1>7 DEF LosePayment, Awaiting, Answers
  <2>2. late' \in [Calls -> Nat]
    <3>1. late \in [Calls -> Nat] /\ late[c] + 1 \in Nat
      BY <1>1 DEF TypeOK
    <3>2. late' = late \/ late' = [late EXCEPT ![c] = late[c] + 1]
      BY <1>7 DEF LosePayment
    <3>3. QED
      BY <3>1, <3>2
  <2>3. QED
    BY <1>1, <1>7, <2>1, <2>2 DEF TypeOK, LosePayment, lotVars
<1>8. ASSUME NEW c \in Calls, ServeLate(c) PROVE TypeOK'
  BY <1>1, <1>8 DEF TypeOK, ServeLate, lotVars
<1>9. ASSUME NEW c \in Calls, BeginBid(c) \/ RejectBid(c) \/ CancelGivesUp(c) PROVE TypeOK'
  <2>1. "locked" \in Charged /\ "failed" \in Charged /\ "lost" \in Ended
    BY DEF Charged, Ended
  <2>2. CASE BeginBid(c)
    BY <1>1, <2>1, <2>2 DEF TypeOK, BeginBid, At, lotVars
  <2>3. CASE RejectBid(c) \/ CancelGivesUp(c)
    <3>1. /\ pc' \in [Calls -> {"idle"} \union Awaiting \union Charged \union Ended]
          /\ \A d \in Calls : pc'[d] # "idle" => arg[d] \in BidArgs
      BY <1>1, <2>1, <2>3 DEF TypeOK, RejectBid, CancelGivesUp, At
    <3>2. QED
      BY <1>1, <2>3, <3>1 DEF TypeOK, RejectBid, CancelGivesUp, lotVars
  <2>4. QED
    BY <1>9, <2>2, <2>3
<1>10. ASSUME NEW c \in Calls, StoreBid(c) PROVE TypeOK'
  <2>1. PICK b \in BidArgs : b = arg[c]
    BY <1>1, <1>10 DEF TypeOK, StoreBid
  <2>2. b.lot \in Lots /\ b.request \in LotRequests
        /\ [user |-> b.user, amount |-> b.amount] \in BidRow
    BY <2>1 DEF BidArgs, BidRow
  <2>3. stored' \in Seq(StoredEvent)
    BY <1>1, <1>10, <2>1, BidEventFacts DEF IInv
  <2>4. lot' \in [Lots -> [status : LotStatus, end : Nat]]
    <3>1. ExtendedEnd(c) \in Nat
      BY <1>1, <2>1, <2>2 DEF TypeOK, ExtendedEnd
    <3>2. lot[b.lot].status \in LotStatus
      BY <1>1, <2>2 DEF TypeOK
    <3>3. QED
      BY <1>1, <1>10, <2>1, <2>2, <3>1, <3>2 DEF TypeOK, StoreBid, LotStatus
  <2>5. bids' \in [Lots -> SUBSET BidRow] /\ lotRequests' \subseteq LotRequests
    BY <1>1, <1>10, <2>1, <2>2 DEF TypeOK, StoreBid
  <2>6. /\ pc' \in [Calls -> {"idle"} \union Awaiting \union Charged \union Ended]
        /\ \A d \in Calls : pc'[d] # "idle" => arg'[d] \in BidArgs
    BY <1>1, <1>10 DEF TypeOK, StoreBid, At, Ended
  <2>7. UNCHANGED <<arg, attempt, late, clock, snapshot, now>>
    BY <1>10 DEF StoreBid
  <2>8. QED
    BY <1>1, <2>3, <2>4, <2>5, <2>6, <2>7 DEF TypeOK
<1>11. ASSUME NEW c \in Calls, SendCancelled(c) PROVE TypeOK'
  <2>1. arg[c] \in BidArgs
    BY <1>1, <1>11 DEF TypeOK, SendCancelled
  <2>2. Ev("cancelled", arg[c].user, arg[c].lot, arg[c].amount) \in StoredEvent
    BY <2>1, AmountsAssumption DEF BidArgs, Ev, StoredEvent, EventTypes
  <2>3. stored' \in Seq(StoredEvent)
    BY <1>1, <1>11, <2>2, EmitFacts DEF TypeOK, SendCancelled
  <2>4. QED
    BY <1>1, <1>11, <2>3 DEF TypeOK, SendCancelled, At, Ended
<1>12. ASSUME NEW l \in Lots, NEW r \in LotRequests, NEW d \in Durations, CreateLot(l, r, d)
       PROVE  TypeOK'
  <2>1. now + d \in Nat
    BY <1>1 DEF TypeOK
  <2>2. lot' \in [Lots -> [status : LotStatus, end : Nat]]
    BY <1>1, <1>12, <2>1 DEF TypeOK, CreateLot, LotStatus
  <2>3. QED
    BY <1>1, <1>12, <2>2 DEF TypeOK, CreateLot, callVars
<1>13. ASSUME NEW l \in Lots, NEW type \in EventTypes, NEW u \in Users, NEW a \in Raw,
              NEW st \in LotStatus, Emit(Ev(type, u, l, a)),
              lot' = [lot EXCEPT ![l].status = st]
       PROVE  /\ stored' \in Seq(StoredEvent)
              /\ lot' \in [Lots -> [status : LotStatus, end : Nat]]
  <2>1. Ev(type, u, l, a) \in StoredEvent
    BY DEF Ev, StoredEvent
  <2>2. stored' \in Seq(StoredEvent)
    BY <1>1, <1>13, <2>1, EmitFacts DEF TypeOK
  <2>3. lot' \in [Lots -> [status : LotStatus, end : Nat]]
    BY <1>1, <1>13 DEF TypeOK
  <2>4. QED
    BY <2>2, <2>3
<1>14. 0 \in Raw
  BY WidthAssumption DEF Raw
<1>15. \A l \in Lots : bids[l] # {} => LastBid(l).user \in Users /\ LastBid(l).amount \in Raw
  <2>1. ASSUME NEW l \in Lots, bids[l] # {} PROVE LastBid(l) \in BidRow
    BY <1>1, <2>1, LastBidIsGreatest DEF IInv, TypeOK
  <2>2. QED
    BY <2>1, AmountsAssumption DEF BidRow
<1>16. ASSUME NEW l \in Lots, SetLotSent(l) PROVE TypeOK'
  <2>1. /\ stored' \in Seq(StoredEvent)
        /\ lot' \in [Lots -> [status : LotStatus, end : Nat]]
    BY <1>13, <1>14, <1>15, <1>16 DEF SetLotSent, EventTypes, LotStatus
  <2>2. QED
    BY <1>1, <1>16, <2>1 DEF TypeOK, SetLotSent, callVars
<1>17. ASSUME NEW l \in Lots, SetLotReceived(l) PROVE TypeOK'
  <2>1. /\ stored' \in Seq(StoredEvent)
        /\ lot' \in [Lots -> [status : LotStatus, end : Nat]]
    BY <1>13, <1>15, <1>17 DEF SetLotReceived, EventTypes, LotStatus
  <2>2. QED
    BY <1>1, <1>17, <2>1 DEF TypeOK, SetLotReceived, callVars
<1>18. CASE ReadCompletedLots \/ CompletionFails
  BY <1>1, <1>18 DEF TypeOK, ReadCompletedLots, CompletionFails, callVars
<1>19. ASSUME NEW s \in snapshot, CompleteLot(s) PROVE TypeOK'
  <2>1. s.lot \in Lots
    BY <1>1 DEF TypeOK
  <2>2. /\ stored' \in Seq(StoredEvent)
        /\ lot' \in [Lots -> [status : LotStatus, end : Nat]]
    <3>1. CASE bids[s.lot] # {} /\ lot' = [lot EXCEPT ![s.lot].status = "finished"]
               /\ Emit(Ev("won", LastBid(s.lot).user, s.lot, 0))
      BY <1>13, <1>14, <1>15, <2>1, <3>1 DEF EventTypes, LotStatus
    <3>2. CASE lot' = [lot EXCEPT ![s.lot].status = "closed"]
               /\ Emit(Ev("closed", Offer[s.lot].owner, s.lot, 0))
      BY <1>13, <1>14, <2>1, <3>2 DEF EventTypes, LotStatus
    <3>3. CASE UNCHANGED <<lot, stored>>
      BY <1>1, <3>3 DEF TypeOK
    <3>4. QED
      BY <1>19, <3>1, <3>2, <3>3 DEF CompleteLot
  <2>3. QED
    BY <1>1, <1>19, <2>2 DEF TypeOK, CompleteLot, callVars
<1>20. ASSUME NEW i \in DOMAIN stored, HandleStored(i) PROVE TypeOK'
  BY <1>1, <1>20 DEF TypeOK, HandleStored, callVars, lotVars
<1>21. ASSUME NEW r \in Requests, NEW u \in Users, NEW a \in Amounts, TopUpFunds(r, u, a)
       PROVE  TypeOK'
  BY <1>1, <1>21 DEF TypeOK, TopUpFunds, callVars, lotVars
<1>22. CASE Crash
  BY <1>1, <1>22 DEF TypeOK, Crash, Ended
<1>23. CASE Tick
  BY <1>1, <1>23 DEF TypeOK, Tick, callVars, lotVars
<1>24. CASE UNCHANGED vars
  BY <1>1, <1>24 DEF TypeOK, vars, callVars, lotVars
<1>25. QED
  BY <1>2, <1>3, <1>4, <1>6, <1>7, <1>8, <1>9, <1>10, <1>11, <1>12, <1>16, <1>17,
     <1>18, <1>19, <1>20, <1>21, <1>22, <1>23, <1>24
     DEF Next, PayForBid, PlaceBid, LifeOfLot, HandleReport, CompleteLots, BillingWork

\* The rows of a lot stay ranked: a stored bid is greater than all others.
LEMMA RankedStep ==
  ASSUME IInv, [Next]_vars
  PROVE  BidsRanked'
<1>1. CASE bids' = bids
  BY <1>1 DEF IInv, BidsRanked
<1>2. ASSUME NEW c \in Calls, StoreBid(c) PROVE BidsRanked'
  <2>1. PICK b \in BidArgs : b = arg[c]
    BY <1>2 DEF IInv, TypeOK, StoreBid
  <2>2. PICK row : row = [user |-> b.user, amount |-> b.amount]
    OBVIOUS
  <2>3. /\ b.lot \in Lots /\ row.amount = b.amount /\ b.amount \in Amounts
        /\ bids \in [Lots -> SUBSET BidRow]
        /\ \A x \in bids[b.lot] : b.amount > x.amount
        /\ bids' = [bids EXCEPT ![b.lot] = @ \union {row}]
    BY <1>2, <2>1, <2>2 DEF IInv, TypeOK, StoreBid, Accepted, BidArgs
  <2>4. \A x \in BidRow : x.amount \in Int
    <3>1. \A a \in Amounts : a \in Int
      BY AmountsAreIntegers
    <3>2. QED
      BY <3>1 DEF BidRow
  <2>5. b.amount \in Int
    BY <2>3, AmountsAreIntegers
  <2>6. ASSUME NEW l \in Lots
        PROVE  /\ \A x, y \in bids'[l] : x.amount = y.amount => x = y
               /\ bids'[l] # {} => \E g \in bids'[l] : \A x \in bids'[l] : x.amount <= g.amount
    <3>1. CASE l # b.lot
      BY <2>3, <3>1 DEF IInv, BidsRanked
    <3>2. CASE l = b.lot
      <4>1. bids'[l] = bids[l] \union {row} /\ bids[l] \subseteq BidRow
        BY <2>3, <3>2
      <4>2. \A x \in bids[l] : x.amount < row.amount /\ x.amount \in Int
        BY <2>3, <2>4, <2>5, <3>2, <4>1
      <4>3. \A x, y \in bids'[l] : x.amount = y.amount => x = y
        BY <2>3, <2>5, <4>1, <4>2 DEF IInv, BidsRanked
      <4>4. \A x \in bids'[l] : x.amount <= row.amount
        BY <2>3, <2>5, <4>1, <4>2
      <4>5. QED
        BY <4>1, <4>3, <4>4
    <3>3. QED
      BY <3>1, <3>2
  <2>7. QED
    BY <2>6 DEF BidsRanked
<1>3. QED
  BY <1>1, <1>2
     DEF Next, vars, lotVars, PayForBid, PlaceBid, LifeOfLot, CompleteLots, BillingWork,
         StartBid, ServePayment, ReceivePaid, ReceiveRefused, ReceiveOther, LosePayment,
         ServeLate, BeginBid, RejectBid, SendCancelled, CancelGivesUp, CreateLot,
         HandleReport, SetLotSent, SetLotReceived, ReadCompletedLots, CompleteLot, CompletionFails,
         HandleStored, TopUpFunds, Crash, Tick

\* A lot that Delivery has reported on is over and stays over, so its bids,
\* the last one among them, do not change any more.
LEMMA ReportedStep ==
  ASSUME IInv, [Next]_vars
  PROVE  ReportedIsOver' /\ ReceiptsOfLast'
<1> DEFINE Over(st) == st \notin {"none", "active"}
<1>1. /\ stored \in Seq(StoredEvent)
      /\ lot \in [Lots -> [status : LotStatus, end : Nat]]
      /\ bids \in [Lots -> SUBSET BidRow]
  BY DEF IInv, TypeOK
<1>2. CASE UNCHANGED <<lot, bids, stored>>
  BY <1>2 DEF IInv, ReportedIsOver, ReceiptsOfLast, LastBid
<1>3. ASSUME \A i \in DOMAIN stored : i \in DOMAIN stored' /\ stored'[i] = stored[i],
             \A l \in Lots : Over(lot[l].status) => Over(lot'[l].status) /\ bids'[l] = bids[l],
             \A i \in DOMAIN stored' \ DOMAIN stored :
               /\ stored'[i].type \in {"sent", "received"} => Over(lot'[stored'[i].lot].status)
               /\ stored'[i].type = "received"
                    => /\ bids'[stored'[i].lot] # {}
                       /\ stored'[i].user = LastOf(bids'[stored'[i].lot]).user
                       /\ stored'[i].amount = LastOf(bids'[stored'[i].lot]).amount
      PROVE  ReportedIsOver' /\ ReceiptsOfLast'
  <2>1. ASSUME NEW i \in DOMAIN stored, stored[i].type \in {"sent", "received"}
        PROVE  /\ Over(lot'[stored[i].lot].status)
               /\ bids'[stored[i].lot] = bids[stored[i].lot]
    <3>1. stored[i] \in StoredEvent
      BY <1>1
    <3>2. stored[i].lot \in Lots /\ Over(lot[stored[i].lot].status)
      BY <2>1, <3>1 DEF IInv, ReportedIsOver, StoredEvent
    <3>3. QED
      BY <1>3, <3>2
  <2>2. ReportedIsOver'
    BY <1>3, <2>1 DEF ReportedIsOver
  <2>3. ASSUME NEW i \in DOMAIN stored', stored'[i].type = "received"
        PROVE  /\ bids'[stored'[i].lot] # {}
               /\ stored'[i].user = LastOf(bids'[stored'[i].lot]).user
               /\ stored'[i].amount = LastOf(bids'[stored'[i].lot]).amount
    <3>1. CASE i \in DOMAIN stored
      BY <1>3, <2>1, <2>3, <3>1 DEF IInv, ReceiptsOfLast, LastBid
    <3>2. CASE i \notin DOMAIN stored
      BY <1>3, <2>3, <3>2
    <3>3. QED
      BY <3>1, <3>2
  <2>4. QED
    BY <2>2, <2>3 DEF ReceiptsOfLast, LastBid
<1>4. 0 \in Raw
  BY WidthAssumption DEF Raw
<1>5. \A l \in Lots : bids[l] # {} => LastBid(l).user \in Users /\ LastBid(l).amount \in Raw
  <2>1. ASSUME NEW l \in Lots, bids[l] # {} PROVE LastBid(l) \in BidRow
    BY <1>1, <2>1, LastBidIsGreatest DEF IInv
  <2>2. QED
    BY <2>1, AmountsAssumption DEF BidRow
<1>6. ASSUME NEW c \in Calls, StoreBid(c) PROVE ReportedIsOver' /\ ReceiptsOfLast'
  <2>1. PICK l \in Lots : l = arg[c].lot /\ arg[c] \in BidArgs
    BY <1>6 DEF IInv, TypeOK, StoreBid, BidArgs
  <2>2. lot[l].status = "active"
    BY <1>6, <2>1 DEF StoreBid, Accepted
  <2>3. \A m \in Lots : m # l => lot'[m] = lot[m] /\ bids'[m] = bids[m]
    BY <1>1, <1>6, <2>1 DEF StoreBid
  <2>4. \A i \in DOMAIN stored : i \in DOMAIN stored' /\ stored'[i] = stored[i]
    BY <1>6, <2>1, BidEventFacts DEF IInv
  <2>5. \A i \in DOMAIN stored' \ DOMAIN stored : stored'[i].type \in {"won", "outbid"}
    <3>1. CASE bids[l] = {}
      BY <1>6, <2>1, <3>1, BidEventFacts DEF IInv
    <3>2. CASE bids[l] # {}
      <4>1. PICK k : /\ stored'[k] = Ev("outbid", LastBid(l).user, l, LastBid(l).amount)
                     /\ \A i \in DOMAIN stored' \ DOMAIN stored :
                          i # k => stored'[i].type = "won"
        BY <1>6, <2>1, <3>2, BidEventFacts DEF IInv
      <4>2. stored'[k].type = "outbid"
        BY <4>1 DEF Ev
      <4>3. QED
        BY <4>1, <4>2
    <3>3. QED
      BY <3>1, <3>2
  <2>6. QED
    BY <1>3, <2>2, <2>3, <2>4, <2>5
<1>7. ASSUME NEW c \in Calls, SendCancelled(c) PROVE ReportedIsOver' /\ ReceiptsOfLast'
  <2>1. arg[c] \in BidArgs
    BY <1>7 DEF IInv, TypeOK, SendCancelled
  <2>2. PICK ev \in StoredEvent : Emit(ev) /\ ev.type = "cancelled"
    BY <1>7, <2>1, AmountsAssumption
       DEF SendCancelled, BidArgs, Ev, StoredEvent, EventTypes
  <2>3. lot' = lot /\ bids' = bids
    BY <1>7 DEF SendCancelled
  <2>4. QED
    BY <1>1, <1>3, <2>2, <2>3, EmitFacts
<1>8. ASSUME NEW l \in Lots, NEW r, NEW d, CreateLot(l, r, d)
      PROVE  ReportedIsOver' /\ ReceiptsOfLast'
  BY <1>1, <1>3, <1>8 DEF CreateLot
<1>9. ASSUME NEW l \in Lots, SetLotSent(l) PROVE ReportedIsOver' /\ ReceiptsOfLast'
  <2>1. PICK ev \in StoredEvent : Emit(ev) /\ ev.type = "sent" /\ ev.lot = l
    BY <1>4, <1>5, <1>9 DEF SetLotSent, Ev, StoredEvent, EventTypes
  <2>2. bids' = bids /\ \A m \in Lots : lot'[m].status = IF m = l THEN "sent" ELSE lot[m].status
    BY <1>1, <1>9 DEF SetLotSent
  <2>3. QED
    BY <1>1, <1>3, <2>1, <2>2, EmitFacts
<1>10. ASSUME NEW l \in Lots, SetLotReceived(l) PROVE ReportedIsOver' /\ ReceiptsOfLast'
  <2>1. PICK ev \in StoredEvent :
          /\ Emit(ev) /\ ev.type = "received" /\ ev.lot = l
          /\ ev.user = LastOf(bids[l]).user /\ ev.amount = LastOf(bids[l]).amount
    BY <1>5, <1>10 DEF SetLotReceived, Ev, StoredEvent, EventTypes, LastBid
  <2>2. /\ bids' = bids /\ bids[l] # {}
        /\ \A m \in Lots : lot'[m].status = IF m = l THEN "received" ELSE lot[m].status
    BY <1>1, <1>10 DEF SetLotReceived
  <2>3. /\ \A i \in DOMAIN stored : i \in DOMAIN stored' /\ stored'[i] = stored[i]
        /\ \A i \in DOMAIN stored' \ DOMAIN stored : stored'[i] = ev
    BY <1>1, <2>1, EmitFacts
  <2>4. Over(lot'[l].status)
    BY <2>2
  <2>5. \A m \in Lots : Over(lot[m].status) => Over(lot'[m].status) /\ bids'[m] = bids[m]
    BY <2>2
  <2>6. QED
    BY <1>3, <2>1, <2>2, <2>3, <2>4, <2>5
<1>11. ASSUME NEW s \in snapshot, CompleteLot(s) PROVE ReportedIsOver' /\ ReceiptsOfLast'
  <2>1. s.lot \in Lots /\ bids' = bids /\ Offer[s.lot].owner \in Users
    BY <1>11, AuctionAssumption DEF IInv, TypeOK, CompleteLot
  <2>2. ASSUME NEW ev \in StoredEvent, NEW st, Emit(ev), ev.type \in {"won", "closed"}, Over(st),
               lot' = [lot EXCEPT ![s.lot].status = st]
        PROVE  ReportedIsOver' /\ ReceiptsOfLast'
    BY <1>1, <1>3, <2>1, <2>2, EmitFacts
  <2>3. CASE /\ bids[s.lot] # {} /\ lot' = [lot EXCEPT ![s.lot].status = "finished"]
             /\ Emit(Ev("won", LastBid(s.lot).user, s.lot, 0))
    <3>1. Ev("won", LastBid(s.lot).user, s.lot, 0) \in StoredEvent
          /\ Ev("won", LastBid(s.lot).user, s.lot, 0).type = "won"
      BY <1>4, <1>5, <2>1, <2>3 DEF Ev, StoredEvent, EventTypes
    <3>2. Over("finished")
      OBVIOUS
    <3> HIDE DEF Over
    <3>3. QED
      BY <2>2, <2>3, <3>1, <3>2
  <2>4. CASE /\ lot' = [lot EXCEPT ![s.lot].status = "closed"]
             /\ Emit(Ev("closed", Offer[s.lot].owner, s.lot, 0))
    <3>1. Ev("closed", Offer[s.lot].owner, s.lot, 0) \in StoredEvent
          /\ Ev("closed", Offer[s.lot].owner, s.lot, 0).type = "closed"
      BY <1>4, <2>1 DEF Ev, StoredEvent, EventTypes
    <3>2. QED
      BY <2>2, <2>4, <3>1
  <2>5. CASE UNCHANGED <<lot, stored>>
    BY <1>2, <2>1, <2>5
  <2>6. QED
    BY <1>11, <2>3, <2>4, <2>5 DEF CompleteLot
<1>12. QED
  BY <1>2, <1>6, <1>7, <1>8, <1>9, <1>10, <1>11
     DEF Next, vars, lotVars, PayForBid, PlaceBid, LifeOfLot, HandleReport, CompleteLots,
         BillingWork, StartBid, ServePayment, ReceivePaid, ReceiveRefused, ReceiveOther,
         LosePayment, ServeLate, BeginBid, RejectBid, CancelGivesUp,
         ReadCompletedLots, CompletionFails, HandleStored, TopUpFunds, Crash, Tick

\* Stored events stay, new ones about payments carry payable amounts, and
\* Billing handles only stored ones.
LEMMA StoredStep ==
  ASSUME IInv, [Next]_vars
  PROVE  StoredPayable' /\ ProcessedStored'
<1>1. stored \in Seq(StoredEvent) /\ StoredPayable /\ processedEvents \subseteq DOMAIN stored
  BY DEF IInv, TypeOK, ProcessedStored
<1>2. CASE UNCHANGED <<stored, processedEvents>>
  BY <1>1, <1>2 DEF StoredPayable, ProcessedStored
<1>3. ASSUME \A i \in DOMAIN stored : i \in DOMAIN stored' /\ stored'[i] = stored[i],
             \A i \in DOMAIN stored' \ DOMAIN stored :
               stored'[i].type \in {"outbid", "cancelled", "received"}
                 => stored'[i].amount \in Amounts,
             processedEvents' = processedEvents
      PROVE  StoredPayable' /\ ProcessedStored'
  <2>1. ASSUME NEW i \in DOMAIN stored',
               stored'[i].type \in {"outbid", "cancelled", "received"}
        PROVE  stored'[i].amount \in Amounts
    <3>1. CASE i \in DOMAIN stored
      BY <1>1, <1>3, <2>1, <3>1 DEF StoredPayable
    <3>2. CASE i \notin DOMAIN stored
      BY <1>3, <2>1, <3>2
    <3>3. QED
      BY <3>1, <3>2
  <2>2. QED
    BY <1>1, <1>3, <2>1 DEF StoredPayable, ProcessedStored
<1>4. ASSUME NEW ev \in StoredEvent, Emit(ev), processedEvents' = processedEvents,
             ev.type \in {"outbid", "cancelled", "received"} => ev.amount \in Amounts
      PROVE  StoredPayable' /\ ProcessedStored'
  BY <1>1, <1>3, <1>4, EmitFacts
<1>5. 0 \in Raw
  BY WidthAssumption DEF Raw
<1>6. \A l \in Lots : bids[l] # {}
        => /\ LastBid(l).user \in Users
           /\ LastBid(l).amount \in Amounts /\ LastBid(l).amount \in Raw
  <2>1. ASSUME NEW l \in Lots, bids[l] # {} PROVE LastBid(l) \in BidRow
    BY <2>1, LastBidIsGreatest DEF IInv, TypeOK
  <2>2. QED
    BY <2>1, AmountsAssumption DEF BidRow
<1>7. ASSUME NEW c \in Calls, StoreBid(c) PROVE StoredPayable' /\ ProcessedStored'
  <2>1. PICK l \in Lots : l = arg[c].lot /\ arg[c] \in BidArgs
    BY <1>7 DEF IInv, TypeOK, StoreBid, BidArgs
  <2>2. processedEvents' = processedEvents
    BY <1>7 DEF StoreBid, billingVars
  <2>3. \A i \in DOMAIN stored : i \in DOMAIN stored' /\ stored'[i] = stored[i]
    BY <1>7, <2>1, BidEventFacts DEF IInv
  <2>4. CASE bids[l] = {}
    <3>1. \A i \in DOMAIN stored' \ DOMAIN stored : stored'[i].type = "won"
      BY <1>7, <2>1, <2>4, BidEventFacts DEF IInv
    <3>2. QED
      BY <1>3, <2>2, <2>3, <3>1
  <2>5. CASE bids[l] # {}
    <3>1. PICK k : /\ stored'[k] = Ev("outbid", LastBid(l).user, l, LastBid(l).amount)
                   /\ \A i \in DOMAIN stored' \ DOMAIN stored :
                        i # k => stored'[i].type = "won"
      BY <1>7, <2>1, <2>5, BidEventFacts DEF IInv
    <3>2. stored'[k].amount \in Amounts
      BY <1>6, <2>5, <3>1 DEF Ev
    <3>3. QED
      BY <1>3, <2>2, <2>3, <3>1, <3>2
  <2>6. QED
    BY <2>4, <2>5
<1>8. ASSUME NEW c \in Calls, SendCancelled(c) PROVE StoredPayable' /\ ProcessedStored'
  <2>1. arg[c] \in BidArgs
    BY <1>8 DEF IInv, TypeOK, SendCancelled
  <2>2. Ev("cancelled", arg[c].user, arg[c].lot, arg[c].amount) \in StoredEvent
        /\ Ev("cancelled", arg[c].user, arg[c].lot, arg[c].amount).amount \in Amounts
    BY <2>1, AmountsAssumption DEF BidArgs, Ev, StoredEvent, EventTypes
  <2>3. QED
    BY <1>4, <1>8, <2>2 DEF SendCancelled, billingVars
<1>9. ASSUME NEW l \in Lots, LifeOfLot(l) PROVE StoredPayable' /\ ProcessedStored'
  <2>1. ASSUME NEW r, NEW d, CreateLot(l, r, d) PROVE StoredPayable' /\ ProcessedStored'
    BY <1>2, <2>1 DEF CreateLot, billingVars
  <2>2. CASE SetLotSent(l)
    <3>1. Ev("sent", LastBid(l).user, l, 0) \in StoredEvent
          /\ Ev("sent", LastBid(l).user, l, 0).type = "sent"
      BY <1>5, <1>6, <2>2 DEF SetLotSent, Ev, StoredEvent, EventTypes
    <3>2. QED
      BY <1>4, <2>2, <3>1 DEF SetLotSent, billingVars
  <2>3. CASE SetLotReceived(l)
    <3>1. Ev("received", LastBid(l).user, l, LastBid(l).amount) \in StoredEvent
          /\ Ev("received", LastBid(l).user, l, LastBid(l).amount).amount \in Amounts
      BY <1>6, <2>3 DEF SetLotReceived, Ev, StoredEvent, EventTypes
    <3>2. QED
      BY <1>4, <2>3, <3>1 DEF SetLotReceived, billingVars
  <2>4. QED
    BY <1>9, <2>1, <2>2, <2>3 DEF LifeOfLot, HandleReport
<1>10. ASSUME NEW s \in snapshot, CompleteLot(s) PROVE StoredPayable' /\ ProcessedStored'
  <2>1. s.lot \in Lots /\ processedEvents' = processedEvents
    BY <1>10 DEF IInv, TypeOK, CompleteLot, billingVars
  <2>2. bids[s.lot] # {} => Ev("won", LastBid(s.lot).user, s.lot, 0) \in StoredEvent
        /\ Ev("won", LastBid(s.lot).user, s.lot, 0).type = "won"
    BY <1>5, <1>6, <2>1 DEF Ev, StoredEvent, EventTypes
  <2>3. Ev("closed", Offer[s.lot].owner, s.lot, 0) \in StoredEvent
        /\ Ev("closed", Offer[s.lot].owner, s.lot, 0).type = "closed"
    BY <1>5, <2>1, AuctionAssumption DEF Ev, StoredEvent, EventTypes
  <2>4. QED
    BY <1>2, <1>4, <1>10, <2>1, <2>2, <2>3 DEF CompleteLot
<1>11. ASSUME NEW i \in DOMAIN stored, HandleStored(i) PROVE StoredPayable' /\ ProcessedStored'
  <2>1. stored' = stored /\ processedEvents' = processedEvents \union {i}
    BY <1>11 DEF HandleStored, lotVars, HandleBidReleased, HandleLotReceived, MarkProcessed
  <2>2. QED
    BY <1>1, <2>1 DEF StoredPayable, ProcessedStored
<1>12. ASSUME NEW c \in Calls, ServePayment(c) \/ ServeLate(c)
       PROVE  StoredPayable' /\ ProcessedStored'
  BY <1>2, <1>12 DEF ServePayment, ServeLate, ProcessLotPayment, billingVars, lotVars
<1>13. QED
  BY <1>2, <1>7, <1>8, <1>9, <1>10, <1>11, <1>12
     DEF Next, vars, billingVars, lotVars, PayForBid, PlaceBid, CompleteLots, BillingWork,
         StartBid, ReceivePaid, ReceiveRefused, ReceiveOther, LosePayment, BeginBid,
         RejectBid, CancelGivesUp, ReadCompletedLots, CompletionFails,
         TopUpFunds, TopUpAccount, Crash, Tick

\* A call is charged when, and not before, Billing has recorded its payment.
LEMMA ChargedStep ==
  ASSUME IInv, [Next]_vars
  PROVE  CallsCharged'
<1>1. /\ pc \in [Calls -> {"idle"} \union Awaiting \union Charged \union Ended]
      /\ late \in [Calls -> Nat] /\ CallsCharged
  BY DEF IInv, TypeOK
<1>2. ASSUME NEW c \in Calls, NEW to, processedRequests' = processedRequests, late' = late,
             At(c, to), to # "idle",
             to \in Charged \union {"200", "409", "done", "cancelled"}
               => c \in processedRequests
      PROVE  CallsCharged'
  BY <1>1, <1>2 DEF CallsCharged, At
<1>3. ASSUME processedRequests \subseteq processedRequests',
             \A c \in Calls : c \in processedRequests' => c \in processedRequests,
             pc' = pc, late' = late
      PROVE  CallsCharged'
  BY <1>1, <1>3 DEF CallsCharged
<1>4. ASSUME NEW c \in Calls, PayForBid(c) PROVE CallsCharged'
  <2>1. ASSUME NEW b, StartBid(c, b) PROVE CallsCharged'
    BY <1>2, <2>1 DEF StartBid, billingVars, Charged
  <2>2. CASE ServePayment(c)
    <3>1. CASE ProcessLotPayment(c, arg[c].user, arg[c].lot, arg[c].amount) /\ At(c, "200")
      BY <1>1, <2>2, <3>1 DEF ServePayment, ProcessLotPayment, CallsCharged, At
    <3>2. CASE ~ProcessLotPayment(c, arg[c].user, arg[c].lot, arg[c].amount)
      BY <1>2, <2>2, <3>2 DEF ServePayment, PaymentConflict, billingVars, Charged
    <3>3. CASE ~At(c, "200")
      BY <1>2, <2>2, <3>3 DEF ServePayment, PaymentConflict, billingVars, Charged
    <3>4. QED
      BY <3>1, <3>2, <3>3
  <2>3. CASE ReceivePaid(c)
    BY <1>1, <1>2, <2>3 DEF ReceivePaid, PaymentConfirmed, CallsCharged, billingVars
  <2>4. CASE ReceiveRefused(c)
    BY <1>2, <2>4 DEF ReceiveRefused, billingVars, Charged
  <2>5. ASSUME NextAttempt(c), UNCHANGED billingVars,
               pc[c] # "idle", late' \in [Calls -> Nat],
               \A d \in Calls : d # c => late'[d] = late[d]
        PROVE  CallsCharged'
    BY <1>1, <2>5 DEF NextAttempt, At, CallsCharged, billingVars, Charged
  <2>6. CASE ReceiveOther(c)
    BY <1>1, <2>5, <2>6 DEF ReceiveOther
  <2>7. CASE LosePayment(c)
    <3>1. late' \in [Calls -> Nat] /\ \A d \in Calls : d # c => late'[d] = late[d]
      BY <1>1, <2>7 DEF LosePayment
    <3>2. QED
      BY <2>5, <2>7, <3>1 DEF LosePayment, Awaiting, Answers
  <2>8. CASE ServeLate(c)
    <3>1. late[c] > 0 /\ pc' = pc /\ late' = [late EXCEPT ![c] = late[c] - 1]
      BY <2>8 DEF ServeLate
    <3>2. processedRequests' = processedRequests
          \/ processedRequests' = processedRequests \union {c}
      BY <2>8 DEF ServeLate, ProcessLotPayment, billingVars
    <3>3. \A d \in Calls : late'[d] > 0 => late[d] > 0
      BY <1>1, <3>1
    <3>4. QED
      BY <1>1, <3>1, <3>2, <3>3 DEF CallsCharged
  <2>9. QED
    BY <1>4, <2>1, <2>2, <2>3, <2>4, <2>6, <2>7, <2>8 DEF PayForBid
<1>5. ASSUME NEW c \in Calls, PlaceBid(c) PROVE CallsCharged'
  <2>1. CASE pc[c] \in Charged /\ BeginBid(c)
    BY <1>1, <1>2, <2>1 DEF BeginBid, CallsCharged, billingVars
  <2>2. CASE pc[c] \in Charged /\ StoreBid(c)
    BY <1>1, <1>2, <2>2 DEF StoreBid, CallsCharged, billingVars
  <2>3. CASE pc[c] \in Charged /\ RejectBid(c)
    BY <1>1, <1>2, <2>3 DEF RejectBid, CallsCharged, billingVars
  <2>4. CASE pc[c] \in Charged /\ SendCancelled(c)
    BY <1>1, <1>2, <2>4 DEF SendCancelled, CallsCharged, billingVars
  <2>5. CASE CancelGivesUp(c)
    BY <1>2, <2>5 DEF CancelGivesUp, billingVars, Charged
  <2>6. pc[c] \in Charged
    BY <1>5 DEF PlaceBid, BeginBid, StoreBid, RejectBid, SendCancelled, CancelGivesUp, Charged
  <2>7. QED
    BY <1>5, <2>1, <2>2, <2>3, <2>4, <2>5, <2>6 DEF PlaceBid
<1>6. CASE Crash
  <2>1. /\ processedRequests' = processedRequests
        /\ pc' = [c \in Calls |-> IF pc[c] \in {"idle"} \union Ended THEN pc[c] ELSE "lost"]
        /\ late' = [c \in Calls |-> IF pc[c] = "sent" THEN late[c] + 1 ELSE late[c]]
    BY <1>6 DEF Crash, billingVars
  <2>2. "lost" \notin Charged /\ "idle" \notin Charged \union Ended
    BY DEF Charged, Ended
  <2>3. \A c \in Calls : late'[c] > 0 => late[c] > 0 \/ pc[c] # "idle"
    BY <2>1
  <2>4. \A c \in Calls : pc[c] # "idle" => pc'[c] # "idle"
    BY <2>1
  <2>5. \A c \in Calls : pc'[c] = pc[c] \/ pc'[c] = "lost"
    BY <2>1
  <2>6. QED
    BY <1>1, <2>1, <2>2, <2>3, <2>4, <2>5 DEF CallsCharged
<1>7. ASSUME NEW i \in DOMAIN stored, HandleStored(i) PROVE CallsCharged'
  BY <1>3, <1>7 DEF HandleStored, HandleBidReleased, HandleLotReceived, MarkProcessed, callVars
<1>8. ASSUME NEW r \in Requests, NEW u \in Users, NEW a \in Amounts, TopUpFunds(r, u, a)
      PROVE  CallsCharged'
  BY <1>3, <1>8 DEF TopUpFunds, TopUpAccount, callVars
<1>9. QED
  BY <1>3, <1>4, <1>5, <1>6, <1>7, <1>8
     DEF Next, vars, billingVars, callVars, LifeOfLot, CompleteLots, BillingWork,
         CreateLot, HandleReport, SetLotSent, SetLotReceived,
         ReadCompletedLots, CompleteLot, CompletionFails, Tick

----------------------------------------------------------------------------
(* Every step keeps the funds accounted for.                               *)

\* The steps that store no event and move no payment.
LEMMA SilentStep ==
  ASSUME IInv, UNCHANGED billingVars,
         stored' = stored, bids' = bids,
         \A c \in Calls : c \in processedRequests =>
           /\ arg'[c] = arg[c]
           /\ pc'[c] \in {"done", "cancelled"} <=> pc[c] \in {"done", "cancelled"}
  PROVE  FundsAccounted'
<1>1. account' = account /\ processedRequests' = processedRequests
      /\ processedEvents' = processedEvents
  BY DEF billingVars
<1>2. QED
  BY <1>1, QuietStep

\* A call moves on without storing its bid or cancelling it.
LEMMA CallMoves ==
  ASSUME IInv, UNCHANGED billingVars,
         UNCHANGED <<stored, bids, arg>>, NEW c \in Calls, NEW to, At(c, to),
         to \notin {"done", "cancelled"}, pc[c] \notin {"done", "cancelled"}
  PROVE  FundsAccounted'
<1>1. \A d \in Calls : pc'[d] \in {"done", "cancelled"} <=> pc[d] \in {"done", "cancelled"}
  BY DEF IInv, TypeOK, At
<1>2. QED
  BY <1>1, SilentStep

LEMMA FundsStep ==
  ASSUME IInv, [Next]_vars
  PROVE  FundsAccounted'
<1>1. ASSUME NEW c \in Calls, PayForBid(c) PROVE FundsAccounted'
  <2>1. ASSUME NEW b \in Bids, StartBid(c, b) PROVE FundsAccounted'
    <3>1. \A d \in Calls : d \in processedRequests => d # c
      BY <2>1 DEF IInv, CallsCharged, StartBid
    <3>2. \A d \in Calls : d # c => arg'[d] = arg[d] /\ pc'[d] = pc[d]
      BY <2>1 DEF IInv, TypeOK, StartBid, At
    <3>3. UNCHANGED billingVars /\ UNCHANGED <<stored, bids>>
      BY <2>1 DEF StartBid, lotVars
    <3>4. QED
      BY <3>1, <3>2, <3>3, SilentStep
  <2>2. CASE ServePayment(c)
    <3>1. pc[c] = "sent" /\ UNCHANGED <<arg, lotVars>>
      BY <2>2 DEF ServePayment
    <3>2. CASE /\ ProcessLotPayment(c, arg[c].user, arg[c].lot, arg[c].amount)
               /\ At(c, "200")
      <4>1. \A d \in Calls :
              pc'[d] \in {"done", "cancelled"} <=> pc[d] \in {"done", "cancelled"}
        BY <3>1, <3>2 DEF IInv, TypeOK, At
      <4>2. arg[c] \in BidArgs
        BY <3>1 DEF IInv, TypeOK
      <4>3. QED
        BY <3>1, <3>2, <4>1, <4>2, PaymentAccounted
    <3>3. CASE UNCHANGED billingVars /\ \E to \in {"400", "409", "500"} : At(c, to)
      BY <3>1, <3>3, CallMoves DEF lotVars
    <3>4. QED
      BY <2>2, <3>2, <3>3 DEF ServePayment
  <2>3. CASE ReceivePaid(c)
    BY <2>3, CallMoves DEF ReceivePaid, PaymentConfirmed, lotVars
  <2>4. CASE ReceiveRefused(c)
    BY <2>4, CallMoves DEF ReceiveRefused, lotVars
  <2>5. ASSUME NextAttempt(c), UNCHANGED billingVars, UNCHANGED <<arg, lotVars>>,
               pc[c] \notin {"done", "cancelled"}
        PROVE  FundsAccounted'
    BY <2>5, CallMoves DEF NextAttempt, lotVars
  <2>6. CASE ReceiveOther(c)
    BY <2>5, <2>6 DEF ReceiveOther
  <2>7. CASE LosePayment(c)
    BY <2>5, <2>7 DEF LosePayment, Awaiting, Answers
  <2>8. CASE ServeLate(c)
    <3>1. late[c] > 0 /\ UNCHANGED <<pc, arg, lotVars>>
      BY <2>8 DEF ServeLate
    <3>2. CASE ProcessLotPayment(c, arg[c].user, arg[c].lot, arg[c].amount)
      <4>1. arg[c] \in BidArgs
        BY <3>1 DEF IInv, TypeOK, CallsCharged
      <4>2. QED
        BY <3>1, <3>2, <4>1, PaymentAccounted
    <3>3. CASE UNCHANGED billingVars
      BY <3>1, <3>3, SilentStep DEF lotVars
    <3>4. QED
      BY <2>8, <3>2, <3>3 DEF ServeLate
  <2>9. QED
    BY <1>1, <2>1, <2>2, <2>3, <2>4, <2>6, <2>7, <2>8 DEF PayForBid
<1>2. ASSUME NEW c \in Calls, PlaceBid(c) PROVE FundsAccounted'
  <2>1. CASE BeginBid(c)
    BY <2>1, CallMoves DEF BeginBid, lotVars
  <2>2. CASE RejectBid(c)
    BY <2>2, CallMoves DEF RejectBid, lotVars
  <2>3. CASE CancelGivesUp(c)
    BY <2>3, CallMoves DEF CancelGivesUp, lotVars
  <2>4. QED
    BY <1>2, <2>1, <2>2, <2>3, BidAccounted, CancelAccounted DEF PlaceBid
<1>3. ASSUME NEW l \in Lots, NEW type \in {"won", "closed", "sent", "received"},
             NEW u \in Users, NEW a \in Raw, Emit(Ev(type, u, l, a)),
             UNCHANGED billingVars, UNCHANGED <<bids, arg, pc>>
      PROVE  FundsAccounted'
  <2>1. Ev(type, u, l, a) \in StoredEvent /\ Ev(type, u, l, a).type = type
    BY DEF Ev, StoredEvent, EventTypes
  <2>2. /\ \A i \in DOMAIN stored : i \in DOMAIN stored' /\ stored'[i] = stored[i]
        /\ \A i \in DOMAIN stored' \ DOMAIN stored :
             stored'[i].type \notin {"outbid", "cancelled"}
    BY <1>3, <2>1, EmitFacts DEF IInv, TypeOK
  <2>3. account' = account /\ processedRequests' = processedRequests
        /\ processedEvents' = processedEvents
    BY <1>3 DEF billingVars
  <2>4. QED
    BY <1>3, <2>2, <2>3, QuietStep
<1>4. /\ \A l \in Lots : bids[l] # {}
           => LastBid(l).user \in Users /\ LastBid(l).amount \in Raw
      /\ 0 \in Raw
  <2>1. ASSUME NEW l \in Lots, bids[l] # {} PROVE LastBid(l) \in BidRow
    BY <2>1, LastBidIsGreatest DEF IInv, TypeOK
  <2>2. 0 \in Raw
    BY WidthAssumption DEF Raw
  <2>3. QED
    BY <2>1, <2>2, AmountsAssumption DEF BidRow
<1>5. ASSUME NEW l \in Lots, LifeOfLot(l) PROVE FundsAccounted'
  <2>1. ASSUME NEW r, NEW d, CreateLot(l, r, d) PROVE FundsAccounted'
    BY <2>1, SilentStep DEF CreateLot, callVars
  <2>2. CASE SetLotSent(l)
    BY <1>3, <1>4, <2>2 DEF SetLotSent, callVars
  <2>3. CASE SetLotReceived(l)
    BY <1>3, <1>4, <2>3 DEF SetLotReceived, callVars
  <2>4. QED
    BY <1>5, <2>1, <2>2, <2>3 DEF LifeOfLot, HandleReport
<1>6. CASE CompleteLots
  <2>1. CASE ReadCompletedLots \/ CompletionFails
    BY <2>1, SilentStep DEF ReadCompletedLots, CompletionFails, callVars
  <2>2. ASSUME NEW s \in snapshot, CompleteLot(s) PROVE FundsAccounted'
    <3>1. s.lot \in Lots /\ Offer[s.lot].owner \in Users
      BY AuctionAssumption DEF IInv, TypeOK
    <3>2. UNCHANGED billingVars /\ UNCHANGED <<bids, arg, pc>>
      BY <2>2 DEF CompleteLot, callVars
    <3>3. CASE stored' = stored
      BY <3>2, <3>3, SilentStep
    <3>4. CASE bids[s.lot] # {} /\ Emit(Ev("won", LastBid(s.lot).user, s.lot, 0))
      BY <1>3, <1>4, <3>1, <3>2, <3>4
    <3>5. CASE Emit(Ev("closed", Offer[s.lot].owner, s.lot, 0))
      BY <1>3, <1>4, <3>1, <3>2, <3>5
    <3>6. QED
      BY <2>2, <3>3, <3>4, <3>5 DEF CompleteLot
  <2>3. QED
    BY <1>6, <2>1, <2>2 DEF CompleteLots
<1>7. ASSUME NEW r \in Requests, NEW u \in Users, NEW a \in Amounts, TopUpFunds(r, u, a)
      PROVE  FundsAccounted'
  <2>1. /\ r \notin Calls /\ processedRequests' = processedRequests \union {r}
        /\ processedEvents' = processedEvents
        /\ account' = [account EXCEPT ![u] = TopUp(account[u], a)]
        /\ UNCHANGED <<pc, arg, bids, stored>>
    BY <1>7 DEF TopUpFunds, TopUpAccount, callVars, lotVars
  <2>2. account \in [Users -> AccountState]
    BY DEF IInv, TypeOK, BillingTypeOK
  <2>3. TopUp(account[u], a).lotBlocked = account[u].lotBlocked
    BY <2>2 DEF AccountState, TopUp
  <2>4. \A v \in Users, m \in Lots : account'[v].lotBlocked[m] = account[v].lotBlocked[m]
    BY <2>1, <2>2, <2>3
  <2>5. QED
    BY <2>1, <2>4, QuietStep
<1>8. CASE Crash
  <2>1. /\ pc' = [c \in Calls |-> IF pc[c] \in {"idle"} \union Ended THEN pc[c] ELSE "lost"]
        /\ UNCHANGED billingVars /\ UNCHANGED <<arg, bids, stored>>
    BY <1>8 DEF Crash
  <2>2. \A c \in Calls : pc'[c] \in {"done", "cancelled"} <=> pc[c] \in {"done", "cancelled"}
    BY <2>1 DEF Ended
  <2>3. QED
    BY <2>1, <2>2, SilentStep
<1>9. CASE Tick \/ UNCHANGED vars
  BY <1>9, SilentStep DEF Tick, vars, callVars, lotVars
<1>10. QED
  BY <1>1, <1>2, <1>5, <1>6, <1>7, <1>8, <1>9, EventAccounted DEF Next, BillingWork

----------------------------------------------------------------------------
(* The theorems.                                                           *)

LEMMA AuctionInitSound ==
  Init => IInv
<1> SUFFICES ASSUME Init PROVE IInv
  OBVIOUS
<1>1. ASSUME NEW u \in Users
      PROVE  /\ Sound(account[u]) /\ account[u].created
             /\ account[u].lotBlocked = [l \in Lots |-> 0]
  <2>1. account[u] = [created |-> TRUE, total |-> Funds[u], blocked |-> 0,
                      lotBlocked |-> [l \in Lots |-> 0]]
    BY DEF Init, EmptyAccount
  <2>2. Funds[u] \in Raw /\ 0 <= Funds[u] /\ 0 \in Raw
    BY AuctionAssumption, WidthAssumption DEF Raw
  <2>3. account[u] \in AccountState
    BY <2>1, <2>2 DEF AccountState
  <2>4. account[u].blocked = SumFunction(account[u].lotBlocked)
    BY <2>1, SumOfZeros, LotsAssumption
  <2>5. QED
    BY <2>1, <2>2, <2>3, <2>4 DEF Sound
<1>2. BillingTypeOK
  <2>1. account = [u \in Users |-> account[u]]
    BY DEF Init
  <2>2. \A u \in Users : account[u] \in AccountState
    BY <1>1 DEF Sound
  <2>3. account \in [Users -> AccountState]
    BY <2>1, <2>2
  <2>4. QED
    BY <2>3 DEF Init, BillingTypeOK
<1>3. TypeOK
  <2>1. stored \in Seq(StoredEvent)
    BY EmptySeq DEF Init
  <2>2. /\ pc \in [Calls -> {"idle"} \union Awaiting \union Charged \union Ended]
        /\ \A c \in Calls : pc[c] = "idle"
        /\ arg \in [Calls -> BidArgs \union {NoBid}]
        /\ attempt \in [Calls -> 0 .. MaxAttempts - 1]
    <3>1. 0 \in 0 .. MaxAttempts - 1
      BY AuctionAssumption
    <3>2. QED
      BY <3>1 DEF Init
  <2>3. /\ late \in [Calls -> Nat] /\ clock \in [Calls -> Nat]
        /\ lot \in [Lots -> [status : LotStatus, end : Nat]]
        /\ bids \in [Lots -> SUBSET BidRow] /\ lotRequests \subseteq LotRequests
        /\ snapshot \subseteq [lot : Lots, end : Nat]
        /\ now \in Nat
    BY DEF Init, LotStatus
  <2>4. QED
    BY <1>2, <2>1, <2>2, <2>3 DEF TypeOK
<1>4. DOMAIN stored = {}
  <2>1. stored = <<>> /\ Len(stored) = 0 /\ stored \in Seq(StoredEvent)
    BY EmptySeq DEF Init
  <2>2. DOMAIN stored = 1 .. 0
    BY <2>1, LenProperties
  <2>3. QED
    BY <2>2
<1>5. StoredPayable /\ ProcessedStored
  BY <1>4 DEF Init, StoredPayable, ProcessedStored
<1>6. BidsRanked /\ ReportedIsOver /\ ReceiptsOfLast
  BY <1>4 DEF Init, BidsRanked, ReportedIsOver, ReceiptsOfLast
<1>7. CallsCharged
  <2>1. \A c \in Calls : pc[c] = "idle" /\ late[c] = 0 /\ c \notin processedRequests
    BY DEF Init
  <2>2. QED
    BY <2>1 DEF CallsCharged, Charged
<1>8. Holders = {}
  <2>1. \A c \in Calls : ~CallHolds(c)
    BY DEF Init, CallHolds
  <2>2. \A l \in Lots : ~BidHolds(l)
    BY DEF Init, BidHolds
  <2>3. QED
    BY <1>4, <2>1, <2>2 DEF Holders
<1>9. FundsAccounted
  <2>1. DOMAIN Debts = {}
    BY <1>8, HolderFactsHold DEF HolderFacts
  <2>2. \A u \in Users, l \in SettledAtMostOnce : account[u].lotBlocked[l] = 0
    BY <1>1, SettledOnceAreLots
  <2>3. QED
    BY <2>1, <2>2 DEF FundsAccounted, Accounted
<1>10. QED
  BY <1>1, <1>3, <1>5, <1>6, <1>7, <1>9 DEF IInv, AccountsSound

LEMMA IInvInductive ==
  ASSUME ~WrapAllowed
  PROVE  IInv /\ [Next]_vars => IInv'
<1> SUFFICES ASSUME IInv, [Next]_vars PROVE IInv'
  OBVIOUS
<1>1. BillingTypeOK' /\ AccountsSound'
  BY SoundStep
<1>2. TypeOK'
  BY <1>1, TypeStep
<1>3. QED
  BY <1>1, <1>2, StoredStep, RankedStep, ReportedStep, ChargedStep, FundsStep DEF IInv

LEMMA IInvForever == ~WrapAllowed => (Spec => []IInv)
<1> SUFFICES ASSUME ~WrapAllowed PROVE Spec => []IInv
  OBVIOUS
<1>1. Init => IInv
  BY AuctionInitSound
<1>2. IInv /\ [Next]_vars => IInv'
  BY IInvInductive
<1>3. QED
  BY <1>1, <1>2, PTL DEF Spec

\* Type correctness of the auction with Billing, crashes and late requests
\* included.
THEOREM AuctionTypeCorrect ==
  ASSUME ~WrapAllowed
  PROVE  Spec => []TypeOK
<1>1. Spec => []IInv
  BY IInvForever
<1>2. IInv => TypeOK
  BY DEF IInv
<1>3. QED
  BY <1>1, <1>2, PTL

\* For every lot that Billing has not settled twice, each blocked payment has
\* exactly one holder, for any number of users, lots, calls and attempts and
\* however often Delivery reports a lot.
THEOREM AuctionFundsAccounted ==
  ASSUME ~WrapAllowed
  PROVE  Spec => []FundsAccounted
<1>1. Spec => []IInv
  BY IInvForever
<1>2. IInv => FundsAccounted
  BY DEF IInv
<1>3. QED
  BY <1>1, <1>2, PTL

\* No pending event becomes inapplicable, except the lot_received events of a
\* lot settled already (and, for a lot settled twice, those that release a
\* payment).  A pending bid_outbid or bid_cancelled holds a payment, so the
\* amount it carries is what is blocked for its user and lot; the first
\* lot_received event of a lot finds blocked what the last bid holds.
THEOREM AuctionEventsApplicable ==
  ASSUME ~WrapAllowed
  PROVE  Spec => []EventsApplicable
<1>1. Spec => []IInv
  BY IInvForever
<1>2. IInv => EventsApplicable
  <2> SUFFICES ASSUME IInv, NEW i \in DOMAIN stored \ processedEvents
               PROVE  LET ev == stored[i] IN
                      /\ ev.type \in {"outbid", "cancelled"} /\ ev.lot \in SettledAtMostOnce
                           => CanUnblock(account[ev.user], ev.lot, ev.amount)
                      /\ ev.type = "received" /\ ~Settled(ev.lot)
                           => /\ CanFinish(account[ev.user], ev.lot, ev.amount)
                              /\ CanReceive(account[Offer[ev.lot].owner])
    BY DEF EventsApplicable
  <2>1. stored[i] \in StoredEvent
    BY DEF IInv, TypeOK
  <2> DEFINE u == stored[i].user
             l == stored[i].lot
             a == stored[i].amount
  <2>2. u \in Users /\ l \in Lots /\ Offer[l].owner \in Users
    BY <2>1, AuctionAssumption DEF StoredEvent
  <2>3. account[u].lotBlocked[l] <= account[u].blocked
    BY <2>2, SoundCovered DEF IInv, AccountsSound
  <2>4. account[u].created /\ account[Offer[l].owner].created
    BY <2>2 DEF IInv, AccountsSound
  <2>5. ASSUME stored[i].type \in {"outbid", "cancelled"}, l \in SettledAtMostOnce
        PROVE  CanUnblock(account[u], l, a)
    <3>1. a # 0
      BY <2>5, AmountsAssumption DEF IInv, StoredPayable
    <3>2. <<"event", i>> \in Holders /\ Debts[<<"event", i>>] = Debt(u, l, a)
      BY <2>5, HolderFactsHold DEF HolderFacts, EventHolds
    <3>3. account[u].lotBlocked[l] = a
      BY <2>5, <3>2, HolderFactsHold DEF IInv, FundsAccounted, Accounted, HolderFacts, Debt
    <3>4. QED
      BY <2>3, <2>4, <3>1, <3>3 DEF CanUnblock, HasPayment
  <2>6. ASSUME stored[i].type = "received", ~Settled(l)
        PROVE  CanFinish(account[u], l, a) /\ CanReceive(account[Offer[l].owner])
    <3>1. a # 0
      BY <2>6, AmountsAssumption DEF IInv, StoredPayable
    <3>2. bids[l] # {} /\ u = LastBid(l).user /\ a = LastBid(l).amount
      BY <2>6 DEF IInv, ReceiptsOfLast
    <3>3. <<"bid", l>> \in Holders /\ Debts[<<"bid", l>>] = Debt(u, l, a)
      BY <2>2, <2>6, <3>2, HolderFactsHold DEF HolderFacts, BidHolds
    <3>4. l \in SettledAtMostOnce
      BY <2>2, <2>6 DEF SettledAtMostOnce, Settled
    <3>5. account[u].lotBlocked[l] = a
      BY <3>3, <3>4, HolderFactsHold DEF IInv, FundsAccounted, Accounted, HolderFacts, Debt
    <3>6. QED
      BY <2>3, <2>4, <3>1, <3>5 DEF CanFinish, CanReceive, HasPayment
  <2>7. QED
    BY <2>5, <2>6
<1>3. QED
  BY <1>1, <1>2, PTL
============================================================================
