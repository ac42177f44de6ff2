------------------------------ MODULE Account ------------------------------
(***************************************************************************)
(* The event-sourced billing account of billing/app/useraccountstate.go.   *)
(*                                                                         *)
(* An account is what replaying a user's event log yields: nothing before  *)
(* create_account, then a total, a blocked part of it, and the amount      *)
(* blocked for each lot.  Amounts are uint64 raw values (hundredths), so   *)
(* the arithmetic wraps at Width, which is 2^64 in the program.            *)
(***************************************************************************)
EXTENDS Integers, FiniteSets

CONSTANTS Lots,     \* lots a payment can be blocked for
          Width     \* the number of raw amounts: 2^64 in the program

ASSUME WidthAssumption == Width \in Nat \ {0}
ASSUME LotsAssumption == IsFiniteSet(Lots)

Raw == 0 .. Width - 1

\* lotBlocked[l] = 0 stands for a lot absent from lotBlockedAmountMap: no
\* event ever stores a zero there, as a payment of 0 is refused.
AccountState ==
  [created : BOOLEAN, total : Raw, blocked : Raw, lotBlocked : [Lots -> Raw]]

EmptyAccount ==
  [created |-> FALSE, total |-> 0, blocked |-> 0,
   lotBlocked |-> [l \in Lots |-> 0]]

\* uint64 addition and subtraction.
Plus(x, y)  == IF x + y < Width THEN x + y ELSE x + y - Width
Minus(x, y) == IF y <= x THEN x - y ELSE x - y + Width

\* Amount(): the funds that are not blocked.
Available(acc) == Minus(acc.total, acc.blocked)

----------------------------------------------------------------------------
(* Account events.  Can* is the condition under which apply*Event returns  *)
(* no error, the other operator the state it leaves.                       *)

AccountEventTypes == {"create", "topUp", "block", "unblock", "finish", "receive"}

CanCreateAccount(acc) == ~acc.created
CreateAccount(acc)    == [acc EXCEPT !.created = TRUE]

CanTopUp(acc)   == acc.created
TopUp(acc, a)   == [acc EXCEPT !.total = Plus(@, a)]

\* Mutant of CanBlock: no check of the funds.
CanBlockOverdrawn(acc, l, a) == acc.created /\ a # 0 /\ acc.lotBlocked[l] = 0

CanBlock(acc, l, a) ==
  /\ acc.created
  /\ a <= Available(acc)
  /\ a # 0
  /\ acc.lotBlocked[l] = 0
Block(acc, l, a) ==
  [acc EXCEPT !.blocked = Plus(@, a), !.lotBlocked[l] = a]

\* A blocked payment for lot l of exactly this amount.
HasPayment(acc, l, a) ==
  /\ acc.lotBlocked[l] # 0
  /\ acc.lotBlocked[l] = a
  /\ a <= acc.blocked

CanUnblock(acc, l, a) == acc.created /\ HasPayment(acc, l, a)
\* Mutant of Unblock: only the lot's entry is removed.
UnblockEntry(acc, l, a) == [acc EXCEPT !.lotBlocked[l] = 0]

Unblock(acc, l, a) ==
  [acc EXCEPT !.blocked = Minus(@, a), !.lotBlocked[l] = 0]

CanFinish(acc, l, a) == acc.created /\ HasPayment(acc, l, a)
\* Mutant of Finish: the payment is released, not taken.
FinishReleases(acc, l, a) == Unblock(acc, l, a)

Finish(acc, l, a) ==
  [acc EXCEPT !.total = Minus(@, a), !.blocked = Minus(@, a),
              !.lotBlocked[l] = 0]

CanReceive(acc) == acc.created
Receive(acc, a) == [acc EXCEPT !.total = Plus(@, a)]

\* The dispatch of applyEvent on an event of the log.
CanApply(acc, ev) ==
  CASE ev.type = "create"  -> CanCreateAccount(acc)
    [] ev.type = "topUp"   -> CanTopUp(acc)
    [] ev.type = "block"   -> CanBlock(acc, ev.lot, ev.amount)
    [] ev.type = "unblock" -> CanUnblock(acc, ev.lot, ev.amount)
    [] ev.type = "finish"  -> CanFinish(acc, ev.lot, ev.amount)
    [] ev.type = "receive" -> CanReceive(acc)
Apply(acc, ev) ==
  CASE ev.type = "create"  -> CreateAccount(acc)
    [] ev.type = "topUp"   -> TopUp(acc, ev.amount)
    [] ev.type = "block"   -> Block(acc, ev.lot, ev.amount)
    [] ev.type = "unblock" -> Unblock(acc, ev.lot, ev.amount)
    [] ev.type = "finish"  -> Finish(acc, ev.lot, ev.amount)
    [] ev.type = "receive" -> Receive(acc, ev.amount)
============================================================================
