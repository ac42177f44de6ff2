--------------------------- MODULE BillingProofs ---------------------------
(***************************************************************************)
(* Theorems about Billing, for every set of users, lots, requests, events  *)
(* and every width of amounts.                                             *)
(*                                                                         *)
(* BlockedIsCovered is not inductive: that one lot's payment is within the *)
(* blocked part follows from the blocked part being the sum of all of      *)
(* them, which is inductive together with the blocked part being within    *)
(* the total (Sound).                                                      *)
(***************************************************************************)
EXTENDS Billing, FiniteSetTheorems, WellFoundedInduction, TLAPS

\* The inductive invariant of one account.
Sound(acc) ==
  /\ acc \in AccountState
  /\ acc.blocked <= acc.total
  /\ acc.blocked = SumFunction(acc.lotBlocked)

BillingIInv ==
  /\ BillingTypeOK
  /\ \A u \in Users : Sound(account[u])

----------------------------------------------------------------------------
(* Sums.  SumFunctionOnSet removes the elements of a set one by one with a *)
(* recursive function on its subsets.  That such a function exists, and    *)
(* what it computes, is proved by taking a smallest set for which it fails. *)

\* A property of finite sets that fails for one fails for a smallest one.
LEMMA SmallestSet ==
  ASSUME NEW D, IsFiniteSet(D), NEW Bad, Bad \subseteq SUBSET D, Bad # {}
  PROVE  \E T \in Bad : \A U \in Bad : ~(U \subseteq T /\ U # T)
<1>1. Bad \subseteq FiniteSubsetsOf(D)
  BY FS_FiniteSubsetsOfFinite
<1>2. PICK T \in Bad : \A U \in Bad : ~(<<U, T>> \in StrictSubsetOrdering(D))
  BY <1>1, FS_StrictSubsetOrderingWellFounded, WFMin, Zenon
<1>3. QED
  BY <1>2 DEF StrictSubsetOrdering

\* The element removed first, and one step of the recursion.
Removed(T) == CHOOSE x \in T : TRUE
SumStep(f, sum, T) == IF T = {} THEN 0 ELSE f[Removed(T)] + sum[T \ {Removed(T)}]
IsSum(f, sum, T) == sum = [U \in SUBSET T |-> SumStep(f, sum, U)]

LEMMA SumDefinition ==
  ASSUME NEW f, NEW T
  PROVE  SumFunctionOnSet(f, T) = (CHOOSE sum : IsSum(f, sum, T))[T]
BY DEF SumFunctionOnSet, FoldFunctionOnSet, MapThenFoldSet, IsSum, SumStep, Removed

LEMMA SumUnique ==
  ASSUME NEW f, NEW D, IsFiniteSet(D), NEW T \in SUBSET D,
         NEW g, IsSum(f, g, T), NEW h, IsSum(f, h, D)
  PROVE  g[T] = h[T]
<1> DEFINE Bad == {U \in SUBSET T : g[U] # h[U]}
<1> SUFFICES ASSUME Bad # {} PROVE FALSE
  OBVIOUS
<1>1. PICK U \in Bad : \A V \in Bad : ~(V \subseteq U /\ V # U)
  <2>1. IsFiniteSet(T) /\ Bad \subseteq SUBSET T
    BY FS_Subset
  <2> HIDE DEF Bad
  <2>2. QED
    BY <2>1, SmallestSet
<1>2. g[U] = SumStep(f, g, U) /\ h[U] = SumStep(f, h, U)
  BY DEF IsSum
<1>3. U # {}
  BY <1>2 DEF SumStep
<1>4. Removed(U) \in U
  BY <1>3 DEF Removed
<1>5. g[U \ {Removed(U)}] = h[U \ {Removed(U)}]
  BY <1>1, <1>4
<1>6. QED
  BY <1>2, <1>3, <1>5 DEF SumStep

LEMMA SumExists ==
  ASSUME NEW f, NEW D, IsFiniteSet(D)
  PROVE  \E g : IsSum(f, g, D)
<1> DEFINE Bad == {T \in SUBSET D : ~\E g : IsSum(f, g, T)}
<1> SUFFICES ASSUME Bad # {} PROVE FALSE
  OBVIOUS
<1>1. PICK T \in Bad : \A U \in Bad : ~(U \subseteq T /\ U # T)
  <2>1. Bad \subseteq SUBSET D
    OBVIOUS
  <2> HIDE DEF Bad
  <2>2. QED
    BY <2>1, SmallestSet
<1> DEFINE Sum(U) == SumFunctionOnSet(f, U)
           SumOfRest(U) == IF U = {} THEN 0
                           ELSE f[Removed(U)] + Sum(U \ {Removed(U)})
           g == [U \in SUBSET T |-> SumOfRest(U)]
<1>2. ASSUME NEW U \in SUBSET T, U # T
      PROVE  IsSum(f, CHOOSE s : IsSum(f, s, U), U) /\ Sum(U) = (CHOOSE s : IsSum(f, s, U))[U]
  <2>1. \E s : IsSum(f, s, U)
    BY <1>1, <1>2
  <2>2. QED
    BY <2>1, SumDefinition
<1>3. ASSUME NEW U \in SUBSET T, U # T PROVE Sum(U) = SumOfRest(U)
  <2> DEFINE s == CHOOSE s : IsSum(f, s, U)
  <2>1. IsSum(f, s, U) /\ Sum(U) = s[U]
    BY <1>2, <1>3
  <2> HIDE DEF s
  <2>2. s[U] = SumStep(f, s, U)
    BY <2>1 DEF IsSum
  <2>3. CASE U = {}
    BY <2>1, <2>2, <2>3 DEF SumStep
  <2>4. CASE U # {}
    <3> DEFINE V == U \ {Removed(U)}
               t == CHOOSE t : IsSum(f, t, V)
    <3>1. Removed(U) \in U
      BY <2>4 DEF Removed
    <3>2. V \in SUBSET T /\ V # T /\ V \in SUBSET U /\ IsFiniteSet(U)
      BY <1>3, <3>1, FS_Subset
    <3>3. IsSum(f, t, V) /\ Sum(V) = t[V]
      BY <1>2, <3>2
    <3> HIDE DEF t
    <3>4. t[V] = s[V]
      BY <2>1, <3>2, <3>3, SumUnique
    <3>5. QED
      BY <2>1, <2>2, <2>4, <3>3, <3>4 DEF SumStep
  <2>5. QED
    BY <2>3, <2>4
<1>4. ASSUME NEW U \in SUBSET T PROVE g[U] = SumStep(f, g, U)
  <2>1. CASE U = {}
    BY <2>1 DEF SumStep
  <2>2. CASE U # {}
    <3>1. Removed(U) \in U
      BY <2>2 DEF Removed
    <3>2. g[U \ {Removed(U)}] = Sum(U \ {Removed(U)})
      BY <1>3, <3>1
    <3>3. QED
      BY <2>2, <3>2 DEF SumStep
  <2>3. QED
    BY <2>1, <2>2
<1>5. IsSum(f, g, T)
  BY <1>4 DEF IsSum
<1>6. QED
  BY <1>1, <1>5

\* The equation of the recursion, for every finite set.
LEMMA SumRecursion ==
  ASSUME NEW f, NEW D, IsFiniteSet(D)
  PROVE  SumFunctionOnSet(f, D)
           = IF D = {} THEN 0
             ELSE f[Removed(D)] + SumFunctionOnSet(f, D \ {Removed(D)})
<1> DEFINE s == CHOOSE s : IsSum(f, s, D)
           V == D \ {Removed(D)}
           t == CHOOSE t : IsSum(f, t, V)
<1>1. IsSum(f, s, D) /\ SumFunctionOnSet(f, D) = s[D]
  BY SumExists, SumDefinition
<1>2. IsFiniteSet(V)
  BY FS_Subset
<1>3. IsSum(f, t, V) /\ SumFunctionOnSet(f, V) = t[V]
  BY <1>2, SumExists, SumDefinition
<1> HIDE DEF s, t
<1>4. s[D] = SumStep(f, s, D)
  BY <1>1 DEF IsSum
<1>5. t[V] = s[V]
  BY <1>1, <1>3, SumUnique
<1>6. QED
  BY <1>1, <1>3, <1>4, <1>5 DEF SumStep

\* A sum of naturals, and what changing the function at one point does to it.
LEMMA SumChanged ==
  ASSUME NEW D, IsFiniteSet(D), NEW f \in [D -> Nat], NEW g \in [D -> Nat],
         NEW l, \A x \in D : x # l => g[x] = f[x]
  PROVE  \A T \in SUBSET D :
           /\ SumFunctionOnSet(f, T) \in Nat
           /\ SumFunctionOnSet(g, T)
                = SumFunctionOnSet(f, T) + IF l \in T THEN g[l] - f[l] ELSE 0
<1> DEFINE F(T) == SumFunctionOnSet(f, T)
           G(T) == SumFunctionOnSet(g, T)
           Diff(T) == IF l \in T THEN g[l] - f[l] ELSE 0
           Holds(T) == F(T) \in Nat /\ G(T) = F(T) + Diff(T)
           Bad == {T \in SUBSET D : ~Holds(T)}
<1> SUFFICES ASSUME Bad # {} PROVE FALSE
  OBVIOUS
<1>1. PICK T \in Bad : \A U \in Bad : ~(U \subseteq T /\ U # T)
  <2>1. Bad \subseteq SUBSET D
    OBVIOUS
  <2> HIDE DEF Bad
  <2>2. QED
    BY <2>1, SmallestSet
<1> DEFINE x == Removed(T)
           V == T \ {x}
<1>2. IsFiniteSet(T)
  BY FS_Subset
<1>3. T # {}
  <2>1. T = {} => F(T) = 0 /\ G(T) = 0
    BY <1>2, SumRecursion
  <2>2. QED
    BY <2>1
<1>4. x \in T
  BY <1>3 DEF Removed
<1>5. Holds(V)
  BY <1>1, <1>4
<1>6. F(T) = f[x] + F(V) /\ G(T) = g[x] + G(V)
  BY <1>2, <1>3, SumRecursion
<1>7. f[x] \in Nat /\ g[x] \in Nat /\ (x # l => g[x] = f[x]) /\ (l \in T => f[l] \in Nat /\ g[l] \in Nat)
  BY <1>4
<1> HIDE DEF F, G
<1>8. CASE x = l
  <2>1. l \in T /\ l \notin V
    BY <1>4, <1>8
  <2>2. QED
    BY <1>5, <1>6, <1>7, <1>8, <2>1
<1>9. CASE x # l
  <2>1. l \in T <=> l \in V
    BY <1>9
  <2>2. QED
    BY <1>5, <1>6, <1>7, <1>9, <2>1
<1>10. QED
  BY <1>8, <1>9

\* The sum of all of a function, its value at one point replaced by a.
LEMMA SumUpdated ==
  ASSUME NEW D, IsFiniteSet(D), NEW f \in [D -> Nat], NEW l \in D, NEW a \in Nat
  PROVE  /\ SumFunction(f) \in Nat
         /\ f[l] <= SumFunction(f)
         /\ SumFunction([f EXCEPT ![l] = a]) = SumFunction(f) - f[l] + a
<1>1. ASSUME NEW b \in Nat
      PROVE  /\ SumFunction(f) \in Nat /\ SumFunction([f EXCEPT ![l] = b]) \in Nat
             /\ SumFunction([f EXCEPT ![l] = b]) = SumFunction(f) - f[l] + b
  <2> DEFINE g == [f EXCEPT ![l] = b]
  <2>1. g \in [D -> Nat] /\ g[l] = b /\ \A x \in D : x # l => g[x] = f[x] /\ f[x] = g[x]
    OBVIOUS
  <2> HIDE DEF g
  <2>2. SumFunctionOnSet(f, D) \in Nat /\ SumFunctionOnSet(g, D) \in Nat
    BY <2>1, SumChanged
  <2>3. SumFunctionOnSet(g, D) = SumFunctionOnSet(f, D) + (g[l] - f[l])
    BY <2>1, SumChanged
  <2>4. DOMAIN f = D /\ DOMAIN g = D
    BY <2>1
  <2>5. f[l] \in Nat
    OBVIOUS
  <2>6. SumFunctionOnSet(g, D) = SumFunctionOnSet(f, D) - f[l] + b
    BY <1>1, <2>1, <2>2, <2>3, <2>5
  <2>7. QED
    BY <2>2, <2>4, <2>6 DEF SumFunction, g
<1>2. f[l] \in Nat
  OBVIOUS
<1>3. SumFunction([f EXCEPT ![l] = 0]) \in Nat
      /\ SumFunction([f EXCEPT ![l] = 0]) = SumFunction(f) - f[l] + 0
  BY <1>1
<1>4. SumFunction(f) \in Nat
  BY <1>1
<1>5. f[l] <= SumFunction(f)
  BY <1>2, <1>3, <1>4
<1>6. SumFunction([f EXCEPT ![l] = a]) = SumFunction(f) - f[l] + a
  BY <1>1, <1>2, <1>4
<1>7. QED
  BY <1>4, <1>5, <1>6

\* Zeros sum to zero.
LEMMA SumOfZeros ==
  ASSUME NEW D, IsFiniteSet(D)
  PROVE  SumFunction([x \in D |-> 0]) = 0
<1> DEFINE f == [x \in D |-> 0]
           Bad == {T \in SUBSET D : SumFunctionOnSet(f, T) # 0}
<1>1. ASSUME Bad # {} PROVE FALSE
  <2>1. PICK T \in Bad : \A U \in Bad : ~(U \subseteq T /\ U # T)
    <3>1. Bad \subseteq SUBSET D
      OBVIOUS
    <3> HIDE DEF Bad
    <3>2. QED
      BY <1>1, <3>1, SmallestSet
  <2>2. IsFiniteSet(T)
    BY FS_Subset
  <2>3. T # {} /\ SumFunctionOnSet(f, T) = f[Removed(T)] + SumFunctionOnSet(f, T \ {Removed(T)})
    BY <2>2, SumRecursion
  <2>4. Removed(T) \in T
    BY <2>3 DEF Removed
  <2>5. SumFunctionOnSet(f, T \ {Removed(T)}) = 0 /\ f[Removed(T)] = 0
    BY <2>1, <2>4
  <2>6. QED
    BY <2>3, <2>5
<1>2. QED
  BY <1>1 DEF SumFunction

----------------------------------------------------------------------------
(* Each account operation keeps an account sound.                          *)

LEMMA EmptySound ==
  Sound(EmptyAccount)
<1>1. EmptyAccount \in AccountState
  BY WidthAssumption DEF EmptyAccount, AccountState, Raw
<1>2. EmptyAccount.blocked = SumFunction(EmptyAccount.lotBlocked)
  BY LotsAssumption, SumOfZeros DEF EmptyAccount
<1>3. QED
  BY <1>1, <1>2 DEF EmptyAccount, Sound

LEMMA CreateSound ==
  ASSUME NEW acc, Sound(acc)
  PROVE  Sound(CreateAccount(acc))
BY DEF Sound, CreateAccount, AccountState

\* TopUp and Receive are the same addition to the total.
LEMMA TopUpSound ==
  ASSUME NEW acc, Sound(acc),
         NEW a \in Raw, acc.total + a < Width
  PROVE  Sound(TopUp(acc, a)) /\ Sound(Receive(acc, a))
<1>1. TopUp(acc, a) = [acc EXCEPT !.total = acc.total + a]
  BY DEF TopUp, Plus
<1>2. Receive(acc, a) = TopUp(acc, a)
  BY DEF Receive, TopUp
<1>3. acc.total + a \in Raw /\ acc.total <= acc.total + a
  BY WidthAssumption DEF Sound, AccountState, Raw
<1>4. QED
  BY <1>1, <1>2, <1>3, WidthAssumption DEF Sound, AccountState, Raw

LEMMA BlockSound ==
  ASSUME NEW acc, Sound(acc),
         NEW l \in Lots, NEW a \in Raw, CanBlock(acc, l, a)
  PROVE  Sound(Block(acc, l, a))
<1>1. /\ acc.blocked \in Raw /\ acc.total \in Raw /\ acc.created \in BOOLEAN
      /\ acc.blocked <= acc.total /\ acc.lotBlocked[l] = 0
      /\ acc.lotBlocked \in [Lots -> Raw] /\ acc.lotBlocked \in [Lots -> Nat]
      /\ a \in Nat
  BY WidthAssumption DEF CanBlock, Sound, AccountState, Raw
<1>2. a <= acc.total - acc.blocked
  BY <1>1, WidthAssumption DEF CanBlock, Available, Minus, Raw
<1>3. acc.blocked + a \in Raw /\ acc.blocked + a <= acc.total
  BY <1>1, <1>2, WidthAssumption DEF Raw
<1>4. Plus(acc.blocked, a) = acc.blocked + a
  BY <1>3, WidthAssumption DEF Plus, Raw
<1>5. Block(acc, l, a)
        = [acc EXCEPT !.blocked = acc.blocked + a, !.lotBlocked[l] = a]
  BY <1>4 DEF Block
<1>6. acc.blocked + a = SumFunction([acc.lotBlocked EXCEPT ![l] = a])
  BY <1>1, SumUpdated, LotsAssumption, WidthAssumption DEF Sound, Raw
<1>7. [acc.lotBlocked EXCEPT ![l] = a] \in [Lots -> Raw]
  BY <1>1
<1>8. QED
  BY <1>1, <1>3, <1>5, <1>6, <1>7 DEF Sound, AccountState

\* Unblock and Finish: the payment leaves the blocked part.
LEMMA ReleaseSound ==
  ASSUME NEW acc, Sound(acc),
         NEW l \in Lots, NEW a \in Raw, HasPayment(acc, l, a)
  PROVE  Sound(Unblock(acc, l, a)) /\ Sound(Finish(acc, l, a))
<1>1. /\ acc.blocked \in Raw /\ acc.total \in Raw /\ acc.created \in BOOLEAN
      /\ acc.blocked <= acc.total
      /\ acc.lotBlocked \in [Lots -> Raw] /\ acc.lotBlocked \in [Lots -> Nat]
      /\ acc.lotBlocked[l] = a /\ a <= acc.blocked
  BY WidthAssumption DEF HasPayment, Sound, AccountState, Raw
<1>2. /\ Unblock(acc, l, a)
           = [acc EXCEPT !.blocked = acc.blocked - a, !.lotBlocked[l] = 0]
      /\ Finish(acc, l, a)
           = [acc EXCEPT !.total = acc.total - a, !.blocked = acc.blocked - a,
                         !.lotBlocked[l] = 0]
  <2>1. Minus(acc.blocked, a) = acc.blocked - a /\ Minus(acc.total, a) = acc.total - a
    BY <1>1, WidthAssumption DEF Minus, Raw
  <2>2. QED
    BY <2>1 DEF Unblock, Finish
<1>3. acc.blocked - a = SumFunction([acc.lotBlocked EXCEPT ![l] = 0])
  <2>1. SumFunction([acc.lotBlocked EXCEPT ![l] = 0])
          = SumFunction(acc.lotBlocked) - acc.lotBlocked[l] + 0
    BY <1>1, SumUpdated, LotsAssumption
  <2>2. acc.blocked \in Int /\ a \in Int
    BY <1>1 DEF Raw
  <2>3. QED
    BY <1>1, <2>1, <2>2 DEF Sound
<1>4. /\ acc.blocked - a \in Raw /\ acc.total - a \in Raw /\ 0 \in Raw
      /\ acc.blocked - a <= acc.total /\ acc.blocked - a <= acc.total - a
  BY <1>1, WidthAssumption DEF Raw
<1>5. [acc.lotBlocked EXCEPT ![l] = 0] \in [Lots -> Raw]
  BY <1>1, <1>4
<1>6. QED
  BY <1>1, <1>2, <1>3, <1>4, <1>5 DEF Sound, AccountState

\* What soundness says of each lot's payment.
LEMMA SoundCovered ==
  ASSUME NEW acc, Sound(acc)
  PROVE  /\ acc.blocked <= acc.total
         /\ \A l \in Lots : acc.lotBlocked[l] <= acc.blocked
<1>1. acc.lotBlocked \in [Lots -> Nat]
  BY WidthAssumption DEF Sound, AccountState, Raw
<1>2. QED
  BY <1>1, SumUpdated, LotsAssumption DEF Sound

----------------------------------------------------------------------------
(* The inductive invariant.  A total stays within uint64 because the       *)
(* specification without WrapAllowed cuts the behaviours where it would    *)
(* not: this is the one assumption of the theorems below.                  *)

LEMMA InitSound ==
  BillingInit => BillingIInv
<1>1. Sound(EmptyAccount)
  BY EmptySound
<1>2. QED
  BY <1>1 DEF BillingInit, BillingIInv, BillingTypeOK, Sound

LEMMA TopUpStep ==
  ASSUME BillingIInv, ~WrapAllowed,
         NEW r \in Requests, NEW u \in Users, NEW a \in Amounts,
         TopUpAccount(r, u, a)
  PROVE  BillingIInv'
<1>1. Sound(TopUp(account[u], a))
  BY TopUpSound, AmountsAssumption DEF BillingIInv, TopUpAccount, Fits
<1>2. QED
  BY <1>1 DEF BillingIInv, BillingTypeOK, TopUpAccount, Sound

LEMMA PaymentStep ==
  ASSUME BillingIInv,
         NEW r \in Requests, NEW u \in Users, NEW l \in Lots, NEW a \in Amounts,
         ProcessLotPayment(r, u, l, a)
  PROVE  BillingIInv'
<1>1. Sound(Block(account[u], l, a))
  BY BlockSound, AmountsAssumption DEF BillingIInv, ProcessLotPayment
<1>2. QED
  BY <1>1 DEF BillingIInv, BillingTypeOK, ProcessLotPayment, Sound

LEMMA RegisteredStep ==
  ASSUME BillingIInv,
         NEW e \in EventUIDs, NEW u \in Users, HandleUserRegistered(e, u)
  PROVE  BillingIInv'
<1>1. Sound(CreateAccount(account[u]))
  BY CreateSound DEF BillingIInv
<1>2. QED
  BY <1>1 DEF BillingIInv, BillingTypeOK, HandleUserRegistered, MarkProcessed, Sound

LEMMA ReleasedStep ==
  ASSUME BillingIInv,
         NEW e \in EventUIDs, NEW u \in Users, NEW l \in Lots, NEW a \in Amounts,
         HandleBidReleased(e, u, l, a)
  PROVE  BillingIInv'
<1>1. Sound(Unblock(account[u], l, a))
  BY ReleaseSound, AmountsAssumption DEF BillingIInv, HandleBidReleased, CanUnblock
<1>2. QED
  BY <1>1 DEF BillingIInv, BillingTypeOK, HandleBidReleased, MarkProcessed, Sound

\* The owner may be the winner: the receive applies to the account the
\* finish left.
LEMMA ReceivedStep ==
  ASSUME BillingIInv, ~WrapAllowed,
         NEW e \in EventUIDs, NEW owner \in Users, NEW winner \in Users,
         NEW l \in Lots, NEW a \in Amounts,
         HandleLotReceived(e, owner, winner, l, a)
  PROVE  BillingIInv'
<1> DEFINE paid == [account EXCEPT ![winner] = Finish(@, l, a)]
<1>1. Sound(Finish(account[winner], l, a))
  BY ReleaseSound, AmountsAssumption DEF BillingIInv, HandleLotReceived, CanFinish
<1>2. /\ paid \in [Users -> AccountState]
      /\ \A u \in Users : Sound(paid[u])
  BY <1>1 DEF BillingIInv, BillingTypeOK, Sound
<1>3. /\ paid[owner].total + a < Width
      /\ account' = [paid EXCEPT ![owner] = Receive(@, a)]
      /\ processedEvents' = processedEvents \union {e}
      /\ processedRequests' = processedRequests
  BY DEF HandleLotReceived, Fits, MarkProcessed
<1> HIDE DEF paid
<1>4. Sound(Receive(paid[owner], a))
  BY <1>2, <1>3, TopUpSound, AmountsAssumption
<1>5. QED
  BY <1>2, <1>3, <1>4 DEF BillingIInv, BillingTypeOK, Sound

LEMMA NextSound ==
  ASSUME ~WrapAllowed
  PROVE  BillingIInv /\ [BillingNext]_billingVars => BillingIInv'
<1> SUFFICES ASSUME BillingIInv, [BillingNext]_billingVars
             PROVE  BillingIInv'
  OBVIOUS
<1>1. CASE UNCHANGED billingVars
  BY <1>1 DEF billingVars, BillingIInv, BillingTypeOK
<1>2. ASSUME NEW r \in Requests, HandleRequest(r) PROVE BillingIInv'
  BY <1>2, TopUpStep, PaymentStep DEF HandleRequest
<1>3. ASSUME NEW e \in EventUIDs, HandleEvent(e) PROVE BillingIInv'
  BY <1>3, RegisteredStep, ReleasedStep, ReceivedStep DEF HandleEvent
<1>4. QED
  BY <1>1, <1>2, <1>3 DEF BillingNext

----------------------------------------------------------------------------
LEMMA BillingIInvForever == ~WrapAllowed => (BillingSpec => []BillingIInv)
<1> SUFFICES ASSUME ~WrapAllowed PROVE BillingSpec => []BillingIInv
  OBVIOUS
<1>1. BillingInit => BillingIInv
  BY InitSound
<1>2. BillingIInv /\ [BillingNext]_billingVars => BillingIInv'
  BY NextSound
<1>3. QED
  BY <1>1, <1>2, PTL DEF BillingSpec

\* Type correctness: accounts stay within uint64, and only known ids are
\* recorded as processed.
THEOREM BillingTypeCorrect ==
  ASSUME ~WrapAllowed
  PROVE  BillingSpec => []BillingTypeOK
<1>1. BillingSpec => []BillingIInv
  BY BillingIInvForever
<1>2. BillingIInv => BillingTypeOK
  BY DEF BillingIInv
<1>3. QED
  BY <1>1, <1>2, PTL

\* Whatever requests and events arrive and in whatever order, block, unblock
\* and finish keep the blocked part equal to the sum of the lot payments: no
\* later unblock or finish fails on the comparison with the blocked amount.
THEOREM BillingBlockedIsSum ==
  ASSUME ~WrapAllowed
  PROVE  BillingSpec => []BlockedIsSum
<1>1. BillingSpec => []BillingIInv
  BY BillingIInvForever
<1>2. BillingIInv => BlockedIsSum
  BY DEF BillingIInv, Sound, BlockedIsSum
<1>3. QED
  BY <1>1, <1>2, PTL

\* No account is ever overdrawn: each payment is within the blocked part, and
\* that within the total.
THEOREM BillingNeverOverdrawn ==
  ASSUME ~WrapAllowed
  PROVE  BillingSpec => []BlockedIsCovered
<1>1. BillingSpec => []BillingIInv
  BY BillingIInvForever
<1>2. BillingIInv => BlockedIsCovered
  BY SoundCovered DEF BillingIInv, BlockedIsCovered
<1>3. QED
  BY <1>1, <1>2, PTL

----------------------------------------------------------------------------
(* The sum of all totals.                                                  *)

Totals == [u \in Users |-> account[u].total]

\* A step that leaves every total alone leaves their sum alone.
LEMMA SameTotals ==
  ASSUME BillingTypeOK, NEW u \in Users, NEW acc,
         account' = [account EXCEPT ![u] = acc], acc.total = account[u].total
  PROVE  AllFunds' = AllFunds
<1>1. [v \in Users |-> account[v].total]' = [v \in Users |-> account[v].total]
  BY DEF BillingTypeOK
<1>2. QED
  BY <1>1 DEF AllFunds

\* Settling a lot: the amount leaves one total and enters another, or the same.
LEMMA SettlementConserves ==
  ASSUME IsFiniteSet(Users), BillingIInv, ~WrapAllowed,
         NEW e \in EventUIDs, NEW owner \in Users, NEW winner \in Users,
         NEW l \in Lots, NEW a \in Amounts,
         HandleLotReceived(e, owner, winner, l, a)
  PROVE  AllFunds' = AllFunds
<1> DEFINE finished == Finish(account[winner], l, a)
           paid == [account EXCEPT ![winner] = finished]
           left == [Totals EXCEPT ![winner] = Totals[winner] - a]
<1>1. /\ Sound(finished) /\ HasPayment(account[winner], l, a)
      /\ account[winner] \in AccountState /\ a \in Raw
      /\ account[winner].blocked <= account[winner].total
  BY ReleaseSound, AmountsAssumption DEF BillingIInv, HandleLotReceived, CanFinish, Sound
<1>2. /\ a \in Nat /\ a <= account[winner].total /\ account[winner].total \in Raw
      /\ finished.total = account[winner].total - a
  BY <1>1, WidthAssumption DEF HasPayment, Finish, Minus, AccountState, Raw
<1>3. /\ paid[owner].total + a < Width
      /\ account' = [paid EXCEPT ![owner] = Receive(@, a)]
  BY DEF HandleLotReceived, Fits
<1>4. paid \in [Users -> AccountState] /\ account \in [Users -> AccountState]
  BY <1>1 DEF BillingIInv, BillingTypeOK, Sound
<1>5. /\ Receive(paid[owner], a) \in AccountState
      /\ Receive(paid[owner], a).total = paid[owner].total + a
  BY <1>2, <1>3, <1>4, WidthAssumption DEF Receive, Plus, AccountState, Raw
<1>6. /\ Totals \in [Users -> Nat] /\ Totals[winner] = account[winner].total
      /\ Totals[winner] - a \in Nat
  BY <1>2, <1>4, WidthAssumption DEF Totals, AccountState, Raw
<1>7. left \in [Users -> Nat] /\ left[owner] + a \in Nat
  BY <1>2, <1>6
<1>8. left = [u \in Users |-> paid[u].total]
  <2> HIDE DEF finished
  <2>1. ASSUME NEW u \in Users PROVE left[u] = paid[u].total
    BY <1>2, <1>4, <1>6 DEF Totals
  <2>2. QED
    BY <1>6, <2>1
<1> HIDE DEF paid
<1>9. Totals' = [left EXCEPT ![owner] = left[owner] + a]
  <2>1. ASSUME NEW u \in Users
        PROVE  account'[u].total = [left EXCEPT ![owner] = left[owner] + a][u]
    BY <1>3, <1>4, <1>5, <1>7, <1>8
  <2>2. Totals' = [u \in Users |-> account'[u].total]
    BY DEF Totals
  <2>3. QED
    BY <1>7, <2>1, <2>2
<1>10. SumFunction(left) = SumFunction(Totals) - Totals[winner] + (Totals[winner] - a)
       /\ SumFunction(Totals) \in Nat
  BY <1>6, SumUpdated
<1> HIDE DEF left
<1>11. SumFunction(Totals') = SumFunction(left) - left[owner] + (left[owner] + a)
       /\ SumFunction(left) \in Nat
  BY <1>7, <1>9, SumUpdated
<1>12. SumFunction(Totals') = SumFunction(Totals)
  BY <1>2, <1>6, <1>7, <1>10, <1>11
<1>13. QED
  BY <1>12 DEF AllFunds, Totals

\* Events only move money, for any number of users: a settlement takes from
\* the winner what the owner receives, and only requests change the sum of all
\* totals.
THEOREM BillingEventsConserveFunds ==
  ASSUME ~WrapAllowed, IsFiniteSet(Users)
  PROVE  BillingSpec => EventsConserveFunds
<1>1. BillingSpec => []BillingIInv
  BY BillingIInvForever
<1>2. BillingIInv /\ [BillingNext]_billingVars
        => [processedRequests' = processedRequests => AllFunds' = AllFunds]_billingVars
  <2> SUFFICES ASSUME BillingIInv, BillingNext, processedRequests' = processedRequests
               PROVE  AllFunds' = AllFunds
    BY DEF billingVars
  <2>1. BillingTypeOK
    BY DEF BillingIInv
  <2>2. ASSUME NEW r \in Requests PROVE ~HandleRequest(r)
    BY DEF HandleRequest, TopUpAccount, ProcessLotPayment
  <2>3. PICK e \in EventUIDs : HandleEvent(e)
    BY <2>2 DEF BillingNext
  <2>4. ASSUME NEW u \in Users, HandleUserRegistered(e, u) PROVE AllFunds' = AllFunds
    <3>1. CreateAccount(account[u]).total = account[u].total
      BY <2>1 DEF CreateAccount, BillingTypeOK, AccountState
    <3>2. QED
      BY <2>1, <2>4, <3>1, SameTotals DEF HandleUserRegistered
  <2>5. ASSUME NEW u \in Users, NEW l \in Lots, NEW a \in Amounts,
               HandleBidReleased(e, u, l, a)
        PROVE  AllFunds' = AllFunds
    <3>1. Unblock(account[u], l, a).total = account[u].total
      BY <2>1 DEF Unblock, BillingTypeOK, AccountState
    <3>2. QED
      BY <2>1, <2>5, <3>1, SameTotals DEF HandleBidReleased
  <2>6. ASSUME NEW owner \in Users, NEW u \in Users, NEW l \in Lots, NEW a \in Amounts,
               HandleLotReceived(e, owner, u, l, a)
        PROVE  AllFunds' = AllFunds
    BY <2>6, SettlementConserves
  <2>7. QED
    BY <2>3, <2>4, <2>5, <2>6 DEF HandleEvent
<1>3. QED
  BY <1>1, <1>2, PTL DEF BillingSpec, EventsConserveFunds
============================================================================
