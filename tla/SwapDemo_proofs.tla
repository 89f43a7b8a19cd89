--------------------------- MODULE SwapDemo_proofs ---------------------------
(***************************************************************************)
(* Of the feeds and the swaps that read them, for any feeds, users, prices *)
(* and amounts: the list of feeds agrees with the accounts, a feed shows   *)
(* its last executed price, and tokens move by whole swaps only.           *)
(***************************************************************************)
EXTENDS SwapDemo, FiniteSetTheorems, WellFoundedInduction, TLAPS

SwapRecord == [user : User, amount : Amount, paid : Nat]

(* An account that does not exist yet has had no price. *)
NoPriceBeforeInit == \A f \in Feed : executed[f] # <<>> => f \in DOMAIN feed_price

(* Before the program's account exists it lists no feed. *)
NoFeedBeforeInit == ~prices_initialized => feeds = <<>> /\ DOMAIN feed_price = {}

IInv == /\ PricesTypeOK
        /\ NoFeedBeforeInit /\ NoPriceBeforeInit
        /\ FeedsListed /\ LatestPriceStands

LEMMA StandingOfAppend ==
  ASSUME NEW s \in Seq(Price), NEW p \in Price
  PROVE  Standing(Append(s, p)) = p
  BY DEF Standing, Last

(* A new feed is listed with the others, and only once. *)
LEMMA ListedAnew ==
  ASSUME NEW s \in Seq(Feed), NEW f \in Feed, IsInjective(s), f \notin ToSet(s)
  PROVE  /\ ToSet(Append(s, f)) = ToSet(s) \cup {f}
         /\ IsInjective(Append(s, f))
<1> DEFINE t == Append(s, f)
<1>1. /\ t \in Seq(Feed) /\ Len(t) = Len(s) + 1 /\ t[Len(s) + 1] = f
      /\ \A i \in 1 .. Len(s) : t[i] = s[i]
  OBVIOUS
<1>2. DOMAIN t = DOMAIN s \cup {Len(s) + 1} /\ DOMAIN s = 1 .. Len(s) /\ Len(s) \in Nat
  BY <1>1
<1>3. ToSet(t) = ToSet(s) \cup {f}
  BY <1>1, <1>2 DEF ToSet
<1>4. IsInjective(t)
  <2>1. \A i \in DOMAIN s : t[i] = s[i] /\ s[i] # f
    BY <1>1, <1>2 DEF ToSet
  <2> QED BY <1>1, <1>2, <2>1 DEF IsInjective
<1> QED BY <1>3, <1>4

LEMMA InitEstablishes == Init => IInv
<1> SUFFICES ASSUME Init PROVE IInv
  OBVIOUS
<1> USE PricesAssumption, SwapAssumption DEF Init, PricesInit
<1>1. PricesTypeOK
  <2>1. DOMAIN feed_price = {} /\ feed_price \in [{} -> PriceState]
    OBVIOUS
  <2>2. executed \in [Feed -> Seq(Price)] /\ feeds \in Seq(Feed)
    OBVIOUS
  <2>3. feed_price \in [DOMAIN feed_price -> PriceState] /\ DOMAIN feed_price \subseteq Feed
    <3> HIDE DEF PricesInit, Init
    <3> QED BY <2>1
  <2>4. publications \subseteq Publication /\ submitted \in 0 .. MaxPublications
        /\ prices_initialized \in BOOLEAN
    <3>1. publications = {} /\ submitted = 0 /\ prices_initialized = FALSE
      OBVIOUS
    <3>2. MaxPublications \in Nat
      OBVIOUS
    <3> HIDE DEF PricesInit, Init
    <3>3. publications \subseteq Publication
      BY <3>1
    <3>4. submitted \in 0 .. MaxPublications
      BY <3>1, <3>2
    <3>5. prices_initialized \in BOOLEAN
      BY <3>1
    <3> QED BY <3>3, <3>4, <3>5
  <2> HIDE DEF PricesInit, Init
  <2> QED BY <2>2, <2>3, <2>4 DEF PricesTypeOK
<1>2. NoFeedBeforeInit /\ NoPriceBeforeInit /\ FeedsListed
  BY DEF NoFeedBeforeInit, NoPriceBeforeInit, FeedsListed, ToSet, IsInjective
<1>3. LatestPriceStands
  BY DEF LatestPriceStands
<1> QED BY <1>1, <1>2, <1>3 DEF IInv

(* The steps of the oracle_prices program. *)
LEMMA InitializePricesKeeps ==
  ASSUME IInv, InitializePrices, UNCHANGED swap_state
  PROVE  IInv'
<1> USE DEF IInv, InitializePrices, swap_state
<1>1. feeds = <<>> /\ DOMAIN feed_price = {}
  BY DEF NoFeedBeforeInit
<1>2. feeds' = feeds
  BY <1>1
<1>3. PricesTypeOK' /\ NoFeedBeforeInit' /\ NoPriceBeforeInit' /\ FeedsListed' /\ LatestPriceStands'
  BY <1>2 DEF PricesTypeOK, NoFeedBeforeInit, NoPriceBeforeInit, FeedsListed, LatestPriceStands
<1> QED BY <1>3

LEMMA InitializeFeedKeeps ==
  ASSUME IInv, NEW f \in Feed, InitializeFeed(f), UNCHANGED swap_state
  PROVE  IInv'
<1> USE DEF IInv, InitializeFeed, swap_state
<1>1. /\ DOMAIN feed_price' = DOMAIN feed_price \cup {f}
      /\ feed_price'[f] = EmptyPrice
      /\ \A g \in DOMAIN feed_price : feed_price'[g] = feed_price[g]
  OBVIOUS
<1>2. EmptyPrice \in PriceState
  BY DEF EmptyPrice, PriceState
<1>3. PricesTypeOK'
  BY <1>1, <1>2 DEF PricesTypeOK
<1>4. FeedsListed'
  BY <1>1, ListedAnew DEF FeedsListed, PricesTypeOK
<1>5. executed[f] = <<>>
  BY DEF NoPriceBeforeInit
<1>6. LatestPriceStands'
  BY <1>1, <1>5 DEF LatestPriceStands, EmptyPrice, Standing
<1>7. NoFeedBeforeInit' /\ NoPriceBeforeInit'
  BY <1>1 DEF NoFeedBeforeInit, NoPriceBeforeInit
<1> QED BY <1>3, <1>4, <1>6, <1>7

LEMMA SubmitKeeps ==
  ASSUME IInv, NEW account \in Account, NEW f \in Feed, NEW p \in Price,
         Submit(account, f, p), UNCHANGED swap_state
  PROVE  IInv'
<1> USE DEF IInv, Submit, swap_state
<1>1. PricesTypeOK'
  BY PricesAssumption DEF PricesTypeOK, Publication
<1>2. NoFeedBeforeInit' /\ NoPriceBeforeInit' /\ FeedsListed' /\ LatestPriceStands'
  BY DEF NoFeedBeforeInit, NoPriceBeforeInit, FeedsListed, LatestPriceStands
<1> QED BY <1>1, <1>2

LEMMA PublishPriceKeeps ==
  ASSUME IInv, NEW tx \in publications, PublishPrice(tx), UNCHANGED swap_state
  PROVE  IInv'
<1> USE DEF IInv, swap_state
<1> DEFINE f == tx.feed_id
<1>1. tx \in Publication /\ f \in Feed /\ tx.price \in Price /\ tx.price \in Nat
  BY PricesAssumption DEF PricesTypeOK, Publication
<1>2. CASE UNCHANGED <<feed_price, executed>>
  <2>1. UNCHANGED <<prices_initialized, feeds, submitted>> /\ publications' \subseteq publications
    BY DEF PublishPrice
  <2>2. PricesTypeOK' /\ NoFeedBeforeInit' /\ NoPriceBeforeInit' /\ FeedsListed' /\ LatestPriceStands'
    BY <1>2, <2>1
       DEF PricesTypeOK, NoFeedBeforeInit, NoPriceBeforeInit, FeedsListed, LatestPriceStands
  <2> QED BY <2>2
<1>3. CASE /\ f \in DOMAIN feed_price
           /\ feed_price' = [feed_price EXCEPT ![f] = [feed_id |-> f, price |-> tx.price]]
           /\ executed' = [executed EXCEPT ![f] = Append(@, tx.price)]
  <2>1. UNCHANGED <<prices_initialized, feeds, submitted>> /\ publications' \subseteq publications
    BY DEF PublishPrice
  <2>2. executed \in [Feed -> Seq(Price)] /\ executed' \in [Feed -> Seq(Price)]
    BY <1>1, <1>3 DEF PricesTypeOK
  <2>3. executed'[f] = Append(executed[f], tx.price)
    BY <1>1, <1>3, <2>2
  <2>4. /\ DOMAIN feed_price' = DOMAIN feed_price
        /\ feed_price'[f] = [feed_id |-> f, price |-> tx.price]
        /\ \A g \in DOMAIN feed_price \ {f} : feed_price'[g] = feed_price[g]
        /\ \A g \in Feed \ {f} : executed'[g] = executed[g]
    BY <1>3, <2>2
  <2>5. PricesTypeOK'
    <3>1. [feed_id |-> f, price |-> tx.price] \in PriceState
      BY <1>1 DEF PriceState
    <3> QED BY <1>3, <2>1, <2>2, <2>4, <3>1 DEF PricesTypeOK
  <2>6. FeedsListed' /\ NoFeedBeforeInit' /\ NoPriceBeforeInit'
    BY <1>3, <2>1, <2>4 DEF FeedsListed, NoFeedBeforeInit, NoPriceBeforeInit
  <2>7. LatestPriceStands'
    <3>1. executed[f] \in Seq(Price)
      BY <1>1, <2>2
    <3>2. executed'[f] # <<>> /\ Standing(executed'[f]) = tx.price
      <4>1. Append(executed[f], tx.price) # <<>>
        BY ONLY <1>1, <3>1
      <4> HIDE DEF f
      <4> QED BY <1>1, <2>3, <3>1, <4>1, StandingOfAppend
    <3> QED BY <2>4, <3>2 DEF LatestPriceStands, PricesTypeOK
  <2> QED BY <2>5, <2>6, <2>7
<1> QED BY <1>2, <1>3 DEF PublishPrice

(* What the feeds satisfy holds on as long as nothing touches them. *)
LEMMA FeedsUntouched ==
  ASSUME IInv, UNCHANGED prices
  PROVE  /\ PricesTypeOK' /\ NoFeedBeforeInit' /\ NoPriceBeforeInit'
         /\ FeedsListed' /\ LatestPriceStands'
BY DEF IInv, prices, PricesTypeOK, NoFeedBeforeInit, NoPriceBeforeInit, FeedsListed,
       LatestPriceStands

LEMMA NextKeeps == IInv /\ [Next]_vars => IInv'
<1> SUFFICES ASSUME IInv, [Next]_vars PROVE IInv'
  OBVIOUS
<1>1. CASE PricesNext /\ UNCHANGED swap_state
  <2>1. CASE InitializePrices
    BY <1>1, <2>1, InitializePricesKeeps
  <2>2. CASE \E f \in Feed : InitializeFeed(f)
    BY <1>1, <2>2, InitializeFeedKeeps
  <2>3. CASE \E f \in Feed, p \in Price : IndexerPublishes(f, p) \/ CommandLinePublishes(f, p)
    BY <1>1, <2>3, SubmitKeeps DEF IndexerPublishes, CommandLinePublishes, Account
  <2>4. CASE \E tx \in publications : PublishPrice(tx)
    BY <1>1, <2>4, PublishPriceKeeps
  <2> QED BY <1>1, <2>1, <2>2, <2>3, <2>4 DEF PricesNext
<1>2. CASE UNCHANGED prices
  BY <1>2, FeedsUntouched DEF IInv
<1>3. (PricesNext /\ UNCHANGED swap_state) \/ UNCHANGED prices
  BY DEF Next, vars, InitializeSwap, InitializePool, FundPool, RequestSwap, ExecuteSwap
<1> QED BY <1>1, <1>2, <1>3
-----------------------------------------------------------------------------
LEMMA Invariance == Spec => []IInv
BY InitEstablishes, NextKeeps, PTL DEF Spec

(* The list of oracle_prices_account is that of the feed accounts, each    *)
(* once, however initialisations and publications are ordered.             *)
THEOREM FeedsAlwaysListed == Spec => []FeedsListed
<1>1. IInv => FeedsListed
  BY DEF IInv
<1> QED BY <1>1, Invariance, PTL

(* A feed account shows the last price executed for it, under its own id.  *)
THEOREM LatestPriceAlwaysStands == Spec => []LatestPriceStands
<1>1. IInv => LatestPriceStands
  BY DEF IInv
<1> QED BY <1>1, Invariance, PTL
-----------------------------------------------------------------------------
(* Sums.  A set that has 0 and with every number the next has them all, as *)
(* otherwise it would miss a least one.                                    *)
LEMMA CountingUp ==
  ASSUME NEW N \in Nat, NEW S, 0 \in S, \A n \in 0 .. N - 1 : n \in S => n + 1 \in S
  PROVE  \A n \in 0 .. N : n \in S
<1> DEFINE R == OpToRel(<, Nat)
           T == (0 .. N) \ S
<1>1. IsWellFoundedOn(R, Nat)
  BY NatLessThanWellFounded, Zenon
<1>2. \A x, y \in Nat : x < y => <<x, y>> \in R
  BY Zenon DEF OpToRel
<1> HIDE DEF R
<1>3. ASSUME T # {} PROVE FALSE
  <2>1. \E x \in T : \A y \in T : ~(<<y, x>> \in R)
    <3>1. T \subseteq Nat
      OBVIOUS
    <3> HIDE DEF T
    <3> QED  BY <1>1, <1>3, <3>1, WFMin
  <2>2. PICK x \in T : \A y \in T : ~(<<y, x>> \in R)
    BY <2>1
  <2>3. x - 1 \in T /\ x - 1 < x /\ x \in Nat /\ x - 1 \in Nat
    <3>1. x \in 1 .. N
      OBVIOUS
    <3>2. x - 1 \in 0 .. N - 1 /\ x - 1 + 1 = x
      BY <3>1
    <3> QED  BY <3>1, <3>2
  <2> QED  BY <1>2, <2>2, <2>3
<1> QED  BY <1>3

(* upTo is the running sum of the first N values. *)
RunningSum(upTo, values, N) ==
  upTo = [n \in 0 .. N |-> IF n = 0 THEN 0 ELSE upTo[n - 1] + values[n]]

LEMMA RunningSumExists ==
  ASSUME NEW values, NEW N \in Nat
  PROVE  \E upTo : RunningSum(upTo, values, N)
<1> DEFINE S == {n \in 0 .. N : \E upTo : RunningSum(upTo, values, n)}
<1>1. 0 \in S
  <2> DEFINE h == [n \in 0 .. 0 |-> 0]
  <2>1. RunningSum(h, values, 0)
    BY DEF RunningSum
  <2> HIDE DEF h
  <2> QED  BY <2>1
<1>2. ASSUME NEW n \in 0 .. N - 1, n \in S
      PROVE  n + 1 \in S
  <2>1. PICK g : g = [m \in 0 .. n |-> IF m = 0 THEN 0 ELSE g[m - 1] + values[m]]
    BY <1>2 DEF RunningSum
  <2> DEFINE h == [m \in 0 .. n + 1 |-> IF m = n + 1 THEN g[n] + values[n + 1] ELSE g[m]]
  <2>2. ASSUME NEW m \in 0 .. n + 1
        PROVE  h[m] = IF m = 0 THEN 0 ELSE h[m - 1] + values[m]
    <3>1. CASE m = n + 1
      BY <3>1
    <3>2. CASE m \in 0 .. n
      BY <2>1, <3>2
    <3> QED  BY <3>1, <3>2
  <2>3. h = [m \in 0 .. n + 1 |-> IF m = 0 THEN 0 ELSE h[m - 1] + values[m]]
    BY <2>2
  <2> HIDE DEF h
  <2> QED  BY <2>3 DEF RunningSum
<1>3. \A n \in 0 .. N : n \in S
  <2> HIDE DEF S
  <2> QED  BY <1>1, <1>2, CountingUp
<1> QED  BY <1>3

(* What it is, step by step. *)
LEMMA RunningSumSteps ==
  ASSUME NEW values, NEW N \in Nat, NEW upTo, RunningSum(upTo, values, N)
  PROVE  /\ upTo[0] = 0
         /\ \A n \in 1 .. N : upTo[n] = upTo[n - 1] + values[n]
<1>1. upTo = [n \in 0 .. N |-> IF n = 0 THEN 0 ELSE upTo[n - 1] + values[n]]
  BY DEF RunningSum
<1>2. upTo[0] = 0
  BY <1>1
<1>3. ASSUME NEW n \in 1 .. N PROVE upTo[n] = upTo[n - 1] + values[n]
  <2>1. n \in 0 .. N /\ n # 0
    OBVIOUS
  <2> QED  BY <1>1, <2>1
<1> QED  BY <1>2, <1>3

LEMMA TotalIsRunningSum ==
  ASSUME NEW values, Len(values) \in Nat
  PROVE  \E upTo : RunningSum(upTo, values, Len(values)) /\ Total(values) = upTo[Len(values)]
<1> DEFINE upTo == CHOOSE f : f = [n \in 0 .. Len(values) |->
                                    IF n = 0 THEN 0 ELSE f[n - 1] + values[n]]
<1>1. upTo = [n \in 0 .. Len(values) |-> IF n = 0 THEN 0 ELSE upTo[n - 1] + values[n]]
  BY RunningSumExists DEF RunningSum
<1>2. Total(values) = upTo[Len(values)]
  BY DEF Total
<1> HIDE DEF upTo
<1> QED  BY <1>1, <1>2 DEF RunningSum

LEMMA TotalOfNone == Total(<<>>) = 0
<1>1. PICK upTo : RunningSum(upTo, <<>>, 0) /\ Total(<<>>) = upTo[0]
  BY TotalIsRunningSum
<1> QED  BY <1>1, RunningSumSteps

LEMMA TotalOfAppend ==
  ASSUME NEW values \in Seq(Nat), NEW v \in Nat
  PROVE  /\ Total(values) \in Nat
         /\ Total(Append(values, v)) = Total(values) + v
<1>1. PICK N \in Nat : N = Len(values)
  OBVIOUS
<1>2. PICK more : more = Append(values, v)
  OBVIOUS
<1>3. /\ Len(more) = N + 1 /\ more[N + 1] = v
      /\ \A n \in 1 .. N : more[n] = values[n] /\ values[n] \in Nat
  BY <1>1, <1>2
<1>4. PICK a : RunningSum(a, values, N) /\ Total(values) = a[N]
  BY <1>1, TotalIsRunningSum
<1>5. PICK b : RunningSum(b, more, N + 1) /\ Total(more) = b[N + 1]
  BY <1>3, TotalIsRunningSum
<1>6. a[0] = 0 /\ \A n \in 1 .. N : a[n] = a[n - 1] + values[n]
  BY <1>4, RunningSumSteps
<1>7. b[0] = 0 /\ \A n \in 1 .. N + 1 : b[n] = b[n - 1] + more[n]
  <2>1. N + 1 \in Nat
    OBVIOUS
  <2> QED  BY <1>5, <2>1, RunningSumSteps
<1> DEFINE S == {n \in 0 .. N : a[n] = b[n] /\ a[n] \in Nat}
<1>8. 0 \in S
  BY <1>6, <1>7
<1>9. ASSUME NEW n \in 0 .. N - 1, n \in S PROVE n + 1 \in S
  <2>1. PICK m \in 1 .. N : m = n + 1 /\ m - 1 = n /\ m \in 1 .. N + 1
    OBVIOUS
  <2>2. a[m] = a[n] + values[m] /\ b[m] = b[n] + more[m]
    BY <1>6, <1>7, <2>1
  <2>3. a[n] = b[n] /\ a[n] \in Nat
    BY <1>9
  <2> QED  BY <1>3, <2>1, <2>2, <2>3
<1>10. \A n \in 0 .. N : n \in S
  <2> HIDE DEF S
  <2> QED  BY <1>8, <1>9, CountingUp
<1>11. a[N] = b[N] /\ a[N] \in Nat
  BY <1>10
<1>12. b[N + 1] = b[N] + v
  <2>1. PICK m \in 1 .. N + 1 : m = N + 1 /\ m - 1 = N
    OBVIOUS
  <2> QED  BY <1>3, <1>7, <2>1
<1> QED  BY <1>2, <1>4, <1>5, <1>11, <1>12

-----------------------------------------------------------------------------
(* Balances and nonces.                                                    *)

SwapTypeOK ==
  /\ swap_initialized \in BOOLEAN /\ pools \subseteq {"A", "B"}
  /\ token_a \in [User \cup {Pool} -> Nat]
  /\ token_b \in [User \cup {Pool, Supply} -> Nat]
  /\ nonce \in [User -> 0 .. MaxSwaps]
  /\ requests \subseteq Request /\ requested \in 0 .. MaxSwaps
  /\ swaps \in Seq(SwapRecord)

(* A user's nonce grows with its executed swaps; it and the swaps that     *)
(* wait are together no more than were requested.                          *)
NoncesCounted ==
  /\ IsFiniteSet(requests)
  /\ \A u \in User : nonce[u] + Cardinality(requests) <= requested

Settling == SwapTypeOK /\ NoncesCounted /\ SwapsSettle

(* A swap adds what it takes and pays to the sums of its user's. *)
LEMMA SumsOfSwap ==
  ASSUME swaps \in Seq(SwapRecord), NEW s \in SwapRecord, swaps' = Append(swaps, s), NEW users
  PROVE  /\ Total(TakenFrom(users)) \in Nat /\ Total(PaidTo(users)) \in Nat
         /\ Total(TakenFrom(users)') =
              Total(TakenFrom(users)) + (IF s.user \in users THEN s.amount ELSE 0)
         /\ Total(PaidTo(users)') =
              Total(PaidTo(users)) + (IF s.user \in users THEN s.paid ELSE 0)
<1>1. PICK n \in Nat : n = Len(swaps)
  OBVIOUS
<1>2. /\ DOMAIN swaps = 1 .. n /\ DOMAIN swaps' = 1 .. n + 1
      /\ swaps'[n + 1] = s /\ \A i \in 1 .. n : swaps'[i] = swaps[i] /\ swaps[i] \in SwapRecord
  BY <1>1
<1>3. \A r \in SwapRecord : r.amount \in Nat /\ r.paid \in Nat
  <2>1. Amount \subseteq Nat
    BY SwapAssumption
  <2> QED  BY <2>1 DEF SwapRecord
<1> DEFINE amount(r) == IF r.user \in users THEN r.amount ELSE 0
           paid(r)   == IF r.user \in users THEN r.paid ELSE 0
<1>4. \A r \in SwapRecord : amount(r) \in Nat /\ paid(r) \in Nat
  BY <1>3
<1>5. /\ TakenFrom(users) = [i \in 1 .. n |-> amount(swaps[i])]
      /\ PaidTo(users) = [i \in 1 .. n |-> paid(swaps[i])]
      /\ TakenFrom(users)' = [i \in 1 .. n + 1 |-> amount(swaps'[i])]
      /\ PaidTo(users)' = [i \in 1 .. n + 1 |-> paid(swaps'[i])]
  BY <1>2 DEF TakenFrom, PaidTo
<1> HIDE DEF amount, paid
<1>6. TakenFrom(users) \in Seq(Nat) /\ PaidTo(users) \in Seq(Nat)
  BY <1>2, <1>4, <1>5
<1>7. TakenFrom(users)' = Append(TakenFrom(users), amount(s))
  BY <1>2, <1>5
<1>8. PaidTo(users)' = Append(PaidTo(users), paid(s))
  BY <1>2, <1>5
<1> QED  BY <1>4, <1>6, <1>7, <1>8, TotalOfAppend DEF amount, paid

LEMMA SumsUntouched ==
  ASSUME UNCHANGED swaps, NEW users
  PROVE  TakenFrom(users)' = TakenFrom(users) /\ PaidTo(users)' = PaidTo(users)
BY DEF TakenFrom, PaidTo

LEMMA SettlingInit == Init => Settling
<1> SUFFICES ASSUME Init PROVE Settling
  OBVIOUS
<1>1. /\ swap_initialized = FALSE /\ pools = {} /\ requests = {} /\ requested = 0 /\ swaps = <<>>
      /\ token_a = [h \in User \cup {Pool} |-> IF h = Pool THEN 0 ELSE InitialA]
      /\ token_b = [h \in User \cup {Pool, Supply} |-> IF h = Supply THEN SupplyB ELSE 0]
      /\ nonce = [u \in User |-> 0]
  BY DEF Init
<1>2. SwapTypeOK
  <2>1. InitialA \in Nat /\ SupplyB \in Nat /\ MaxSwaps \in Nat
    BY SwapAssumption
  <2>2. token_a \in [User \cup {Pool} -> Nat]
    BY <1>1, <2>1
  <2>3. token_b \in [User \cup {Pool, Supply} -> Nat]
    BY <1>1, <2>1
  <2>4. nonce \in [User -> 0 .. MaxSwaps] /\ requested \in 0 .. MaxSwaps
    BY <1>1, <2>1
  <2>5. swap_initialized \in BOOLEAN
    BY <1>1
  <2>6. swaps \in Seq(SwapRecord) /\ pools \subseteq {"A", "B"} /\ requests \subseteq Request
    BY <1>1
  <2> QED  BY <2>2, <2>3, <2>4, <2>5, <2>6 DEF SwapTypeOK
<1>3. NoncesCounted
  BY <1>1, FS_EmptySet DEF NoncesCounted
<1>4. SwapsSettle
  <2>1. \A users : TakenFrom(users) = <<>> /\ PaidTo(users) = <<>>
    BY <1>1 DEF TakenFrom, PaidTo
  <2>2. /\ Pool \notin User /\ Supply \notin User /\ Pool # Supply
        /\ InitialA \in Nat /\ SupplyB \in Nat
    BY SwapAssumption DEF Pool, Supply
  <2> QED  BY <1>1, <2>1, <2>2, TotalOfNone DEF SwapsSettle
<1> QED  BY <1>2, <1>3, <1>4 DEF Settling

LEMMA RequestsCounted ==
  ASSUME Settling
  PROVE  /\ IsFiniteSet(requests) /\ Cardinality(requests) \in Nat
         /\ requested \in Nat /\ MaxSwaps \in Nat /\ requested <= MaxSwaps
         /\ \A u \in User : nonce[u] \in Nat /\ nonce[u] + Cardinality(requests) <= requested
<1>1. IsFiniteSet(requests) /\ Cardinality(requests) \in Nat
  BY FS_CardinalityType DEF Settling, NoncesCounted
<1> QED  BY <1>1, SwapAssumption DEF Settling, NoncesCounted, SwapTypeOK

LEMMA RequestSettles ==
  ASSUME Settling, NEW u \in User, NEW account \in Feed \cup {OtherAccount},
         NEW n \in Amount, RequestSwap(u, account, n)
  PROVE  Settling'
<1> DEFINE r == [user |-> u, price_feed |-> account, amount |-> n, nonce |-> nonce[u]]
<1>1. /\ requested < MaxSwaps /\ requested' = requested + 1 /\ requests' = requests \cup {r}
      /\ UNCHANGED <<swap_initialized, pools, token_a, token_b, nonce, swaps>>
  BY DEF RequestSwap
<1>2. SwapTypeOK'
  <2>1. r \in Request
    BY RequestsCounted DEF Request
  <2>2. requested' \in 0 .. MaxSwaps
    BY <1>1, RequestsCounted
  <2>3. requests' \subseteq Request
    BY <1>1, <2>1 DEF Settling, SwapTypeOK
  <2> QED  BY <1>1, <2>2, <2>3 DEF Settling, SwapTypeOK
<1>3. NoncesCounted'
  <2> HIDE DEF r
  <2>1. /\ IsFiniteSet(requests')
        /\ Cardinality(requests') \in {Cardinality(requests), Cardinality(requests) + 1}
    BY <1>1, RequestsCounted, FS_AddElement
  <2>2. PICK k \in Nat, m \in Nat : k = Cardinality(requests) /\ m = requested
    BY RequestsCounted
  <2>3. /\ requested' = m + 1 /\ nonce' = nonce
        /\ \A v \in User : nonce[v] \in Nat /\ nonce[v] + k <= m
    BY <1>1, <2>2, RequestsCounted
  <2>4. Cardinality(requests') = k \/ Cardinality(requests') = k + 1
    BY <2>1, <2>2
  <2>5. \A v \in User : nonce'[v] + Cardinality(requests') <= requested'
    BY <2>3, <2>4
  <2> QED  BY <2>1, <2>5 DEF NoncesCounted
<1>4. SwapsSettle'
  BY <1>1, SumsUntouched DEF Settling, SwapsSettle
<1> QED  BY <1>2, <1>3, <1>4 DEF Settling

LEMMA FundingSettles ==
  ASSUME Settling, NEW n \in 1 .. token_b[Supply], FundPool(n)
  PROVE  Settling'
<1>1. /\ token_b' = [token_b EXCEPT ![Supply] = @ - n, ![Pool] = @ + n]
      /\ UNCHANGED <<swap_initialized, pools, token_a, nonce, requests, requested, swaps>>
  BY DEF FundPool
<1>2. token_b \in [User \cup {Pool, Supply} -> Nat]
  BY DEF Settling, SwapTypeOK
<1>3. Pool \notin User /\ Supply \notin User /\ Pool # Supply
  BY SwapAssumption DEF Pool, Supply
<1>4. PICK pool \in Nat, supply \in Nat : pool = token_b[Pool] /\ supply = token_b[Supply]
  BY <1>2
<1>5. /\ token_b' = [token_b EXCEPT ![Supply] = supply - n, ![Pool] = pool + n]
      /\ supply - n \in Nat /\ pool + n \in Nat
  BY <1>1, <1>3, <1>4
<1>6. token_b' \in [User \cup {Pool, Supply} -> Nat]
  BY <1>2, <1>5
<1>7. /\ token_b'[Pool] = pool + n /\ token_b'[Supply] = supply - n
      /\ \A u \in User : token_b'[u] = token_b[u]
  BY <1>2, <1>3, <1>5
<1>8. SwapTypeOK' /\ NoncesCounted'
  BY <1>1, <1>6 DEF Settling, SwapTypeOK, NoncesCounted
<1>9. SwapsSettle'
  <2>1. token_b'[Pool] + token_b'[Supply] = token_b[Pool] + token_b[Supply]
    BY <1>4, <1>7
  <2> QED  BY <1>1, <1>7, <2>1, SumsUntouched DEF Settling, SwapsSettle
<1> QED  BY <1>8, <1>9 DEF Settling

(* A request that fails is dropped and moves nothing. *)
LEMMA RefusalSettles ==
  ASSUME Settling, NEW tx \in requests, requests' = requests \ {tx},
         UNCHANGED <<swap_initialized, pools, token_a, token_b, nonce, requested, swaps>>
  PROVE  Settling'
<1>1. SwapTypeOK'
  BY DEF Settling, SwapTypeOK
<1>2. NoncesCounted'
  <2>1. IsFiniteSet(requests') /\ Cardinality(requests') = Cardinality(requests) - 1
    BY RequestsCounted, FS_RemoveElement
  <2>2. nonce' = nonce /\ requested' = requested
    OBVIOUS
  <2>3. ASSUME NEW u \in User PROVE nonce[u] + (Cardinality(requests) - 1) <= requested
    BY RequestsCounted
  <2> QED  BY <2>1, <2>2, <2>3 DEF NoncesCounted
<1>3. SwapsSettle'
  BY SumsUntouched DEF Settling, SwapsSettle
<1> QED  BY <1>1, <1>2, <1>3 DEF Settling

(* Whatever account is read, what it gives for a price is a number. *)
LEMMA PricesReadTyped ==
  ASSUME IInv, NEW account
  PROVE  PricesRead(account) \subseteq Nat
<1>1. \A f \in DOMAIN feed_price : feed_price[f].price \in Nat
  BY DEF IInv, PricesTypeOK, PriceState
<1>2. 0 .. U64 - 1 \subseteq Nat
  BY SwapAssumption
<1> QED  BY <1>1, <1>2 DEF PricesRead

LEMMA SwapSettles ==
  ASSUME IInv, Settling, NEW tx \in requests, ExecuteSwap(tx),
         NEW price \in PricesRead(tx.price_feed), CanSwap(tx, price), Swap(tx, price)
  PROVE  Settling'
<1>1. /\ requests' = requests \ {tx} /\ UNCHANGED <<swap_initialized, pools, requested>>
  BY DEF ExecuteSwap
<1>2. PICK u \in User, n \in Nat, b \in Nat :
        u = tx.user /\ n = tx.amount /\ b = AmountB(tx, price) /\ tx.amount \in Amount
  <2>1. tx \in Request /\ Amount \subseteq Nat /\ U64 \in Nat \ {0}
    BY SwapAssumption DEF Settling, SwapTypeOK
  <2>2. price \in Nat
    BY PricesReadTyped
  <2>3. tx.user \in User /\ tx.amount \in Amount /\ tx.amount \in Nat
    BY <2>1 DEF Request
  <2>4. tx.amount * price \in Nat
    BY <2>2, <2>3
  <2>5. \A x \in Nat : x % U64 \in Nat
    BY <2>1
  <2> QED  BY <2>1, <2>3, <2>4, <2>5 DEF AmountB
<1> DEFINE s == [user |-> u, amount |-> n, paid |-> b]
<1>3. /\ token_a' = [token_a EXCEPT ![u] = @ - n, ![Pool] = @ + n]
      /\ token_b' = [token_b EXCEPT ![Pool] = @ - b, ![u] = @ + b]
      /\ nonce' = [nonce EXCEPT ![u] = @ + 1]
      /\ swaps' = Append(swaps, s)
  BY <1>2 DEF Swap
<1>4. n <= token_a[u] /\ b <= token_b[Pool]
  BY <1>2 DEF CanSwap
<1>5. /\ token_a \in [User \cup {Pool} -> Nat] /\ token_b \in [User \cup {Pool, Supply} -> Nat]
      /\ nonce \in [User -> 0 .. MaxSwaps] /\ swaps \in Seq(SwapRecord)
  BY DEF Settling, SwapTypeOK
<1>6. Pool \notin User /\ Supply \notin User /\ Pool # Supply
  BY SwapAssumption DEF Pool, Supply
<1>7. s \in SwapRecord
  BY <1>2 DEF SwapRecord
<1>8. s.user = u /\ s.amount = n /\ s.paid = b
  OBVIOUS
<1> HIDE DEF s
<1>9. PICK ofUser \in Nat, ofPool \in Nat : ofUser = token_a[u] /\ ofPool = token_a[Pool]
  BY <1>5
<1>10. /\ token_a' = [token_a EXCEPT ![u] = ofUser - n, ![Pool] = ofPool + n]
       /\ ofUser - n \in Nat /\ ofPool + n \in Nat
  BY <1>3, <1>4, <1>5, <1>6, <1>9
<1>11. PICK bUser \in Nat, bPool \in Nat : bUser = token_b[u] /\ bPool = token_b[Pool]
  BY <1>5
<1>12. /\ token_b' = [token_b EXCEPT ![Pool] = bPool - b, ![u] = bUser + b]
       /\ bPool - b \in Nat /\ bUser + b \in Nat
  BY <1>3, <1>4, <1>5, <1>6, <1>11
<1>13. /\ token_a' \in [User \cup {Pool} -> Nat]
       /\ token_a'[u] = ofUser - n /\ token_a'[Pool] = ofPool + n
       /\ \A v \in User \ {u} : token_a'[v] = token_a[v]
  BY <1>5, <1>6, <1>10
<1>14. /\ token_b' \in [User \cup {Pool, Supply} -> Nat]
       /\ token_b'[u] = bUser + b /\ token_b'[Pool] = bPool - b
       /\ token_b'[Supply] = token_b[Supply]
       /\ \A v \in User \ {u} : token_b'[v] = token_b[v]
  BY <1>5, <1>6, <1>12
<1>15. /\ IsFiniteSet(requests') /\ Cardinality(requests') = Cardinality(requests) - 1
       /\ Cardinality(requests') \in Nat
  <2>1. IsFiniteSet(requests') /\ Cardinality(requests') = Cardinality(requests) - 1
    BY <1>1, RequestsCounted, FS_RemoveElement
  <2> QED  BY <2>1, FS_CardinalityType
<1>16. /\ nonce'[u] = nonce[u] + 1 /\ \A v \in User \ {u} : nonce'[v] = nonce[v]
  BY <1>3, <1>5
<1>17. NoncesCounted'
  <2>1. ASSUME NEW v \in User PROVE nonce'[v] + Cardinality(requests') <= requested'
    <3>1. nonce'[v] = nonce[v] \/ nonce'[v] = nonce[v] + 1
      BY <1>16
    <3> QED  BY <1>1, <1>15, <3>1, RequestsCounted
  <2> QED  BY <1>15, <2>1 DEF NoncesCounted
<1>18. SwapTypeOK'
  <2>1. nonce' \in [User -> 0 .. MaxSwaps]
    <3>1. nonce[u] + 1 \in 0 .. MaxSwaps
      <4>1. nonce'[u] + Cardinality(requests') <= requested
        BY <1>1, <1>17 DEF NoncesCounted
      <4> QED  BY <1>15, <1>16, <4>1, RequestsCounted
    <3> QED  BY <1>3, <1>5, <3>1
  <2>2. swaps' \in Seq(SwapRecord)
    BY <1>3, <1>5, <1>7
  <2>3. requests' \subseteq Request
    BY <1>1 DEF Settling, SwapTypeOK
  <2> QED  BY <1>1, <1>13, <1>14, <2>1, <2>2, <2>3 DEF Settling, SwapTypeOK
<1>19. SwapsSettle'
  <2>1. ASSUME NEW users
        PROVE  /\ Total(TakenFrom(users)) \in Nat /\ Total(PaidTo(users)) \in Nat
               /\ Total(TakenFrom(users)') = Total(TakenFrom(users)) + (IF u \in users THEN n ELSE 0)
               /\ Total(PaidTo(users)') = Total(PaidTo(users)) + (IF u \in users THEN b ELSE 0)
    BY <1>3, <1>5, <1>7, <1>8, SumsOfSwap
  <2>2. InitialA \in Nat /\ SupplyB \in Nat /\ token_b[Supply] \in Nat
    BY <1>5, SwapAssumption
  <2>3. ASSUME NEW v \in User
        PROVE  /\ token_a'[v] = InitialA - Total(TakenFrom({v})')
               /\ token_b'[v] = Total(PaidTo({v})')
    <3>1. token_a[v] = InitialA - Total(TakenFrom({v})) /\ token_b[v] = Total(PaidTo({v}))
      BY DEF Settling, SwapsSettle
    <3>2. CASE v = u
      <4>1. /\ Total(TakenFrom({v})') = Total(TakenFrom({v})) + n
            /\ Total(PaidTo({v})') = Total(PaidTo({v})) + b
            /\ Total(TakenFrom({v})) \in Nat /\ Total(PaidTo({v})) \in Nat
        BY <2>1, <3>2
      <4> QED  BY <1>9, <1>11, <1>13, <1>14, <2>2, <3>1, <3>2, <4>1
    <3>3. CASE v # u
      <4>1. /\ Total(TakenFrom({v})') = Total(TakenFrom({v}))
            /\ Total(PaidTo({v})') = Total(PaidTo({v}))
        <5>1. u \notin {v}
          BY <3>3
        <5> QED  BY <2>1, <5>1
      <4> QED  BY <1>13, <1>14, <3>1, <3>3, <4>1
    <3> QED  BY <3>2, <3>3
  <2>4. token_a'[Pool] = Total(TakenFrom(User)')
    <3>1. token_a[Pool] = Total(TakenFrom(User))
      BY DEF Settling, SwapsSettle
    <3> QED  BY <1>9, <1>13, <2>1, <3>1
  <2>5. token_b'[Pool] + token_b'[Supply] = SupplyB - Total(PaidTo(User)')
    <3>1. token_b[Pool] + token_b[Supply] = SupplyB - Total(PaidTo(User))
      BY DEF Settling, SwapsSettle
    <3>2. Total(PaidTo(User)') = Total(PaidTo(User)) + b /\ Total(PaidTo(User)) \in Nat
      BY <2>1
    <3> QED  BY <1>11, <1>14, <2>2, <3>1, <3>2
  <2> QED  BY <2>3, <2>4, <2>5 DEF SwapsSettle
<1> QED  BY <1>17, <1>18, <1>19 DEF Settling

LEMMA SettlingStep == IInv /\ Settling /\ [Next]_vars => Settling'
<1> SUFFICES ASSUME IInv, Settling, [Next]_vars PROVE Settling'
  OBVIOUS
<1>1. CASE UNCHANGED swap_state
  <2>1. SwapTypeOK' /\ NoncesCounted'
    BY <1>1 DEF swap_state, Settling, SwapTypeOK, NoncesCounted
  <2>2. SwapsSettle'
    BY <1>1, SumsUntouched DEF swap_state, Settling, SwapsSettle
  <2> QED  BY <2>1, <2>2 DEF Settling
<1>2. CASE InitializeSwap
  <2>1. SwapTypeOK' /\ NoncesCounted'
    BY <1>2 DEF InitializeSwap, Settling, SwapTypeOK, NoncesCounted
  <2>2. SwapsSettle'
    BY <1>2, SumsUntouched DEF InitializeSwap, Settling, SwapsSettle
  <2> QED  BY <2>1, <2>2 DEF Settling
<1>3. CASE \E token \in {"A", "B"} : InitializePool(token)
  <2>1. SwapTypeOK' /\ NoncesCounted'
    BY <1>3 DEF InitializePool, Settling, SwapTypeOK, NoncesCounted
  <2>2. SwapsSettle'
    BY <1>3, SumsUntouched DEF InitializePool, Settling, SwapsSettle
  <2> QED  BY <2>1, <2>2 DEF Settling
<1>4. CASE \E n \in 1 .. token_b[Supply] : FundPool(n)
  BY <1>4, FundingSettles
<1>5. CASE \E u \in User, account \in Feed \cup {OtherAccount}, n \in Amount :
             RequestSwap(u, account, n)
  BY <1>5, RequestSettles
<1>6. CASE \E tx \in requests : ExecuteSwap(tx)
  <2>1. PICK tx \in requests : ExecuteSwap(tx)
    BY <1>6
  <2>2. CASE \E price \in PricesRead(tx.price_feed) : CanSwap(tx, price) /\ Swap(tx, price)
    BY <2>1, <2>2, SwapSettles
  <2>3. CASE UNCHANGED <<token_a, token_b, nonce, swaps>>
    BY <2>1, <2>3, RefusalSettles DEF ExecuteSwap
  <2> QED  BY <2>1, <2>2, <2>3 DEF ExecuteSwap
<1> QED  BY <1>1, <1>2, <1>3, <1>4, <1>5, <1>6 DEF Next, vars

LEMMA SettlingAlways == Spec => []Settling
BY SettlingInit, SettlingStep, Invariance, PTL DEF Spec

(* Every account holds what it should; no balance falls below zero, and a  *)
(* nonce counts swaps that were requested.                                 *)
THEOREM TypeCorrect == Spec => []TypeOK
<1>1. IInv /\ Settling => TypeOK
  BY DEF IInv, Settling, SwapTypeOK, SwapRecord, TypeOK
<1> QED  BY <1>1, Invariance, SettlingAlways, PTL

(* Tokens move by whole swaps only, for any users and any number of swaps: *)
(* what each holder has is the sum of what the executed swaps moved.       *)
THEOREM SwapsAlwaysSettle == Spec => []SwapsSettle
<1>1. Settling => SwapsSettle
  BY DEF Settling
<1> QED  BY <1>1, SettlingAlways, PTL
=============================================================================
