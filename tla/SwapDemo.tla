------------------------------ MODULE SwapDemo ------------------------------
(***************************************************************************)
(* The swap_demo program over the feeds of OraclePrices:                   *)
(*   swap_demo/methods/guest/src/bin/swap_demo.rs.                         *)
(*                                                                         *)
(* A swap pays `amount` of token A into pool A and amount * price of token *)
(* B out of pool B, by two chained calls of the token program.  It reads   *)
(* the price when it is executed, which is any time after its submission,  *)
(* from the account that its caller names: a feed's or any other that      *)
(* holds the bytes of a PriceState.                                        *)
(* The ledger applies all of a transaction, chained calls included, or     *)
(* nothing of it.                                                          *)
(***************************************************************************)
EXTENDS OraclePrices

CONSTANTS User,
          Amount,      \* amounts of token A that users swap
          U64,         \* 2^64: how many values a u64 has
          InitialA,    \* each user's tokens A
          SupplyB,     \* tokens B, which fund pool B
          MaxSwaps     \* bound: swaps submitted

Pool   == "pool"     \* pool A of token A, pool B of token B
Supply == "supply"   \* who has funded pool B, or will

OtherAccount == "other account"   \* a price_feed that is not a feed's account

ASSUME SwapAssumption ==
  /\ Pool \notin User /\ Supply \notin User /\ OtherAccount \notin Feed
  /\ U64 \in Nat \ {0} /\ Amount \subseteq 0 .. U64 - 1 /\ Price \subseteq 0 .. U64 - 1
  /\ InitialA \in Nat /\ SupplyB \in Nat /\ MaxSwaps \in Nat

VARIABLES
  swap_initialized,  \* the account swap_demo exists
  pools,             \* the pool accounts that are initialised: "A", "B"
  token_a,           \* holder -> tokens A
  token_b,           \* holder -> tokens B
  nonce,             \* user -> nonce of the "from" account
  requests,          \* swaps submitted and not executed
  requested,         \* how many there have been
  swaps              \* history: swaps executed, with what they took and paid

swap_state == <<swap_initialized, pools, token_a, token_b, nonce, requests, requested, swaps>>
vars == <<prices, swap_state>>

Request == [user : User, price_feed : Feed \cup {OtherAccount}, amount : Amount, nonce : Nat]

Init ==
  /\ PricesInit
  /\ swap_initialized = FALSE /\ pools = {}
  /\ token_a = [h \in User \cup {Pool} |-> IF h = Pool THEN 0 ELSE InitialA]
  /\ token_b = [h \in User \cup {Pool, Supply} |-> IF h = Supply THEN SupplyB ELSE 0]
  /\ nonce = [u \in User |-> 0]
  /\ requests = {} /\ requested = 0 /\ swaps = <<>>

InitializeSwap ==
  /\ ~swap_initialized
  /\ swap_initialized' = TRUE
  /\ UNCHANGED <<prices, pools, token_a, token_b, nonce, requests, requested, swaps>>

(* The chained InitializeAccount makes the pool a holding of the token, if *)
(* it is none yet.                                                         *)
InitializePool(token) ==
  /\ swap_initialized /\ token \notin pools
  /\ pools' = pools \cup {token}
  /\ UNCHANGED <<prices, swap_initialized, token_a, token_b, nonce, requests, requested, swaps>>

(* A transfer from wallet to wallet: someone funds pool B. *)
FundPool(n) ==
  /\ "B" \in pools
  /\ token_b' = [token_b EXCEPT ![Supply] = @ - n, ![Pool] = @ + n]
  /\ UNCHANGED <<prices, swap_initialized, pools, token_a, nonce, requests, requested, swaps>>

(* `spel swap` signs with the nonce its account has. *)
RequestSwap(u, account, n) ==
  /\ requested < MaxSwaps
  /\ requested' = requested + 1
  /\ requests' = requests \cup
                   {[user |-> u, price_feed |-> account, amount |-> n, nonce |-> nonce[u]]}
  /\ UNCHANGED <<prices, swap_initialized, pools, token_a, token_b, nonce, swaps>>

(* What may be read as the price: of an account that is not a feed's, any  *)
(* u64; nothing of a feed that is not initialised.                         *)
PricesRead(account) ==
  IF account = OtherAccount THEN 0 .. U64 - 1
  ELSE {feed_price[f].price : f \in {account} \cap DOMAIN feed_price}

(* The product is taken in u64, where a release build wraps, and without   *)
(* regard to the decimals of the price.                                    *)
AmountB(tx, price) == (tx.amount * price) % U64

(* Mutant: what is left of the TODO at line 209, pool B, is not checked. *)
CanSwap_AnyPool(tx, price) ==
  /\ swap_initialized /\ pools = {"A", "B"}
  /\ tx.amount <= token_a[tx.user]

(* The pools exist, and both transfers, in which the token program checks  *)
(* the sender, find what they take.                                        *)
CanSwap(tx, price) ==
  /\ swap_initialized /\ pools = {"A", "B"}
  /\ tx.amount <= token_a[tx.user] /\ AmountB(tx, price) <= token_b[Pool]

Swap(tx, price) ==
  LET amount_b == AmountB(tx, price)
  IN  /\ token_a' = [token_a EXCEPT ![tx.user] = @ - tx.amount, ![Pool] = @ + tx.amount]
      /\ token_b' = [token_b EXCEPT ![Pool] = @ - amount_b, ![tx.user] = @ + amount_b]
      /\ nonce' = [nonce EXCEPT ![tx.user] = @ + 1]
      /\ swaps' = Append(swaps, [user |-> tx.user, amount |-> tx.amount, paid |-> amount_b])

(* What is read is no PriceState, or a transfer fails. *)
CannotSwap(tx) ==
  tx.price_feed = OtherAccount \/ \A price \in PricesRead(tx.price_feed) : ~CanSwap(tx, price)

(* Mutant: the first transfer stands when the second fails. *)
ExecuteSwap_NotAtomic(tx) ==
  /\ tx \in requests /\ tx.nonce = nonce[tx.user]
  /\ requests' = requests \ {tx}
  /\ \/ \E price \in PricesRead(tx.price_feed) : CanSwap(tx, price) /\ Swap(tx, price)
     \/ /\ CannotSwap(tx)
        /\ IF swap_initialized /\ pools = {"A", "B"} /\ tx.amount <= token_a[tx.user]
             THEN token_a' = [token_a EXCEPT ![tx.user] = @ - tx.amount, ![Pool] = @ + tx.amount]
             ELSE UNCHANGED token_a
        /\ UNCHANGED <<token_b, nonce, swaps>>
  /\ UNCHANGED <<prices, swap_initialized, pools, requested>>

(* The ledger takes a request of the account's nonce; one that fails is    *)
(* dropped.                                                                *)
ExecuteSwap(tx) ==
  /\ tx \in requests /\ tx.nonce = nonce[tx.user]
  /\ requests' = requests \ {tx}
  /\ \/ \E price \in PricesRead(tx.price_feed) : CanSwap(tx, price) /\ Swap(tx, price)
     \/ CannotSwap(tx) /\ UNCHANGED <<token_a, token_b, nonce, swaps>>
  /\ UNCHANGED <<prices, swap_initialized, pools, requested>>

Next ==
  \/ PricesNext /\ UNCHANGED swap_state
  \/ InitializeSwap
  \/ \E token \in {"A", "B"} : InitializePool(token)
  \/ \E n \in 1 .. token_b[Supply] : FundPool(n)
  \/ \E u \in User, account \in Feed \cup {OtherAccount}, n \in Amount :
       RequestSwap(u, account, n)
  \/ \E tx \in requests : ExecuteSwap(tx)

Spec == Init /\ [][Next]_vars
-----------------------------------------------------------------------------
(* Properties *)

TypeOK ==
  /\ PricesTypeOK
  /\ swap_initialized \in BOOLEAN /\ pools \subseteq {"A", "B"}
  /\ token_a \in [User \cup {Pool} -> Nat]
  /\ token_b \in [User \cup {Pool, Supply} -> Nat]
  /\ nonce \in [User -> 0 .. MaxSwaps]
  /\ requests \subseteq Request /\ requested \in 0 .. MaxSwaps
  /\ swaps \in Seq([user : User, amount : Amount, paid : Nat])

(* The sum of a sequence. *)
Total(values) ==
  LET upTo[n \in 0 .. Len(values)] == IF n = 0 THEN 0 ELSE upTo[n - 1] + values[n]
  IN  upTo[Len(values)]

(* What the executed swaps of these users have taken and paid. *)
TakenFrom(users) == [i \in DOMAIN swaps |-> IF swaps[i].user \in users THEN swaps[i].amount ELSE 0]
PaidTo(users)    == [i \in DOMAIN swaps |-> IF swaps[i].user \in users THEN swaps[i].paid ELSE 0]

(* Tokens move by whole swaps only: what every user has is what the        *)
(* executed swaps of that user have taken and paid, whatever price was     *)
(* read, and also when pool B runs out, a pool is missing or the user's    *)
(* tokens do not suffice; and what users have not, the pools and the       *)
(* supply have.                                                            *)
SwapsSettle ==
  /\ \A u \in User : /\ token_a[u] = InitialA - Total(TakenFrom({u}))
                     /\ token_b[u] = Total(PaidTo({u}))
  /\ token_a[Pool] = Total(TakenFrom(User))
  /\ token_b[Pool] + token_b[Supply] = SupplyB - Total(PaidTo(User))
=============================================================================
