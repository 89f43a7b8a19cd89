---------------------------- MODULE OraclePrices ----------------------------
(***************************************************************************)
(* The oracle_prices program and those who call it:                        *)
(*   oracle_prices/methods/guest/src/bin/oracle_prices.rs,                 *)
(*   oracle_prices_client/src/oracle_prices_client.rs,                     *)
(*   oracle_node/indexer/src/prices_contract.rs.                           *)
(*                                                                         *)
(* A publication is a transaction without a signer, and so without a nonce:*)
(* it is executed at any time after its submission, in any order with the  *)
(* others.  The framework refuses a transaction whose accounts do not meet *)
(* the attributes of the instruction: `init` asks for an account that does *)
(* not exist yet, `pda` for the one derived from the arguments.            *)
(***************************************************************************)
EXTENDS SequencesExt

CONSTANTS Feed,             \* feed ids
          ZeroId,           \* [0; 32]
          DefaultAccount,   \* AccountId::default()
          Price,            \* prices published
          MaxPublications   \* bound: publications submitted

ASSUME PricesAssumption ==
  /\ ZeroId \notin Feed /\ DefaultAccount \notin Feed
  /\ Price \subseteq Nat /\ MaxPublications \in Nat

VARIABLES
  prices_initialized,  \* oracle_prices_account exists
  feeds,               \* the feeds it lists
  feed_price,          \* the feed accounts that exist, with their contents
  publications,        \* submitted and not executed
  submitted,           \* publications so far
  executed             \* history: feed -> the prices stored, in order

prices == <<prices_initialized, feeds, feed_price, publications, submitted, executed>>

(* The account of a feed goes by the feed's id, as the derivation from it  *)
(* (compute_feed_price_pda) is one to one.                                 *)
Account == Feed \cup {DefaultAccount}

PriceState  == [feed_id : Feed \cup {ZeroId}, price : Nat]
EmptyPrice  == [feed_id |-> ZeroId, price |-> 0]
Publication == [account : Account, feed_id : Feed, price : Price]

PricesInit ==
  /\ prices_initialized = FALSE /\ feeds = <<>>
  /\ feed_price = [f \in {} |-> EmptyPrice]
  /\ publications = {} /\ submitted = 0
  /\ executed = [f \in Feed |-> <<>>]

(* Mutant: the account is declared `mut` and not `init`. *)
InitializePrices_Mut ==
  /\ prices_initialized' = TRUE
  /\ feeds' = <<>>
  /\ UNCHANGED <<feed_price, publications, submitted, executed>>

InitializePrices ==
  /\ ~prices_initialized
  /\ prices_initialized' = TRUE
  /\ feeds' = <<>>
  /\ UNCHANGED <<feed_price, publications, submitted, executed>>

(* Mutant: the feed's account is declared `mut` and not `init`. *)
InitializeFeed_Mut(f) ==
  /\ prices_initialized
  /\ feed_price' = [g \in DOMAIN feed_price \cup {f} |->
                      IF g = f THEN EmptyPrice ELSE feed_price[g]]
  /\ feeds' = Append(feeds, f)
  /\ UNCHANGED <<prices_initialized, publications, submitted, executed>>

(* Anyone may initialise a feed.  Until a price is published its account   *)
(* holds PriceState::default(), which names no feed and has price 0.       *)
InitializeFeed(f) ==
  /\ prices_initialized /\ f \notin DOMAIN feed_price
  /\ feed_price' = [g \in DOMAIN feed_price \cup {f} |->
                      IF g = f THEN EmptyPrice ELSE feed_price[g]]
  /\ feeds' = Append(feeds, f)
  /\ UNCHANGED <<prices_initialized, publications, submitted, executed>>

(* A publication that is still to be executed is not two if it is          *)
(* submitted again: it is the same transaction.                            *)
Submit(account, f, p) ==
  /\ submitted < MaxPublications
  /\ submitted' = submitted + 1
  /\ publications' = publications \cup {[account |-> account, feed_id |-> f, price |-> p]}
  /\ UNCHANGED <<prices_initialized, feeds, feed_price, executed>>

(* publish_attested_price names the default account. *)
IndexerPublishes(f, p) == Submit(DefaultAccount, f, p)

(* `spel publish-price` derives the account from the feed. *)
CommandLinePublishes(f, p) == Submit(f, f, p)

(* publish_price overwrites, whatever the price's round. *)
PublishPrice(tx) ==
  /\ tx \in publications
  /\ publications' = publications \ {tx}
  /\ \/ /\ tx.account = tx.feed_id /\ tx.account \in DOMAIN feed_price
        /\ feed_price' = [feed_price EXCEPT
                            ![tx.account] = [feed_id |-> tx.feed_id, price |-> tx.price]]
        /\ executed' = [executed EXCEPT ![tx.feed_id] = Append(@, tx.price)]
     \/ /\ tx.account # tx.feed_id \/ tx.account \notin DOMAIN feed_price
        /\ UNCHANGED <<feed_price, executed>>
  /\ UNCHANGED <<prices_initialized, feeds, submitted>>

PricesNext ==
  \/ InitializePrices
  \/ \E f \in Feed : InitializeFeed(f)
  \/ \E f \in Feed, p \in Price : IndexerPublishes(f, p) \/ CommandLinePublishes(f, p)
  \/ \E tx \in publications : PublishPrice(tx)
-----------------------------------------------------------------------------
PricesTypeOK ==
  /\ prices_initialized \in BOOLEAN
  /\ feeds \in Seq(Feed)
  /\ DOMAIN feed_price \subseteq Feed
  /\ feed_price \in [DOMAIN feed_price -> PriceState]
  /\ publications \subseteq Publication
  /\ submitted \in 0 .. MaxPublications
  /\ executed \in [Feed -> Seq(Price)]

(* The list that clients walk to read the feeds (main.rs of the client)    *)
(* and the accounts they find agree, over any order of initialisations:    *)
(* every listed feed has an account, and every account is listed, once.    *)
FeedsListed == ToSet(feeds) = DOMAIN feed_price /\ IsInjective(feeds)

(* What a feed's price is: the last that was executed, 0 before any. *)
Standing(executions) == IF executions = <<>> THEN 0 ELSE Last(executions)

(* A feed shows the last price executed for it, under its own id, whatever *)
(* is initialised, refused or published for other feeds meanwhile: no      *)
(* price that was published is lost but to a later one.                    *)
LatestPriceStands ==
  \A f \in DOMAIN feed_price :
    /\ feed_price[f].price = Standing(executed[f])
    /\ feed_price[f].feed_id = (IF executed[f] = <<>> THEN ZeroId ELSE f)
=============================================================================
