------------------------------- MODULE Median -------------------------------
(***************************************************************************)
(* compute_median of oracle_node/indexer/src/indexer.rs: the aggregate a   *)
(* price feed worker publishes for a round.  Prices are i64; the width is  *)
(* kept, as the even case adds two of them before it halves the sum.       *)
(***************************************************************************)
EXTENDS Integers, Sequences, FiniteSets

CONSTANT I64Max     \* the largest i64; -(I64Max + 1) is the smallest

ASSUME I64Assumption == I64Max \in Nat \ {0}

I64 == -(I64Max + 1) .. I64Max

(* Two's complement addition of a release build: the sum modulo 2^64. *)
Wrap(n) == ((n + I64Max + 1) % (2 * (I64Max + 1))) - (I64Max + 1)

(* Rust's division truncates towards zero; \div rounds down. *)
Half(n) == IF n >= 0 THEN n \div 2 ELSE -((-n) \div 2)

Below(prices, v) == {i \in DOMAIN prices : prices[i] < v}
UpTo(prices, v)  == {i \in DOMAIN prices : prices[i] <= v}

(* v stands at place k when the prices are sorted. *)
AtPlace(prices, k, v) ==
  /\ Cardinality(Below(prices, v)) < k
  /\ k <= Cardinality(UpTo(prices, v))

(* Mutant: the prices are compared as u64. *)
SortUnstable_Unsigned(prices) ==
  LET u64(p) == IF p >= 0 THEN p ELSE p + 2 * (I64Max + 1)
      keys   == [i \in DOMAIN prices |-> u64(prices[i])]
  IN  [k \in DOMAIN prices |->
         CHOOSE v \in {prices[i] : i \in DOMAIN prices} : AtPlace(keys, k, u64(v))]

(* prices.sort_unstable() *)
SortUnstable(prices) ==
  [k \in DOMAIN prices |->
     CHOOSE v \in {prices[i] : i \in DOMAIN prices} : AtPlace(prices, k, v)]

(* The place of the upper of the two middle prices: prices[mid] in Rust,   *)
(* whose indices start at 0.                                               *)
Mid(prices) == Len(prices) \div 2 + 1

MiddleSum(prices) ==
  SortUnstable(prices)[Mid(prices) - 1] + SortUnstable(prices)[Mid(prices)]

(* The addition overflows: a debug build panics, a release build wraps.    *)
Overflows(prices) ==
  prices # <<>> /\ Len(prices) % 2 = 0 /\ MiddleSum(prices) \notin I64

(* Mutant: an even number of prices is not told from an odd one. *)
compute_median_Upper(prices) ==
  IF prices = <<>> THEN 0 ELSE SortUnstable(prices)[Mid(prices)]

compute_median(prices) ==
  IF prices = <<>> THEN 0
  ELSE IF Len(prices) % 2 = 0 THEN Half(Wrap(MiddleSum(prices)))
  ELSE SortUnstable(prices)[Mid(prices)]
=============================================================================
