------------------------------ MODULE MCMedian ------------------------------
(***************************************************************************)
(* A price on its way from the providers to the attestation: every round   *)
(* of at most MaxLen quotes, of different providers and collected one at a *)
(* time, is converted price by price and aggregated; and every raise of    *)
(* one of the quotes by its last digit.                                    *)
(***************************************************************************)
EXTENDS PriceObs

CONSTANTS Quotes,     \* what the providers may quote
          MaxLen      \* bound: observations in a round

ASSUME QuotesAssumption == Quotes \subseteq Quote

VARIABLE quotes

(* The round, as the feed worker sees it. *)
prices == [i \in DOMAIN quotes |-> Price(quotes[i])]

Init == quotes = <<>>

Observe == /\ Len(quotes) < MaxLen
           /\ \E quote \in Quotes : Converts(quote) /\ quotes' = Append(quotes, quote)

Raise == \E i \in DOMAIN quotes :
           LET quote == [quotes[i] EXCEPT !.mantissa = @ + 1] IN
           /\ quote \in Quotes /\ Converts(quote)
           /\ quotes' = [quotes EXCEPT ![i] = quote]

Next == Observe \/ Raise

Spec == Init /\ [][Next]_quotes

(* The small instance: halves to round, prices that do not fit in 64 bits  *)
(* and two that pyth_sdk refuses.                                          *)
Quoted(provider, scale, mantissas) ==
  [provider : {provider}, scale : {scale}, mantissa : mantissas]

SmallQuotes ==
  Quoted("binance", "fine", -4 .. 5) \cup Quoted("pyth", "fine", -1 .. 3)
    \cup Quoted("redstone", "coarse", {1}) \cup Quoted("pyth", "coarse", {-1, 2})
-----------------------------------------------------------------------------
(* A minority of outlying observations cannot carry the attested price out *)
(* of the band the majority quotes, in whatever order they arrive and      *)
(* whichever providers they come from: no conversion takes a quote out of  *)
(* a band of prices it lies in, and the median keeps to the majority, also *)
(* when the prices of the others are cut to 64 bits.  A sum of the two     *)
(* middle prices that overflows is excluded here; the feed worker's model  *)
(* says what it does.                                                      *)
MajorityRules ==
  \A lo, hi \in I64 :
    ( /\ ~Overflows(prices)
      /\ 2 * Cardinality({i \in DOMAIN quotes : Within(quotes[i], lo, hi)}) > Len(quotes) )
      => compute_median(prices) \in lo .. hi

(* An oracle whose provider raises its quote never lowers the attested     *)
(* price, whatever rounds or truncates on the way.                         *)
RaiseNeverLowers ==
  [][ ( /\ Raise /\ ~Overflows(prices) /\ ~Overflows(prices')
        /\ \A i \in DOMAIN quotes : Fits(quotes[i]) /\ Fits(quotes'[i]) )
        => compute_median(prices') >= compute_median(prices) ]_quotes

(* compute_median against a definition that does not sort: of an odd       *)
(* number of prices, one with at least half of them at or below it and at  *)
(* least half at or above; of an even number, the mean of two such,        *)
(* towards zero; when the sum wraps, that of a sum exactly 2^64 away.      *)
MedianByRank ==
  prices # <<>> =>
    LET n         == Len(prices)
        Prices    == {prices[i] : i \in DOMAIN prices}
        Middle(v) == /\ 2 * Cardinality(UpTo(prices, v)) >= n
                     /\ 2 * Cardinality({i \in DOMAIN prices : prices[i] >= v}) >= n
        lower     == CHOOSE v \in Prices : Middle(v) /\ \A w \in Prices : Middle(w) => v <= w
        upper     == CHOOSE v \in Prices : Middle(v) /\ \A w \in Prices : Middle(w) => v >= w
        twice     == lower + upper
        result    == compute_median(prices)
        Truncates(t) == /\ 2 * result - t \in {-1, 0, 1}
                        /\ (t >= 0 => 2 * result <= t)
                        /\ (t <= 0 => 2 * result >= t)
        wrapped   == IF twice > I64Max THEN twice - 2 * (I64Max + 1)
                     ELSE IF twice < -(I64Max + 1) THEN twice + 2 * (I64Max + 1)
                     ELSE twice
    IN  IF n % 2 = 1 THEN result = lower /\ lower = upper ELSE Truncates(wrapped)
=============================================================================
