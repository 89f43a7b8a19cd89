-------------------------- MODULE MCMedian_proofs --------------------------
(***************************************************************************)
(* MajorityRules holds of rounds of every size, for every i64 width, every *)
(* set of quotes and every number of digits converted.  The argument: a    *)
(* quotient stays between bounds its dividend respects, so a conversion    *)
(* keeps a quote in a band of prices; the rest is MedianOfMajority.        *)
(***************************************************************************)
EXTENDS MCMedian, Median_proofs

LEMMA TimesMonotone ==
  ASSUME NEW a \in Int, NEW b \in Int, a <= b, NEW s \in Nat
  PROVE  a * s <= b * s
OBVIOUS

LEMMA Quotient ==
  ASSUME NEW n \in Int, NEW d \in Nat \ {0}
  PROVE  /\ n \div d \in Int
         /\ (n \div d) * d <= n
         /\ n < (n \div d) * d + d
OBVIOUS

LEMMA QuotientBetween ==
  ASSUME NEW n \in Int, NEW d \in Nat \ {0}, NEW lo \in Int, NEW hi \in Int,
         lo * d <= n, n < hi * d + d
  PROVE  n \div d \in lo .. hi
<1> DEFINE q == n \div d
<1>1. q \in Int /\ q * d <= n /\ n < q * d + d
  BY Quotient
<1> HIDE DEF q
<1>2. ~ (q + 1 <= lo)
  <2>1. SUFFICES ASSUME q + 1 <= lo PROVE FALSE
    OBVIOUS
  <2>2. (q + 1) * d <= lo * d
    BY <1>1, <2>1, TimesMonotone
  <2>3. (q + 1) * d = q * d + d
    BY <1>1
  <2> QED  BY <1>1, <2>2, <2>3
<1>3. ~ (hi + 1 <= q)
  <2>1. SUFFICES ASSUME hi + 1 <= q PROVE FALSE
    OBVIOUS
  <2>2. (hi + 1) * d <= q * d
    BY <1>1, <2>1, TimesMonotone
  <2>3. (hi + 1) * d = hi * d + d
    BY <1>1
  <2> QED  BY <1>1, <2>2, <2>3
<1>4. q \in lo .. hi
  BY <1>1, <1>2, <1>3
<1> QED  BY <1>4 DEF q

(* Truncation keeps a fine quote in its band. *)
LEMMA TowardZeroBetween ==
  ASSUME NEW n \in Int, NEW lo \in Int, NEW hi \in Int,
         lo * Step <= n, n <= hi * Step
  PROVE  TowardZero(n) \in lo .. hi
<1>1. CASE n >= 0
  <2>1. n \div Step \in lo .. hi
    BY QuotientBetween, StepAssumption
  <2> QED  BY <1>1, <2>1 DEF TowardZero
<1>2. CASE ~(n >= 0)
  <2>1. (-hi) * Step = -(hi * Step) /\ (-lo) * Step = -(lo * Step)
    BY StepAssumption
  <2>2. (-hi) * Step <= -n /\ -n < (-lo) * Step + Step
    BY <2>1, StepAssumption
  <2>3. (-n) \div Step \in -hi .. -lo
    BY <2>2, QuotientBetween, StepAssumption
  <2> QED  BY <1>2, <2>3 DEF TowardZero
<1> QED  BY <1>1, <1>2

(* So does rounding: the bounds are whole prices. *)
LEMMA HalfAwayBetween ==
  ASSUME NEW n \in Int, NEW lo \in Int, NEW hi \in Int,
         lo * Step <= n, n <= hi * Step
  PROVE  HalfAway(n) \in lo .. hi
<1>1. 2 * Step \in Nat \ {0}
  BY StepAssumption
<1>2. /\ lo * (2 * Step) = 2 * (lo * Step) /\ hi * (2 * Step) = 2 * (hi * Step)
      /\ (-lo) * (2 * Step) = -2 * (lo * Step) /\ (-hi) * (2 * Step) = -2 * (hi * Step)
  BY StepAssumption
<1>3. CASE n >= 0
  <2>1. lo * (2 * Step) <= 2 * n + Step /\ 2 * n + Step < hi * (2 * Step) + 2 * Step
    BY <1>2, StepAssumption
  <2>2. (2 * n + Step) \div (2 * Step) \in lo .. hi
    BY <1>1, <2>1, QuotientBetween, StepAssumption
  <2> QED  BY <1>3, <2>2 DEF HalfAway
<1>4. CASE ~(n >= 0)
  <2>1. /\ (-hi) * (2 * Step) <= -2 * n + Step
        /\ -2 * n + Step < (-lo) * (2 * Step) + 2 * Step
    BY <1>2, StepAssumption
  <2>2. (-2 * n + Step) \div (2 * Step) \in -hi .. -lo
    BY <1>1, <2>1, QuotientBetween, StepAssumption
  <2> QED  BY <1>4, <2>2 DEF HalfAway
<1> QED  BY <1>3, <1>4

LEMMA ConversionIsInt ==
  ASSUME NEW quote \in Quote
  PROVE  Rescale(quote) \in Int /\ ScaleToExponent(quote) \in Int
<1>1. quote.mantissa \in Int /\ -quote.mantissa \in Int /\ 2 * Step \in Nat \ {0}
  BY StepAssumption DEF Quote
<1>2. quote.mantissa * Step \in Int
  BY <1>1, StepAssumption
<1>3. HalfAway(quote.mantissa) \in Int
  <2>1. 2 * quote.mantissa + Step \in Int /\ -2 * quote.mantissa + Step \in Int
    BY <1>1, StepAssumption
  <2> HIDE DEF HalfAway
  <2>2. /\ (2 * quote.mantissa + Step) \div (2 * Step) \in Int
        /\ (-2 * quote.mantissa + Step) \div (2 * Step) \in Int
    BY <1>1, <2>1, Quotient
  <2> QED  BY <2>2 DEF HalfAway
<1>4. TowardZero(quote.mantissa) \in Int
  BY <1>1, Quotient, StepAssumption DEF TowardZero
<1> QED  BY <1>2, <1>3, <1>4 DEF Rescale, ScaleToExponent

(* No provider's conversion takes a quote out of a band it lies in. *)
LEMMA PriceWithin ==
  ASSUME NEW quote \in Quote, NEW lo \in I64, NEW hi \in I64, Within(quote, lo, hi)
  PROVE  Price(quote) \in lo .. hi
<1>1. quote.mantissa \in Int /\ lo \in Int /\ hi \in Int
  BY I64Assumption DEF Quote, I64
<1>2. ScaleToExponent(quote) \in lo .. hi /\ Rescale(quote) \in lo .. hi
  <2>1. CASE quote.scale = "fine"
    <3>1. lo * Step <= quote.mantissa /\ quote.mantissa <= hi * Step
      BY <2>1 DEF Within
    <3>2. TowardZero(quote.mantissa) \in lo .. hi /\ HalfAway(quote.mantissa) \in lo .. hi
      BY <1>1, <3>1, TowardZeroBetween, HalfAwayBetween
    <3> QED  BY <2>1, <3>2 DEF ScaleToExponent, Rescale
  <2>2. CASE quote.scale # "fine"
    <3>1. quote.mantissa * Step \in lo .. hi
      BY <1>1, <2>2, StepAssumption DEF Within
    <3> QED  BY <2>2, <3>1 DEF ScaleToExponent, Rescale
  <2> QED  BY <2>1, <2>2
<1>3. Rescale(quote) \in I64
  BY <1>2, I64Assumption DEF I64
<1>4. Wrap(Rescale(quote)) = Rescale(quote)
  BY <1>3, WrapKeepsI64
<1> QED  BY <1>2, <1>4 DEF Price

LEMMA PriceIsI64 ==
  ASSUME NEW quote \in Quote, Converts(quote)
  PROVE  Price(quote) \in I64
BY ConversionIsInt, WrapIsI64 DEF Converts, Price

Convertible == {quote \in Quote : Converts(quote)}

LEMMA QuotesConvert == Spec => [](quotes \in Seq(Convertible))
<1>1. Init => quotes \in Seq(Convertible)
  BY DEF Init
<1>2. quotes \in Seq(Convertible) /\ [Next]_quotes => (quotes \in Seq(Convertible))'
  <2> SUFFICES ASSUME quotes \in Seq(Convertible), [Next]_quotes
               PROVE  quotes' \in Seq(Convertible)
    OBVIOUS
  <2>1. CASE Observe
    <3>1. PICK quote \in Quotes : Converts(quote) /\ quotes' = Append(quotes, quote)
      BY <2>1 DEF Observe
    <3>2. quote \in Convertible
      BY <3>1, QuotesAssumption DEF Convertible
    <3> HIDE DEF Convertible
    <3> QED  BY <3>1, <3>2
  <2>2. CASE Raise
    <3>1. PICK i \in DOMAIN quotes :
            LET quote == [quotes[i] EXCEPT !.mantissa = @ + 1] IN
            /\ quote \in Quotes /\ Converts(quote)
            /\ quotes' = [quotes EXCEPT ![i] = quote]
      BY <2>2 DEF Raise
    <3> DEFINE quote == [quotes[i] EXCEPT !.mantissa = @ + 1]
    <3>2. quote \in Convertible
      BY <3>1, QuotesAssumption DEF Convertible
    <3>3. quotes' = [quotes EXCEPT ![i] = quote]
      BY <3>1
    <3> HIDE DEF Convertible, quote
    <3> QED  BY <3>2, <3>3, ExceptSeq
  <2>3. CASE UNCHANGED quotes
    BY <2>3
  <2> QED  BY <2>1, <2>2, <2>3 DEF Next
<1> QED  BY <1>1, <1>2, PTL DEF Spec

LEMMA PricesAreI64 ==
  ASSUME quotes \in Seq(Convertible)
  PROVE  prices \in Seq(I64) /\ Len(prices) = Len(quotes) /\ DOMAIN prices = DOMAIN quotes
<1>1. DOMAIN quotes = 1 .. Len(quotes) /\ Len(quotes) \in Nat
  OBVIOUS
<1>2. \A i \in 1 .. Len(quotes) : quotes[i] \in Quote /\ Converts(quotes[i])
  BY DEF Convertible
<1>3. \A i \in 1 .. Len(quotes) : Price(quotes[i]) \in I64
  BY <1>2, PriceIsI64
<1>4. prices = [i \in 1 .. Len(quotes) |-> Price(quotes[i])]
  BY <1>1 DEF prices
<1> QED  BY <1>1, <1>3, <1>4

(* However many quotes of whichever providers a round collects, a minority *)
(* of them cannot carry the attested price out of the band the majority    *)
(* quotes.                                                                 *)
THEOREM MajorityAlwaysRules == Spec => []MajorityRules
<1>1. quotes \in Seq(Convertible) => MajorityRules
  <2> SUFFICES ASSUME quotes \in Seq(Convertible),
                      NEW lo \in I64, NEW hi \in I64, ~Overflows(prices),
                      2 * Cardinality({i \in DOMAIN quotes : Within(quotes[i], lo, hi)})
                        > Len(quotes)
               PROVE  compute_median(prices) \in lo .. hi
    BY DEF MajorityRules
  <2> DEFINE Honest == {i \in DOMAIN quotes : Within(quotes[i], lo, hi)}
             InBand == {i \in DOMAIN prices : prices[i] \in lo .. hi}
  <2>1. \A i \in DOMAIN quotes : quotes[i] \in Quote /\ Converts(quotes[i])
    BY DEF Convertible
  <2>2. prices \in Seq(I64) /\ Len(prices) = Len(quotes) /\ DOMAIN prices = DOMAIN quotes
    BY PricesAreI64
  <2>3. Honest \subseteq InBand
    BY <2>1, <2>2, PriceWithin DEF prices
  <2>4. Cardinality(Honest) <= Cardinality(InBand)
    BY <2>2, <2>3, CountsAreFinite, FS_Subset
  <2>5. Cardinality(Honest) \in Nat /\ Cardinality(InBand) \in Nat
    <3>1. Honest \subseteq DOMAIN prices /\ InBand \subseteq DOMAIN prices
      BY <2>2
    <3>2. Cardinality(Honest) \in 0 .. Len(prices) /\ Cardinality(InBand) \in 0 .. Len(prices)
      BY <2>2, <3>1, CountsAreFinite
    <3> QED  BY <2>2, <3>2
  <2>6. 2 * Cardinality(InBand) > Len(prices)
    BY <2>2, <2>4, <2>5
  <2> QED  BY <2>2, <2>6, MedianOfMajority
<1> QED  BY <1>1, QuotesConvert, PTL

(* A conversion keeps the order of two quotes of one provider and scale.   *)
LEMMA QuotientMonotone ==
  ASSUME NEW a \in Int, NEW b \in Int, a <= b, NEW d \in Nat \ {0}
  PROVE  a \div d <= b \div d
<1> DEFINE p == a \div d
           q == b \div d
<1>1. p \in Int /\ p * d <= a /\ q \in Int /\ b < q * d + d
  BY Quotient
<1> HIDE DEF p, q
<1>2. ~(q + 1 <= p)
  <2> SUFFICES ASSUME q + 1 <= p PROVE FALSE
    OBVIOUS
  <2>1. (q + 1) * d <= p * d
    BY <1>1, TimesMonotone
  <2>2. (q + 1) * d = q * d + d
    BY <1>1
  <2> QED  BY <1>1, <2>1, <2>2
<1>3. p <= q
  BY <1>1, <1>2
<1> QED  BY <1>3 DEF p, q

LEMMA RoundingsMonotone ==
  ASSUME NEW a \in Int, NEW b \in Int, a <= b
  PROVE  TowardZero(a) <= TowardZero(b) /\ HalfAway(a) <= HalfAway(b)
<1>1. /\ Step \in Nat \ {0} /\ 2 * Step \in Nat \ {0}
      /\ -a \in Int /\ -b \in Int /\ -b <= -a
  BY StepAssumption
(* On each side of zero a quotient, which is of the sign of its dividend. *)
<1>2. ASSUME NEW c \in Nat, NEW d \in Nat \ {0} PROVE c \div d \in Nat
  OBVIOUS
<1>3. CASE a >= 0
  <2>1. b >= 0
    BY <1>3
  <2>2. a \div Step <= b \div Step
    BY <1>1, QuotientMonotone
  <2>3. (2 * a + Step) \div (2 * Step) <= (2 * b + Step) \div (2 * Step)
    <3>1. 2 * a + Step \in Int /\ 2 * b + Step \in Int /\ 2 * a + Step <= 2 * b + Step
      BY <1>1
    <3> QED  BY <1>1, <3>1, QuotientMonotone
  <2> QED  BY <1>3, <2>1, <2>2, <2>3 DEF TowardZero, HalfAway
<1>4. CASE ~(b >= 0)
  <2>1. ~(a >= 0)
    BY <1>4
  <2>2. PICK p \in Int, q \in Int : p = (-a) \div Step /\ q = (-b) \div Step
    BY <1>1, Quotient
  <2>3. PICK r \in Int, t \in Int :
          r = (-2 * a + Step) \div (2 * Step) /\ t = (-2 * b + Step) \div (2 * Step)
    BY <1>1, Quotient
  <2>4. q <= p
    BY <1>1, <2>2, QuotientMonotone
  <2>5. t <= r
    <3>1. -2 * a + Step \in Int /\ -2 * b + Step \in Int /\ -2 * b + Step <= -2 * a + Step
      BY <1>1
    <3> QED  BY <1>1, <2>3, <3>1, QuotientMonotone
  <2>6. TowardZero(a) = -p /\ TowardZero(b) = -q
    BY <1>4, <2>1, <2>2 DEF TowardZero
  <2>7. HalfAway(a) = -r /\ HalfAway(b) = -t
    BY <1>4, <2>1, <2>3 DEF HalfAway
  <2> QED  BY <2>2, <2>3, <2>4, <2>5, <2>6, <2>7
<1>5. CASE ~(a >= 0) /\ b >= 0
  <2>1. -a \in Nat /\ -2 * a + Step \in Nat /\ b \in Nat /\ 2 * b + Step \in Nat
    BY <1>1, <1>5
  <2>2. PICK p \in Nat, q \in Nat : p = (-a) \div Step /\ q = b \div Step
    BY <1>1, <1>2, <2>1
  <2>3. PICK r \in Nat, t \in Nat :
          r = (-2 * a + Step) \div (2 * Step) /\ t = (2 * b + Step) \div (2 * Step)
    BY <1>1, <1>2, <2>1
  <2>4. TowardZero(a) = -p /\ TowardZero(b) = q
    BY <1>5, <2>2 DEF TowardZero
  <2>5. HalfAway(a) = -r /\ HalfAway(b) = t
    BY <1>5, <2>3 DEF HalfAway
  <2> QED  BY <2>2, <2>3, <2>4, <2>5
<1> QED  BY <1>3, <1>4, <1>5

(* A higher quote is a price no lower, if no bit is cut off either. *)
LEMMA PriceRises ==
  ASSUME NEW quote \in Quote, NEW higher \in Quote,
         higher.provider = quote.provider, higher.scale = quote.scale,
         quote.mantissa <= higher.mantissa, Fits(quote), Fits(higher)
  PROVE  Price(quote) <= Price(higher)
<1>1. PICK a \in Int, b \in Int : a = quote.mantissa /\ b = higher.mantissa /\ a <= b
  BY DEF Quote
<1>2. TowardZero(a) <= TowardZero(b) /\ HalfAway(a) <= HalfAway(b) /\ a * Step <= b * Step
  BY <1>1, RoundingsMonotone, TimesMonotone, StepAssumption
<1>3. ScaleToExponent(quote) <= ScaleToExponent(higher) /\ Rescale(quote) <= Rescale(higher)
  BY <1>1, <1>2 DEF ScaleToExponent, Rescale
<1>4. CASE quote.provider = "pyth"
  BY <1>3, <1>4 DEF Price
<1>5. CASE quote.provider # "pyth"
  <2>1. Rescale(quote) \in I64 /\ Rescale(higher) \in I64
    BY <1>5 DEF Fits
  <2>2. Wrap(Rescale(quote)) = Rescale(quote) /\ Wrap(Rescale(higher)) = Rescale(higher)
    BY <2>1, WrapKeepsI64
  <2> QED  BY <1>3, <1>5, <2>2 DEF Price
<1> QED  BY <1>4, <1>5

LEMMA PricesAreI64Next ==
  (quotes \in Seq(Convertible))' =>
    (prices \in Seq(I64) /\ Len(prices) = Len(quotes) /\ DOMAIN prices = DOMAIN quotes)'
BY PricesAreI64, PTL

(* Whoever quotes, and however the quote is rounded or truncated on its    *)
(* way: a provider that raises it never lowers the attested price, of      *)
(* rounds of any size.                                                     *)
THEOREM RaiseNeverLowersMedian == Spec => RaiseNeverLowers
<1> DEFINE Typed == quotes \in Seq(Convertible)
           Rises == ( /\ Raise /\ ~Overflows(prices) /\ ~Overflows(prices')
                      /\ \A i \in DOMAIN quotes : Fits(quotes[i]) /\ Fits(quotes'[i]) )
                    => compute_median(prices') >= compute_median(prices)
<1>1. ASSUME Typed, Typed', Raise, ~Overflows(prices), ~Overflows(prices'),
             \A i \in DOMAIN quotes : Fits(quotes[i]) /\ Fits(quotes'[i])
      PROVE  compute_median(prices') >= compute_median(prices)
  <2>1. PICK j \in DOMAIN quotes : quotes' = [quotes EXCEPT ![j] = [quotes[j] EXCEPT !.mantissa = @ + 1]]
    BY <1>1 DEF Raise
  <2>2. DOMAIN quotes' = DOMAIN quotes
    BY <2>1
  <2>3. /\ prices \in Seq(I64) /\ DOMAIN prices = DOMAIN quotes
        /\ prices' \in Seq(I64) /\ DOMAIN prices' = DOMAIN quotes
    BY <1>1, <2>2, PricesAreI64, PricesAreI64Next
  <2>4. \A i \in DOMAIN quotes : quotes[i] \in Quote /\ quotes'[i] \in Quote
    BY <1>1, <2>2 DEF Convertible
  <2>5. ASSUME NEW i \in DOMAIN quotes PROVE prices[i] <= prices'[i]
    <3>1. prices[i] = Price(quotes[i]) /\ prices'[i] = Price(quotes'[i])
      BY <2>2 DEF prices
    <3>2. /\ quotes'[i].provider = quotes[i].provider /\ quotes'[i].scale = quotes[i].scale
          /\ quotes[i].mantissa <= quotes'[i].mantissa
      <4>1. quotes[i].mantissa \in Int
        BY <2>4 DEF Quote
      <4>2. CASE i = j
        <5>1. quotes'[i] = [quotes[i] EXCEPT !.mantissa = @ + 1]
          BY <2>1, <4>2
        <5> QED  BY <2>4, <4>1, <5>1 DEF Quote
      <4>3. CASE i # j
        <5>1. quotes'[i] = quotes[i]
          BY <2>1, <4>3
        <5> QED  BY <4>1, <5>1
      <4> QED  BY <4>2, <4>3
    <3> QED  BY <1>1, <2>4, <3>1, <3>2, PriceRises
  <2>6. compute_median(prices) <= compute_median(prices')
    <3>1. PICK before : before = prices
      OBVIOUS
    <3>2. PICK after : after = prices'
      OBVIOUS
    <3> QED  BY <1>1, <2>3, <2>5, <3>1, <3>2, MedianMonotone
  <2>7. compute_median(prices) \in I64 /\ compute_median(prices') \in I64
    BY <2>3, MedianIsI64
  <2> QED  BY <2>6, <2>7, I64Assumption DEF I64
<1>2. Typed /\ Typed' => [Rises]_quotes
  BY <1>1
<1> QED  BY <1>2, QuotesConvert, PTL DEF RaiseNeverLowers

(* The rank definition chooses the least and the greatest price in the     *)
(* middle; those are the two that compute_median takes.                    *)
LEMMA MedianIsByRank ==
  ASSUME quotes \in Seq(Convertible), prices # <<>>
  PROVE  MedianByRank
<1> DEFINE n == Len(prices)
           Prices == {prices[i] : i \in DOMAIN prices}
           Middle(v) == /\ 2 * Cardinality(UpTo(prices, v)) >= n
                        /\ 2 * Cardinality({i \in DOMAIN prices : prices[i] >= v}) >= n
           lower == CHOOSE v \in Prices : Middle(v) /\ \A w \in Prices : Middle(w) => v <= w
           upper == CHOOSE v \in Prices : Middle(v) /\ \A w \in Prices : Middle(w) => v >= w
           twice == lower + upper
           result == compute_median(prices)
           Truncates(t) == /\ 2 * result - t \in {-1, 0, 1}
                           /\ (t >= 0 => 2 * result <= t)
                           /\ (t <= 0 => 2 * result >= t)
           wrapped == IF twice > I64Max THEN twice - 2 * (I64Max + 1)
                      ELSE IF twice < -(I64Max + 1) THEN twice + 2 * (I64Max + 1)
                      ELSE twice
           s == SortUnstable(prices)
           l == LowerMid(prices)
           m == Mid(prices)
<1>1. prices \in Seq(I64)
  BY PricesAreI64
<1>2. Prices \subseteq I64
  BY <1>1
<1>3. /\ l \in DOMAIN prices /\ m \in DOMAIN prices
      /\ s[l] \in Prices /\ s[m] \in Prices /\ s[l] \in I64 /\ s[m] \in I64
  BY <1>1, MiddlePlaces, SortedPlace
<1>4. /\ Middle(s[l]) /\ Middle(s[m])
      /\ \A v \in I64 : Middle(v) => s[l] <= v /\ v <= s[m]
  BY <1>1, MiddlesByRank DEF InMiddle
<1>5. \A v \in I64 : v \in Int
  BY I64Assumption DEF I64
<1>6. lower = s[l] /\ upper = s[m]
  <2> HIDE DEF Middle, Prices, s, l, m
  <2>1. lower \in Prices /\ Middle(lower) /\ \A w \in Prices : Middle(w) => lower <= w
    BY <1>2, <1>3, <1>4
  <2>2. upper \in Prices /\ Middle(upper) /\ \A w \in Prices : Middle(w) => upper >= w
    BY <1>2, <1>3, <1>4, <1>5
  <2> HIDE DEF lower, upper
  <2> QED  BY <1>2, <1>3, <1>4, <1>5, <2>1, <2>2
<1>7. n \in Nat
  BY <1>1
<1>8. CASE n % 2 = 1
  <2>1. m = l /\ result = s[m]
    BY <1>8 DEF compute_median, LowerMid
  <2>2. result = lower /\ lower = upper
    <3> HIDE DEF lower, upper, s, l, m, result
    <3> QED  BY <1>6, <2>1
  <2>3. IF n % 2 = 1 THEN result = lower /\ lower = upper ELSE Truncates(wrapped)
    BY <1>8, <2>2
  <2> QED  BY <2>3 DEF MedianByRank
<1>9. CASE n % 2 # 1
  <2>1. n % 2 = 0
    <3> HIDE DEF n
    <3> QED  BY <1>7, <1>9
  <2>2. result = Half(Wrap(s[l] + s[m]))
    BY <2>1 DEF compute_median, MiddleSum, LowerMid
  <2> HIDE DEF lower, upper, s, l, m, result, n
  <2>3. PICK t \in -(2 * I64Max + 2) .. 2 * I64Max : t = twice
    <3>1. s[l] + s[m] \in -(2 * I64Max + 2) .. 2 * I64Max
      BY <1>3, I64Assumption DEF I64
    <3> QED  BY <1>6, <3>1
  <2>4. result = Half(Wrap(t))
    BY <1>6, <2>2, <2>3
  <2>5. Wrap(t) = wrapped
    <3> HIDE DEF twice
    <3> QED  BY <2>3, WrapOfSum
  <2>6. Wrap(t) \in Int
    <3>1. t \in Int
      BY I64Assumption
    <3> QED  BY <3>1, <1>5, WrapIsI64
  <2>7. Truncates(wrapped)
    <3> HIDE DEF wrapped
    <3> QED  BY <2>4, <2>5, <2>6, HalfTruncates
  <2>8. IF n % 2 = 1 THEN result = lower /\ lower = upper ELSE Truncates(wrapped)
    BY <1>9, <2>7
  <2> QED  BY <2>8 DEF MedianByRank, lower, upper, result, n
<1> QED  BY <1>8, <1>9

(* compute_median is right by rank, whether or not the sum of the two      *)
(* middle prices wraps, for rounds of any size and integers of any width.  *)
THEOREM MedianAlwaysByRank == Spec => []MedianByRank
<1>1. quotes \in Seq(Convertible) => MedianByRank
  BY MedianIsByRank DEF MedianByRank
<1> QED  BY <1>1, QuotesConvert, PTL
=============================================================================
