--------------------------- MODULE Median_proofs ---------------------------
(***************************************************************************)
(* What compute_median guarantees for rounds of any size.  The sort is     *)
(* known only by the places its elements take (AtPlace); the argument is   *)
(* by counting.                                                            *)
(***************************************************************************)
EXTENDS Median, FiniteSetTheorems, SequenceTheorems, TLAPS

LEMMA SmallestNat ==
  ASSUME NEW S \in SUBSET Nat, S # {}
  PROVE  \E m \in S : \A n \in S : m <= n
<1>1. PICK m \in S : \A n \in S : <<n, m>> \notin OpToRel(<, Nat)
  BY NatLessThanWellFounded, WFMin
<1>2. ASSUME NEW n \in S PROVE m <= n
  <2>1. ~(n < m)
    BY <1>1 DEF OpToRel
  <2> QED  BY <2>1
<1> QED  BY <1>2

LEMMA CountsAreFinite ==
  ASSUME NEW prices \in Seq(I64), NEW T \in SUBSET DOMAIN prices
  PROVE  /\ IsFiniteSet(T)
         /\ Cardinality(T) \in 0 .. Len(prices)
<1>1. /\ DOMAIN prices = 1 .. Len(prices)
      /\ Len(prices) \in Nat
  OBVIOUS
<1>2. /\ IsFiniteSet(DOMAIN prices)
      /\ Cardinality(DOMAIN prices) = Len(prices)
  <2>1. /\ IsFiniteSet(1 .. Len(prices))
        /\ Cardinality(1 .. Len(prices)) = IF 1 > Len(prices) THEN 0 ELSE Len(prices) - 1 + 1
    BY <1>1, FS_Interval
  <2> QED  BY <1>1, <2>1
<1> QED  BY <1>1, <1>2, FS_Subset, FS_CardinalityType

(* Some price stands at every place: CHOOSE in SortUnstable has a choice.  *)
LEMMA PlaceIsTaken ==
  ASSUME NEW prices \in Seq(I64), NEW k \in DOMAIN prices
  PROVE  \E v \in {prices[i] : i \in DOMAIN prices} : AtPlace(prices, k, v)
<1> DEFINE N    == I64Max + 1
           Q    == {prices[i] : i \in DOMAIN prices}
           Cand == {n \in 0 .. 2 * I64Max + 1 :
                      k <= Cardinality(UpTo(prices, n - N))}
<1> USE I64Assumption
<1>1. /\ DOMAIN prices = 1 .. Len(prices)
      /\ Len(prices) \in Nat
      /\ k \in 1 .. Len(prices)
      /\ \A i \in DOMAIN prices : prices[i] \in I64
  OBVIOUS
<1>2. 2 * I64Max + 1 \in Cand
  <2>1. UpTo(prices, I64Max) = DOMAIN prices
    BY <1>1 DEF UpTo, I64
  <2>2. Cardinality(DOMAIN prices) = Len(prices)
    <3>1. Cardinality(1 .. Len(prices)) = IF 1 > Len(prices) THEN 0 ELSE Len(prices) - 1 + 1
      BY <1>1, FS_Interval
    <3> QED  BY <1>1, <3>1
  <2>3. 2 * I64Max + 1 - N = I64Max
    OBVIOUS
  <2> QED  BY <1>1, <2>1, <2>2, <2>3
<1>3. PICK m \in Cand : \A n \in Cand : m <= n
  <2>1. Cand \in SUBSET Nat
    OBVIOUS
  <2> HIDE DEF Cand
  <2> QED  BY <1>2, <2>1, SmallestNat
<1> DEFINE v == m - N
<1>4. /\ v \in I64
      /\ k <= Cardinality(UpTo(prices, v))
  BY <1>3 DEF I64
<1>5. Cardinality(Below(prices, v)) < k
  <2>1. CASE m = 0
    <3>1. Below(prices, v) = {}
      BY <2>1, <1>1 DEF Below, I64
    <3>2. Cardinality({}) = 0
      BY FS_EmptySet
    <3>3. 0 < k
      BY <1>1
    <3> QED  BY <3>1, <3>2, <3>3
  <2>2. CASE m > 0
    <3>1. Below(prices, v) = UpTo(prices, v - 1)
      BY <1>1, <1>4 DEF Below, UpTo, I64
    <3>2. m - 1 \notin Cand
      <4>1. m \in Nat
        OBVIOUS
      <4> HIDE DEF Cand
      <4> QED  BY <1>3, <2>2, <4>1
    <3>3. ~(k <= Cardinality(UpTo(prices, v - 1)))
      <4>1. m - 1 \in 0 .. 2 * I64Max + 1 /\ (m - 1) - N = v - 1
        BY <1>3, <2>2
      <4> QED  BY <4>1, <3>2
    <3>4. Cardinality(UpTo(prices, v - 1)) \in 0 .. Len(prices)
      BY CountsAreFinite DEF UpTo
    <3> QED  BY <3>1, <3>3, <3>4, <1>1
  <2> QED  BY <2>1, <2>2, <1>3
<1>6. v \in Q
  <2>1. SUFFICES ASSUME v \notin Q PROVE FALSE
    OBVIOUS
  <2>2. UpTo(prices, v) = Below(prices, v)
    BY <2>1, <1>1, <1>4 DEF UpTo, Below, I64
  <2>3. Cardinality(Below(prices, v)) \in 0 .. Len(prices)
    BY CountsAreFinite DEF Below
  <2> QED  BY <2>2, <2>3, <1>1, <1>4, <1>5
<1> QED  BY <1>4, <1>5, <1>6 DEF AtPlace

LEMMA SortedPlace ==
  ASSUME NEW prices \in Seq(I64), NEW k \in DOMAIN prices
  PROVE  /\ SortUnstable(prices)[k] \in {prices[i] : i \in DOMAIN prices}
         /\ SortUnstable(prices)[k] \in I64
         /\ AtPlace(prices, k, SortUnstable(prices)[k])
<1>1. PICK v \in {prices[i] : i \in DOMAIN prices} : AtPlace(prices, k, v)
  BY PlaceIsTaken
<1>2. SortUnstable(prices)[k] =
        CHOOSE w \in {prices[i] : i \in DOMAIN prices} : AtPlace(prices, k, w)
  BY DEF SortUnstable
<1>3. {prices[i] : i \in DOMAIN prices} \subseteq I64
  OBVIOUS
<1> QED  BY <1>1, <1>2, <1>3

LEMMA SortedAscends ==
  ASSUME NEW prices \in Seq(I64),
         NEW j \in DOMAIN prices, NEW k \in DOMAIN prices, j <= k
  PROVE  SortUnstable(prices)[j] <= SortUnstable(prices)[k]
<1> DEFINE a == SortUnstable(prices)[j]
           b == SortUnstable(prices)[k]
<1>1. /\ a \in I64 /\ AtPlace(prices, j, a)
      /\ b \in I64 /\ AtPlace(prices, k, b)
  BY SortedPlace
<1>2. SUFFICES ASSUME b < a PROVE FALSE
  BY <1>1, I64Assumption DEF I64
<1> HIDE DEF a, b
<1>3. UpTo(prices, b) \subseteq Below(prices, a)
  BY <1>1, <1>2, I64Assumption DEF UpTo, Below, I64
<1>4. /\ IsFiniteSet(Below(prices, a))
      /\ Cardinality(Below(prices, a)) \in 0 .. Len(prices)
      /\ Cardinality(UpTo(prices, b)) \in 0 .. Len(prices)
  BY CountsAreFinite DEF Below, UpTo
<1>5. Cardinality(UpTo(prices, b)) <= Cardinality(Below(prices, a))
  BY <1>3, <1>4, FS_Subset
<1> QED  BY <1>1, <1>4, <1>5 DEF AtPlace

(* Mid is a place, and so is the one before it when the count is even. *)
LEMMA MidIsPlace ==
  ASSUME NEW prices \in Seq(I64), prices # <<>>
  PROVE  /\ Mid(prices) \in DOMAIN prices
         /\ Len(prices) % 2 = 0 => /\ Mid(prices) - 1 \in DOMAIN prices
                                   /\ Len(prices) = 2 * (Mid(prices) - 1)
         /\ Len(prices) % 2 # 0 => Len(prices) = 2 * Mid(prices) - 1
<1>1. Len(prices) \in Nat \ {0} /\ DOMAIN prices = 1 .. Len(prices)
  BY EmptySeq
<1>2. \A n \in Nat \ {0} :
        /\ n \div 2 + 1 \in 1 .. n
        /\ n % 2 = 0 => n \div 2 \in 1 .. n /\ n = 2 * (n \div 2)
        /\ n % 2 # 0 => n = 2 * (n \div 2) + 1
  OBVIOUS
<1>3. Len(prices) \div 2 \in Int
  BY <1>1
<1> DEFINE h == Len(prices) \div 2
<1>4. Mid(prices) = h + 1 /\ h \in Int
  BY <1>3 DEF Mid
<1> HIDE DEF h
<1>5. /\ h + 1 \in 1 .. Len(prices)
      /\ Len(prices) % 2 = 0 => h \in 1 .. Len(prices) /\ Len(prices) = 2 * h
      /\ Len(prices) % 2 # 0 => Len(prices) = 2 * h + 1
  BY <1>1, <1>2 DEF h
<1>6. Mid(prices) - 1 = h /\ Mid(prices) \in Int
  BY <1>4
<1>7. Mid(prices) \in DOMAIN prices
  BY <1>1, <1>4, <1>5
<1>8. ASSUME Len(prices) % 2 = 0
      PROVE  Mid(prices) - 1 \in DOMAIN prices /\ Len(prices) = 2 * (Mid(prices) - 1)
  BY <1>1, <1>5, <1>6, <1>8
<1>9. ASSUME Len(prices) % 2 # 0
      PROVE  Len(prices) = 2 * Mid(prices) - 1
  <2>1. Len(prices) = 2 * h + 1
    BY <1>5, <1>9
  <2> QED  BY <1>4, <2>1
<1> QED  BY <1>7, <1>8, <1>9

LEMMA WrapIsI64 == ASSUME NEW n \in Int PROVE Wrap(n) \in I64
<1> DEFINE w == 2 * (I64Max + 1)
<1>1. w \in Nat \ {0}
  BY I64Assumption
<1>2. (n + I64Max + 1) % w \in 0 .. w - 1
  <2> HIDE DEF w
  <2> QED  BY <1>1, I64Assumption
<1> QED  BY <1>2, I64Assumption DEF Wrap, I64

LEMMA WrapKeepsI64 == ASSUME NEW n \in I64 PROVE Wrap(n) = n
<1> DEFINE w == 2 * (I64Max + 1)
           a == n + I64Max + 1
<1>1. w \in Nat \ {0} /\ a \in 0 .. w - 1
  BY I64Assumption DEF I64
<1>2. a % w = a
  <2> HIDE DEF w, a
  <2> QED  BY <1>1
<1> QED  BY <1>2, I64Assumption DEF Wrap, I64

LEMMA HalfIsI64 == ASSUME NEW n \in I64 PROVE Half(n) \in I64
BY I64Assumption DEF Half, I64

LEMMA HalfOfSumBetween ==
  ASSUME NEW a \in Int, NEW b \in Int, a <= b
  PROVE  Half(a + b) \in a .. b
BY DEF Half

(* The median is an i64, whatever the build makes of an overflow. *)
LEMMA MedianIsI64 ==
  ASSUME NEW prices \in Seq(I64)
  PROVE  compute_median(prices) \in I64
<1>1. CASE prices = <<>>
  BY <1>1, I64Assumption DEF compute_median, I64
<1>2. CASE prices # <<>> /\ Len(prices) % 2 = 0
  <2>1. MiddleSum(prices) \in Int
    <3>1. /\ SortUnstable(prices)[Mid(prices) - 1] \in I64
          /\ SortUnstable(prices)[Mid(prices)] \in I64
      BY <1>2, MidIsPlace, SortedPlace
    <3> QED  BY <3>1, I64Assumption DEF MiddleSum, I64
  <2> QED  BY <1>2, <2>1, WrapIsI64, HalfIsI64 DEF compute_median
<1>3. CASE prices # <<>> /\ Len(prices) % 2 # 0
  BY <1>3, MidIsPlace, SortedPlace DEF compute_median
<1> QED  BY <1>1, <1>2, <1>3

(* Without an overflow the median lies between the two middle prices. *)
LowerMid(prices) == IF Len(prices) % 2 = 0 THEN Mid(prices) - 1 ELSE Mid(prices)

LEMMA MedianBetweenMiddles ==
  ASSUME NEW prices \in Seq(I64), prices # <<>>, ~Overflows(prices)
  PROVE  compute_median(prices) \in
           SortUnstable(prices)[LowerMid(prices)] .. SortUnstable(prices)[Mid(prices)]
<1> DEFINE s == SortUnstable(prices)
           m == Mid(prices)
<1>1. m \in DOMAIN prices /\ s[m] \in I64
  BY MidIsPlace, SortedPlace
<1>2. CASE Len(prices) % 2 = 0
  <2>1. m - 1 \in DOMAIN prices /\ s[m - 1] \in I64
    BY <1>2, MidIsPlace, SortedPlace
  <2>2. s[m - 1] <= s[m]
    <3>1. m - 1 <= m
      BY <1>1
    <3> QED  BY <1>1, <2>1, <3>1, SortedAscends
  <2>3. MiddleSum(prices) = s[m - 1] + s[m] /\ MiddleSum(prices) \in I64
    BY <1>2 DEF MiddleSum, Overflows
  <2>4. compute_median(prices) = Half(s[m - 1] + s[m])
    BY <1>2, <2>3, WrapKeepsI64 DEF compute_median
  <2>5. Half(s[m - 1] + s[m]) \in s[m - 1] .. s[m]
    <3>1. s[m - 1] \in Int /\ s[m] \in Int
      BY <1>1, <2>1, I64Assumption DEF I64
    <3> HIDE DEF s, m
    <3> QED  BY <3>1, <2>2, HalfOfSumBetween
  <2> QED  BY <1>2, <2>4, <2>5 DEF LowerMid
<1>3. CASE Len(prices) % 2 # 0
  <2>1. compute_median(prices) = s[m] /\ LowerMid(prices) = m
    BY <1>3 DEF compute_median, LowerMid
  <2> QED  BY <1>1, <2>1, I64Assumption DEF I64
<1> QED  BY <1>2, <1>3

(* The attested price is enclosed by two of the observed prices: the feed  *)
(* never publishes a price beyond what was quoted.                         *)
THEOREM MedianEnclosed ==
  ASSUME NEW prices \in Seq(I64), prices # <<>>, ~Overflows(prices)
  PROVE  \E i, j \in DOMAIN prices : compute_median(prices) \in prices[i] .. prices[j]
<1> DEFINE s == SortUnstable(prices)
           m == Mid(prices)
           l == LowerMid(prices)
<1>1. l \in DOMAIN prices /\ m \in DOMAIN prices
  BY MidIsPlace DEF LowerMid
<1>2. compute_median(prices) \in s[l] .. s[m]
  BY MedianBetweenMiddles
<1>3. /\ \E i \in DOMAIN prices : s[l] = prices[i]
      /\ \E j \in DOMAIN prices : s[m] = prices[j]
  BY <1>1, SortedPlace
<1> HIDE DEF s, l, m
<1> QED  BY <1>2, <1>3

(* A majority that quotes within lo .. hi keeps the median there, for a    *)
(* round of any size and any prices.                                       *)
THEOREM MedianOfMajority ==
  ASSUME NEW observed \in Seq(I64), ~Overflows(observed),
         NEW lo \in I64, NEW hi \in I64,
         2 * Cardinality({i \in DOMAIN observed : observed[i] \in lo .. hi}) > Len(observed)
  PROVE  compute_median(observed) \in lo .. hi
<1> DEFINE Band == {i \in DOMAIN observed : observed[i] \in lo .. hi}
           s == SortUnstable(observed)
           m == Mid(observed)
           l == LowerMid(observed)
           n == Len(observed)
<1>1. /\ IsFiniteSet(Band)
      /\ Cardinality(Band) \in 0 .. n
  BY CountsAreFinite
<1>2. n \in Nat \ {0} /\ observed # <<>>
  BY <1>1, EmptySeq
<1>3. /\ l \in DOMAIN observed /\ m \in DOMAIN observed
      /\ l + m = n + 1
      /\ l <= m /\ m <= l + 1
  <2>1. m \in 1 .. n /\ DOMAIN observed = 1 .. n
    BY <1>2, MidIsPlace
  <2>2. CASE n % 2 = 0
    <3>1. l = m - 1 /\ l \in DOMAIN observed /\ n = 2 * (m - 1)
      BY <1>2, <2>2, MidIsPlace DEF LowerMid
    <3> HIDE DEF l, m
    <3> QED  BY <1>2, <2>1, <3>1
  <2>3. CASE n % 2 # 0
    <3>1. l = m /\ n = 2 * m - 1
      BY <1>2, <2>3, MidIsPlace DEF LowerMid
    <3> HIDE DEF l, m
    <3> QED  BY <1>2, <2>1, <3>1
  <2> QED  BY <2>2, <2>3
<1>4. /\ s[l] \in I64 /\ AtPlace(observed, l, s[l])
      /\ s[m] \in I64 /\ AtPlace(observed, m, s[m])
  BY <1>3, SortedPlace
<1>5. compute_median(observed) \in s[l] .. s[m]
  BY <1>2, MedianBetweenMiddles
<1> HIDE DEF s, m, l
(* A lower middle price below the band would leave too few places above it. *)
<1>6. s[l] >= lo
  <2>1. SUFFICES ASSUME s[l] < lo PROVE FALSE
    BY <1>4, I64Assumption DEF I64
  <2>2. UpTo(observed, s[l]) \cap Band = {}
    BY <2>1, <1>4, I64Assumption DEF UpTo, I64
  <2>3. /\ IsFiniteSet(UpTo(observed, s[l]))
        /\ Cardinality(UpTo(observed, s[l])) \in 0 .. n
    BY CountsAreFinite DEF UpTo
  <2>4. Cardinality(UpTo(observed, s[l]) \cup Band)
          = Cardinality(UpTo(observed, s[l])) + Cardinality(Band)
    <3>1. Cardinality({}) = 0
      BY FS_EmptySet
    <3>2. Cardinality(UpTo(observed, s[l]) \cup Band)
            = Cardinality(UpTo(observed, s[l])) + Cardinality(Band)
                - Cardinality(UpTo(observed, s[l]) \cap Band)
      BY <1>1, <2>3, FS_Union
    <3>3. Cardinality(UpTo(observed, s[l]) \cap Band) = 0
      BY <2>2, <3>1
    <3>4. Cardinality(Band) \in Int /\ Cardinality(UpTo(observed, s[l])) \in Int
      BY <1>1, <2>3
    <3> HIDE DEF Band
    <3> QED  BY <3>2, <3>3, <3>4
  <2>5. Cardinality(UpTo(observed, s[l]) \cup Band) \in 0 .. n
    <3>1. UpTo(observed, s[l]) \cup Band \in SUBSET DOMAIN observed
      BY DEF UpTo
    <3> HIDE DEF Band
    <3> QED  BY <3>1, CountsAreFinite
  <2>6. l <= Cardinality(UpTo(observed, s[l]))
    BY <1>4 DEF AtPlace
  <2>7. 2 * l >= n
    BY <1>2, <1>3
  <2> HIDE DEF Band
  <2> QED  BY <1>1, <1>2, <1>3, <2>3, <2>4, <2>5, <2>6, <2>7 DEF Band
<1>7. s[m] <= hi
  <2>1. SUFFICES ASSUME s[m] > hi PROVE FALSE
    BY <1>4, I64Assumption DEF I64
  <2>2. Band \subseteq Below(observed, s[m])
    BY <2>1, <1>4, I64Assumption DEF Below, I64
  <2>3. /\ IsFiniteSet(Below(observed, s[m]))
        /\ Cardinality(Below(observed, s[m])) \in 0 .. n
    BY CountsAreFinite DEF Below
  <2>4. Cardinality(Band) <= Cardinality(Below(observed, s[m]))
    BY <2>2, <2>3, FS_Subset
  <2>5. Cardinality(Below(observed, s[m])) < m
    BY <1>4 DEF AtPlace
  <2>6. 2 * (m - 1) <= n
    BY <1>2, <1>3
  <2> QED  BY <1>1, <1>2, <1>3, <2>3, <2>4, <2>5, <2>6
<1>8. lo \in Int /\ hi \in Int /\ s[l] \in Int /\ s[m] \in Int
  BY <1>4, I64Assumption DEF I64
<1> HIDE DEF Band, n
<1> QED  BY <1>5, <1>6, <1>7, <1>8

-----------------------------------------------------------------------------
(* The middle prices by rank.                                              *)

LEMMA CountsOf ==
  ASSUME NEW prices \in Seq(I64), NEW v \in I64
  PROVE  /\ Len(prices) \in Nat
         /\ Cardinality(UpTo(prices, v)) \in 0 .. Len(prices)
         /\ Cardinality(Below(prices, v)) \in 0 .. Len(prices)
         /\ Cardinality({i \in DOMAIN prices : prices[i] >= v})
              = Len(prices) - Cardinality(Below(prices, v))
<1> DEFINE AtLeast == {i \in DOMAIN prices : prices[i] >= v}
<1>1. /\ DOMAIN prices = 1 .. Len(prices) /\ Len(prices) \in Nat
      /\ \A i \in DOMAIN prices : prices[i] \in Int
  BY I64Assumption DEF I64
<1>2. IsFiniteSet(DOMAIN prices) /\ Cardinality(DOMAIN prices) = Len(prices)
  BY <1>1, FS_Interval
<1>3. AtLeast = DOMAIN prices \ Below(prices, v)
  BY <1>1, I64Assumption DEF Below, I64
<1>4. DOMAIN prices \cap Below(prices, v) = Below(prices, v)
  BY DEF Below
<1>5. Cardinality(AtLeast) = Len(prices) - Cardinality(Below(prices, v))
  <2>1. Cardinality(DOMAIN prices \ Below(prices, v))
          = Cardinality(DOMAIN prices) - Cardinality(DOMAIN prices \cap Below(prices, v))
    BY <1>2, FS_Difference
  <2> QED  BY <1>2, <1>3, <1>4, <2>1
<1>6. /\ Cardinality(UpTo(prices, v)) \in 0 .. Len(prices)
      /\ Cardinality(Below(prices, v)) \in 0 .. Len(prices)
  BY CountsAreFinite DEF UpTo, Below
<1> QED  BY <1>1, <1>5, <1>6

(* What is at or below a price is below every greater one. *)
LEMMA UpToBelow ==
  ASSUME NEW prices \in Seq(I64), NEW v \in I64, NEW w \in I64, w < v
  PROVE  Cardinality(UpTo(prices, w)) <= Cardinality(Below(prices, v))
<1>1. \A i \in DOMAIN prices : prices[i] \in Int
  BY I64Assumption DEF I64
<1>2. UpTo(prices, w) \subseteq Below(prices, v)
  BY <1>1, I64Assumption DEF UpTo, Below, I64
<1>3. IsFiniteSet(Below(prices, v))
  BY CountsAreFinite DEF Below
<1> QED  BY <1>2, <1>3, FS_Subset

(* At least half of the prices are at or below v, and at least half at or  *)
(* above it.                                                               *)
InMiddle(prices, v) ==
  /\ 2 * Cardinality(UpTo(prices, v)) >= Len(prices)
  /\ 2 * Cardinality({i \in DOMAIN prices : prices[i] >= v}) >= Len(prices)

LEMMA MiddlePlaces ==
  ASSUME NEW prices \in Seq(I64), prices # <<>>
  PROVE  /\ LowerMid(prices) \in DOMAIN prices /\ Mid(prices) \in DOMAIN prices
         /\ 2 * LowerMid(prices) \in Len(prices) .. Len(prices) + 1
         /\ 2 * Mid(prices) \in Len(prices) + 1 .. Len(prices) + 2
         /\ LowerMid(prices) <= Mid(prices)
<1>1. PICK n \in Nat \ {0} : n = Len(prices)
  BY EmptySeq
<1>2. PICK m \in 1 .. n : m = Mid(prices)
  BY <1>1, MidIsPlace
<1>3. DOMAIN prices = 1 .. n
  BY <1>1
<1>4. CASE n % 2 = 0
  <2>1. LowerMid(prices) = m - 1 /\ m - 1 \in DOMAIN prices /\ n = 2 * (m - 1)
    BY <1>1, <1>2, <1>4, MidIsPlace DEF LowerMid
  <2> QED  BY <1>1, <1>2, <1>3, <2>1
<1>5. CASE n % 2 # 0
  <2>1. LowerMid(prices) = m /\ n = 2 * m - 1
    BY <1>1, <1>2, <1>5, MidIsPlace DEF LowerMid
  <2> QED  BY <1>1, <1>2, <1>3, <2>1
<1> QED  BY <1>4, <1>5

(* The prices the median is made of are the least and the greatest in the  *)
(* middle.                                                                 *)
LEMMA MiddlesByRank ==
  ASSUME NEW prices \in Seq(I64), prices # <<>>
  PROVE  /\ InMiddle(prices, SortUnstable(prices)[LowerMid(prices)])
         /\ InMiddle(prices, SortUnstable(prices)[Mid(prices)])
         /\ \A v \in I64 : InMiddle(prices, v) =>
              /\ SortUnstable(prices)[LowerMid(prices)] <= v
              /\ v <= SortUnstable(prices)[Mid(prices)]
<1>1. PICK n \in Nat : n = Len(prices)
  OBVIOUS
<1>2. PICK l \in DOMAIN prices, m \in DOMAIN prices :
        l = LowerMid(prices) /\ m = Mid(prices)
  BY MiddlePlaces
<1>3. /\ l \in Int /\ m \in Int /\ 2 * l \in n .. n + 1 /\ 2 * m \in n + 1 .. n + 2
  BY <1>1, <1>2, MiddlePlaces
<1>4. PICK a \in I64, b \in I64 : a = SortUnstable(prices)[l] /\ b = SortUnstable(prices)[m]
  BY SortedPlace
<1>5. AtPlace(prices, l, a) /\ AtPlace(prices, m, b)
  BY <1>4, SortedPlace
<1>6. ASSUME NEW v \in I64
      PROVE  /\ Cardinality(UpTo(prices, v)) \in 0 .. n
             /\ Cardinality(Below(prices, v)) \in 0 .. n
             /\ InMiddle(prices, v) <=> /\ 2 * Cardinality(UpTo(prices, v)) >= n
                                        /\ 2 * Cardinality(Below(prices, v)) <= n
  <2>1. PICK below \in 0 .. n : below = Cardinality(Below(prices, v))
    BY <1>1, CountsOf
  <2>2. Cardinality({i \in DOMAIN prices : prices[i] >= v}) = n - below
    BY <1>1, <2>1, CountsOf
  <2>3. Cardinality(UpTo(prices, v)) \in 0 .. n
    BY <1>1, CountsOf
  <2>4. 2 * (n - below) >= n <=> 2 * below <= n
    BY <2>1
  <2> QED  BY <1>1, <2>1, <2>2, <2>3, <2>4 DEF InMiddle
<1>7. InMiddle(prices, a)
  <2>1. PICK upto \in 0 .. n, below \in 0 .. n :
          upto = Cardinality(UpTo(prices, a)) /\ below = Cardinality(Below(prices, a))
    BY <1>6
  <2>2. below < l /\ l <= upto
    BY <1>5, <2>1 DEF AtPlace
  <2>3. 2 * upto >= n /\ 2 * below <= n
    BY <1>3, <2>2
  <2> QED  BY <1>6, <2>1, <2>3
<1>8. InMiddle(prices, b)
  <2>1. PICK upto \in 0 .. n, below \in 0 .. n :
          upto = Cardinality(UpTo(prices, b)) /\ below = Cardinality(Below(prices, b))
    BY <1>6
  <2>2. below < m /\ m <= upto
    BY <1>5, <2>1 DEF AtPlace
  <2>3. 2 * upto >= n /\ 2 * below <= n
    BY <1>3, <2>2
  <2> QED  BY <1>6, <2>1, <2>3
<1>9. ASSUME NEW v \in I64, InMiddle(prices, v) PROVE a <= v /\ v <= b
  <2>1. /\ Cardinality(UpTo(prices, v)) \in 0 .. n /\ Cardinality(Below(prices, v)) \in 0 .. n
        /\ 2 * Cardinality(UpTo(prices, v)) >= n /\ 2 * Cardinality(Below(prices, v)) <= n
    BY <1>6, <1>9
  <2>2. a \in Int /\ b \in Int /\ v \in Int
    BY I64Assumption DEF I64
  <2>3. ~(v < a)
    <3> SUFFICES ASSUME v < a PROVE FALSE
      OBVIOUS
    <3>1. Cardinality(UpTo(prices, v)) <= Cardinality(Below(prices, a))
      BY UpToBelow
    <3>2. Cardinality(Below(prices, a)) \in 0 .. n /\ Cardinality(Below(prices, a)) < l
      BY <1>5, <1>6 DEF AtPlace
    <3> QED  BY <1>3, <2>1, <3>1, <3>2
  <2>4. ~(b < v)
    <3> SUFFICES ASSUME b < v PROVE FALSE
      OBVIOUS
    <3>1. Cardinality(UpTo(prices, b)) <= Cardinality(Below(prices, v))
      BY UpToBelow
    <3>2. Cardinality(UpTo(prices, b)) \in 0 .. n /\ m <= Cardinality(UpTo(prices, b))
      BY <1>5, <1>6 DEF AtPlace
    <3> QED  BY <1>3, <2>1, <3>1, <3>2
  <2> QED  BY <2>2, <2>3, <2>4
<1> QED  BY <1>2, <1>4, <1>7, <1>8, <1>9

(* The sum of two i64 wraps by 2^64 at most once. *)
LEMMA WrapOfSum ==
  ASSUME NEW n \in -(2 * I64Max + 2) .. 2 * I64Max
  PROVE  Wrap(n) = IF n > I64Max THEN n - 2 * (I64Max + 1)
                   ELSE IF n < -(I64Max + 1) THEN n + 2 * (I64Max + 1) ELSE n
<1> DEFINE w == 2 * (I64Max + 1)
           a == n + I64Max + 1
<1>1. w \in Nat \ {0} /\ a \in Int /\ -w <= a /\ a < 2 * w
  BY I64Assumption
<1>2. ASSUME NEW c \in Int, NEW d \in Nat \ {0}, -d <= c, c < 2 * d
      PROVE  c % d = IF c >= d THEN c - d ELSE IF c < 0 THEN c + d ELSE c
  <2>1. PICK q \in Int : q = c \div d
    OBVIOUS
  <2>2. /\ c = d * q + (c % d) /\ c % d \in 0 .. d - 1
    BY <2>1
  <2>3. ~(q >= 2) /\ ~(q <= -2)
    <3>1. ASSUME q >= 2 PROVE FALSE
      <4>1. d * q >= d * 2
        BY <3>1
      <4> QED  BY <1>2, <2>2, <4>1
    <3>2. ASSUME q <= -2 PROVE FALSE
      <4>1. d * q <= d * (-2)
        BY <3>2
      <4> QED  BY <1>2, <2>2, <4>1
    <3> QED  BY <3>1, <3>2
  <2>4. q = 0 \/ q = 1 \/ q = -1
    BY <2>3
  <2> QED  BY <1>2, <2>2, <2>4
<1>3. a % w = IF a >= w THEN a - w ELSE IF a < 0 THEN a + w ELSE a
  <2> HIDE DEF a, w
  <2> QED  BY <1>1, <1>2
<1> QED  BY <1>3, I64Assumption DEF Wrap

LEMMA HalfTruncates ==
  ASSUME NEW t \in Int
  PROVE  /\ Half(t) \in Int
         /\ 2 * Half(t) - t \in {-1, 0, 1}
         /\ t >= 0 => 2 * Half(t) <= t
         /\ t <= 0 => 2 * Half(t) >= t
<1>1. \A n \in Nat : n \div 2 \in Int /\ (n = 2 * (n \div 2) \/ n = 2 * (n \div 2) + 1)
  OBVIOUS
<1>2. CASE t >= 0
  <2>1. PICK h \in Int : h = t \div 2 /\ (t = 2 * h \/ t = 2 * h + 1)
    BY <1>1, <1>2
  <2>2. Half(t) = h
    BY <1>2, <2>1 DEF Half
  <2> QED  BY <1>2, <2>1, <2>2
<1>3. CASE ~(t >= 0)
  <2>1. -t \in Nat
    BY <1>3
  <2>2. PICK h \in Int : h = (-t) \div 2 /\ (-t = 2 * h \/ -t = 2 * h + 1)
    BY <1>1, <2>1
  <2>3. Half(t) = -h
    BY <1>3, <2>2 DEF Half
  <2> QED  BY <1>3, <2>2, <2>3
<1> QED  BY <1>2, <1>3

-----------------------------------------------------------------------------
(* Prices that rise lift the median.                                       *)

LEMMA HalfMonotone ==
  ASSUME NEW a \in Int, NEW b \in Int, a <= b
  PROVE  Half(a) <= Half(b)
<1>1. PICK x \in Int, y \in Int : x = Half(a) /\ y = Half(b)
  BY HalfTruncates
<1>2. /\ 2 * x - a \in {-1, 0, 1} /\ (a >= 0 => 2 * x <= a) /\ (a <= 0 => 2 * x >= a)
      /\ 2 * y - b \in {-1, 0, 1} /\ (b >= 0 => 2 * y <= b) /\ (b <= 0 => 2 * y >= b)
  BY <1>1, HalfTruncates
<1>3. x <= y
  BY <1>2
<1> QED  BY <1>1, <1>3

LEMMA SortedRises ==
  ASSUME NEW before \in Seq(I64), NEW after \in Seq(I64), DOMAIN after = DOMAIN before,
         \A i \in DOMAIN before : before[i] <= after[i],
         NEW k \in DOMAIN before
  PROVE  SortUnstable(before)[k] <= SortUnstable(after)[k]
<1>1. PICK a \in I64, b \in I64 : a = SortUnstable(before)[k] /\ b = SortUnstable(after)[k]
  BY SortedPlace
<1>2. AtPlace(before, k, a) /\ AtPlace(after, k, b)
  BY <1>1, SortedPlace
<1>3. ASSUME b < a PROVE FALSE
  <2>1. \A i \in DOMAIN before : before[i] \in Int /\ after[i] \in Int
    <3>1. \A i \in DOMAIN before : before[i] \in I64 /\ after[i] \in I64
      OBVIOUS
    <3> QED  BY <3>1, I64Assumption DEF I64
  <2>2. UpTo(after, b) \subseteq UpTo(before, b)
    BY <2>1, I64Assumption DEF UpTo, I64
  <2>3. Cardinality(UpTo(after, b)) <= Cardinality(UpTo(before, b))
    <3>1. IsFiniteSet(UpTo(before, b))
      BY CountsAreFinite DEF UpTo
    <3> QED  BY <2>2, <3>1, FS_Subset
  <2>4. Cardinality(UpTo(before, b)) <= Cardinality(Below(before, a))
    BY <1>3, UpToBelow
  <2>5. Cardinality(Below(before, a)) < k /\ k <= Cardinality(UpTo(after, b))
    BY <1>2 DEF AtPlace
  <2>6. /\ Cardinality(UpTo(after, b)) \in Int /\ Cardinality(UpTo(before, b)) \in Int
        /\ Cardinality(Below(before, a)) \in Int /\ k \in Int
    <3>1. /\ Cardinality(UpTo(after, b)) \in 0 .. Len(after) /\ Len(after) \in Nat
          /\ Cardinality(UpTo(before, b)) \in 0 .. Len(before) /\ Len(before) \in Nat
          /\ Cardinality(Below(before, a)) \in 0 .. Len(before)
      BY CountsOf
    <3>2. k \in 1 .. Len(before)
      OBVIOUS
    <3> QED  BY <3>1, <3>2
  <2> QED  BY <2>3, <2>4, <2>5, <2>6
<1>4. a \in Int /\ b \in Int
  BY I64Assumption DEF I64
<1> QED  BY <1>1, <1>3, <1>4

(* No price that rises lowers the median: for rounds of any size.          *)
THEOREM MedianMonotone ==
  ASSUME NEW before \in Seq(I64), NEW after \in Seq(I64), DOMAIN after = DOMAIN before,
         \A i \in DOMAIN before : before[i] <= after[i],
         ~Overflows(before), ~Overflows(after)
  PROVE  compute_median(before) <= compute_median(after)
<1>1. Len(after) = Len(before)
  OBVIOUS
<1>2. CASE before = <<>>
  <2>1. after = <<>>
    BY <1>2
  <2> QED  BY <1>2, <2>1 DEF compute_median
<1>3. CASE before # <<>>
  <2>1. after # <<>>
    BY <1>1, <1>3, EmptySeq
  <2>2. Mid(after) = Mid(before)
    BY <1>1 DEF Mid
  <2>3. PICK m \in DOMAIN before : m = Mid(before) /\ m = Mid(after)
    BY <1>3, <2>2, MidIsPlace
  <2>4. PICK b \in I64, d \in I64 : b = SortUnstable(before)[m] /\ d = SortUnstable(after)[m]
    BY SortedPlace
  <2>5. b <= d
    BY <2>4, SortedRises
  <2>6. CASE Len(before) % 2 = 0
    <3>1. m - 1 \in DOMAIN before
      BY <1>3, <2>3, <2>6, MidIsPlace
    <3>2. PICK a \in I64, c \in I64 :
            a = SortUnstable(before)[m - 1] /\ c = SortUnstable(after)[m - 1]
      BY <3>1, SortedPlace
    <3>3. a <= c
      BY <3>1, <3>2, SortedRises
    <3>4. MiddleSum(before) = a + b /\ MiddleSum(after) = c + d
      BY <2>3, <2>4, <3>2 DEF MiddleSum
    <3>5. a + b \in I64 /\ c + d \in I64
      BY <1>1, <1>3, <2>1, <2>6, <3>4 DEF Overflows
    <3>6. compute_median(before) = Half(a + b) /\ compute_median(after) = Half(c + d)
      BY <1>1, <1>3, <2>1, <2>6, <3>4, <3>5, WrapKeepsI64 DEF compute_median
    <3>7. a + b \in Int /\ c + d \in Int /\ a + b <= c + d
      BY <2>5, <3>3, I64Assumption DEF I64
    <3> QED  BY <3>6, <3>7, HalfMonotone
  <2>7. CASE Len(before) % 2 # 0
    BY <1>1, <1>3, <2>1, <2>3, <2>4, <2>5, <2>7 DEF compute_median
  <2> QED  BY <2>6, <2>7
<1> QED  BY <1>2, <1>3
=============================================================================
