----------------------- MODULE PricePublisher_proofs -----------------------
(***************************************************************************)
(* Type correctness, BacklogIsNewest and PricesAscend of the oracle node's *)
(* process, for any providers, bounds of the deque and numbers of prices   *)
(* and restarts.  The argument is by position: prices are numbered as they *)
(* are quoted, so the queue of the monitor is a run of numbers that ends   *)
(* with the newest, the deque is a run that ends where the queue begins,   *)
(* and what has been observed lies before both.                            *)
(***************************************************************************)
EXTENDS PricePublisher, SequenceTheorems, TLAPS

USE FetchAssumption, PublisherAssumption

(* The number of prices quoted that have left the queue. *)
Stored == quoted - Len(updates)

QueueIsRun ==
  /\ Len(updates) <= quoted
  /\ \A i \in DOMAIN updates : updates[i] = Stored + i
  /\ stored # 0 => stored = Stored

(* What has been observed was quoted before all that may yet be; within a  *)
(* life, under a round not after the current one.                          *)
LogIsPast ==
  \A k \in DOMAIN log :
    /\ log[k].price <= Stored - Len(prices)
    /\ log[k].life <= lives
    /\ phase # "down" /\ log[k].life = lives => log[k].round <= round

AliveIsBorn == phase # "down" => lives >= 1

Safe == QueueIsRun /\ LogIsPast /\ AliveIsBorn /\ BacklogIsNewest /\ PricesAscend

-----------------------------------------------------------------------------
(* What the variables start with is in their ranges. *)
LEMMA Starts ==
  /\ 1 \in 1 .. MaxDelay /\ FirstRound \in Nat
  /\ 0 \in 0 .. MaxQuotes /\ 0 \in 0 .. MaxLives /\ 0 \in 0 .. MaxBlocks
  /\ 0 \in -MaxOwed .. 1
<1>1. 1 \in 1 .. MaxDelay
  BY DEF FetchAssumption
<1>2. /\ FirstRound \in Nat
      /\ 0 \in 0 .. MaxQuotes /\ 0 \in 0 .. MaxLives /\ 0 \in 0 .. MaxBlocks
      /\ 0 \in -MaxOwed .. 1
  BY DEF PublisherAssumption
<1> QED  BY <1>1, <1>2

LEMMA FetchStep ==
  ASSUME FetchTypeOK, UNCHANGED provider,
         FetchStarts \/ SendsNothing \/ Sends \/ UNCHANGED fetch
  PROVE  FetchTypeOK'
<1>1. 1 \in 1 .. MaxDelay
  BY Starts
<1>2. CASE FetchStarts
  BY <1>1, <1>2 DEF FetchTypeOK, FetchStarts
<1>3. CASE StreamOpens \/ Fails \/ Stalls \/ Reply \/ EmptyReply \/ PollAgain
  BY <1>1, <1>3 DEF FetchTypeOK, StreamOpens, Fails, Stalls, Reply, EmptyReply, PollAgain
<1>4. CASE WakeUp
  <2>1. retry_delay' \in 1 .. MaxDelay
    <3>1. /\ MaxDelay \in Nat \ {0} /\ retry_delay \in 1 .. MaxDelay
          /\ retry_delay' = IF 2 * retry_delay > MaxDelay THEN MaxDelay ELSE 2 * retry_delay
      BY <1>4 DEF WakeUp, FetchTypeOK, FetchAssumption
    <3>2. CASE 2 * retry_delay > MaxDelay
      BY <3>1, <3>2
    <3>3. CASE ~(2 * retry_delay > MaxDelay)
      BY <3>1, <3>3
    <3> QED  BY <3>2, <3>3
  <2> QED  BY <1>4, <2>1 DEF FetchTypeOK, WakeUp
<1>5. CASE StreamYields \/ UNCHANGED fetch
  BY <1>5 DEF FetchTypeOK, StreamYields, fetch
<1> QED  BY <1>2, <1>3, <1>4, <1>5 DEF SendsNothing, Sends

LEMMA LogTyped ==
  ASSUME TypeOK
  PROVE  /\ Len(log) \in Nat /\ DOMAIN log = 1 .. Len(log)
         /\ \A k \in DOMAIN log : /\ log[k] \in Made
                                  /\ log[k].price \in 1 .. MaxQuotes
                                  /\ log[k].round \in Nat
                                  /\ log[k].life \in 1 .. MaxLives
<1>1. Len(log) \in Nat /\ DOMAIN log = 1 .. Len(log) /\ \A k \in DOMAIN log : log[k] \in Made
  BY DEF TypeOK
<1> QED  BY <1>1 DEF Made

LEMMA SafeInit == Init => TypeOK /\ Safe
<1> SUFFICES ASSUME Init PROVE TypeOK /\ Safe
  OBVIOUS
<1>1. FetchTypeOK
  BY Starts DEF Init, FetchInit, FetchTypeOK
<1>2. TypeOK
  <2>1. updates \in Seq(1 .. MaxQuotes) /\ prices \in Seq(1 .. MaxQuotes) /\ log \in Seq(Made)
    BY DEF Init
  <2> QED  BY <1>1, <2>1, Starts DEF Init, TypeOK, NoBlock
<1>3. Safe
  BY DEF Init, Safe, QueueIsRun, LogIsPast, AliveIsBorn, Stored, BacklogIsNewest, PricesAscend,
         PublisherAssumption
<1> QED  BY <1>2, <1>3

(* The monitor and the log are as they were. *)
LEMMA SafeFrame ==
  ASSUME TypeOK, Safe, UNCHANGED <<quoted, monitor, round, log>>,
         lives' = lives, phase' # "down" => phase # "down"
  PROVE  Safe'
BY DEF Safe, QueueIsRun, LogIsPast, AliveIsBorn, Stored, BacklogIsNewest, PricesAscend, monitor

(* A process begins or ends. *)
LEMMA SafeBoot == ASSUME TypeOK, Safe, Boot PROVE TypeOK' /\ Safe'
<1>1. TypeOK'
  <2>1. FetchTypeOK'
    BY FetchStep DEF TypeOK, Boot
  <2>2. lives' \in 0 .. MaxLives
    BY DEF TypeOK, Boot, PublisherAssumption
  <2>3. /\ phase' = "running"
        /\ UNCHANGED <<quoted, updates, feed_known, prices, stored, pc, round, due, log,
                       checkpoint, checkpoint_file>>
    BY DEF Boot, monitor, publisher, disk
  <2> QED  BY <2>1, <2>2, <2>3 DEF TypeOK
<1>2. \A k \in DOMAIN log : log[k].life < lives'
  BY LogTyped DEF Boot, Safe, LogIsPast, TypeOK
<1>3. LogIsPast'
  BY <1>2, LogTyped DEF Boot, Safe, LogIsPast, Stored, monitor, publisher, TypeOK
<1> QED
  BY <1>1, <1>3 DEF Boot, Safe, QueueIsRun, AliveIsBorn, Stored, BacklogIsNewest, PricesAscend,
                    monitor, publisher, TypeOK

LEMMA SafeEnds ==
  ASSUME TypeOK, Safe, phase' = "down", MemoryStarts,
         UNCHANGED <<lives, provider, quoted, log, checkpoint_file>>
  PROVE  TypeOK' /\ Safe'
<1>1. TypeOK'
  <2>1. FetchTypeOK'
    BY FetchStep DEF TypeOK, MemoryStarts
  <2>2. updates' \in Seq(1 .. MaxQuotes) /\ prices' \in Seq(1 .. MaxQuotes)
    BY DEF MemoryStarts
  <2> QED  BY <2>1, <2>2, Starts DEF TypeOK, MemoryStarts, NoBlock
<1>2. /\ updates' = <<>> /\ prices' = <<>> /\ stored' = 0
  BY DEF MemoryStarts
<1>3. LogIsPast'
  <2>1. Len(prices) \in Nat /\ Len(updates) \in Nat /\ quoted \in Nat
    BY DEF TypeOK
  <2>2. Stored' = quoted
    BY <1>2, <2>1 DEF Stored
  <2> QED  BY <1>2, <2>1, <2>2, LogTyped DEF Safe, LogIsPast, Stored
<1>4. QueueIsRun' /\ BacklogIsNewest'
  BY <1>2 DEF QueueIsRun, BacklogIsNewest, TypeOK
<1>5. PricesAscend' /\ AliveIsBorn'
  BY DEF Safe, PricesAscend, AliveIsBorn
<1> QED  BY <1>1, <1>3, <1>4, <1>5 DEF Safe

LEMMA SafeQuote == ASSUME TypeOK, Safe, Quote PROVE TypeOK' /\ Safe'
<1> DEFINE n == Len(updates)
<1>1. /\ quoted' = quoted + 1 /\ quoted < MaxQuotes /\ quoted \in Nat
      /\ updates' = Append(updates, quoted + 1)
      /\ UNCHANGED <<phase, lives, provider, feed_known, prices, stored, publisher, disk>>
  BY DEF Quote, TypeOK
<1>2. /\ n \in Nat /\ DOMAIN updates = 1 .. n /\ DOMAIN updates' = 1 .. n + 1
      /\ Len(updates') = n + 1
      /\ \A i \in 1 .. n : updates'[i] = updates[i]
      /\ updates'[n + 1] = quoted + 1
      /\ updates' \in Seq(1 .. MaxQuotes)
  <2>1. updates \in Seq(1 .. MaxQuotes) /\ quoted + 1 \in 1 .. MaxQuotes
    BY <1>1 DEF TypeOK
  <2> QED  BY <1>1, <2>1, AppendProperties, LenProperties
<1>3. TypeOK'
  <2>1. FetchTypeOK'
    BY FetchStep DEF TypeOK, Quote
  <2> QED  BY <1>1, <1>2, <2>1 DEF TypeOK, publisher, disk
<1>4. Stored' = Stored
  BY <1>1, <1>2 DEF Stored
<1>5. QueueIsRun'
  BY <1>1, <1>2, <1>4 DEF Safe, QueueIsRun, Stored
<1>6. LogIsPast' /\ AliveIsBorn' /\ BacklogIsNewest' /\ PricesAscend'
  BY <1>1, <1>4 DEF Safe, LogIsPast, AliveIsBorn, BacklogIsNewest, PricesAscend, publisher
<1> QED  BY <1>3, <1>5, <1>6 DEF Safe

(* The deque after a price is stored: a run that ends with it. *)
LEMMA StoreTyped ==
  ASSUME TypeOK, Safe, StorePrice
  PROVE  /\ prices' \in Seq(1 .. MaxQuotes)
         /\ Len(prices') <= Len(prices) + 1 /\ Len(prices') <= MaxVecSize + 1
         /\ \A i \in DOMAIN prices' : prices'[i] = stored' - (Len(prices') - i)
<1> DEFINE h == Head(updates)
<1>1. h \in 1 .. MaxQuotes /\ stored' = h
  BY HeadTailProperties DEF StorePrice, TypeOK
<1>2. prices \in Seq(1 .. MaxQuotes) /\ Len(prices) \in Nat /\ DOMAIN prices = 1 .. Len(prices)
  BY DEF TypeOK
<1>3. prices # <<>> => stored = h - 1
  <2> SUFFICES ASSUME prices # <<>> PROVE stored = h - 1
    OBVIOUS
  <2>1. Len(prices) \in DOMAIN prices
    BY <1>2, EmptySeq
  <2>2. prices[Len(prices)] \in 1 .. MaxQuotes
    BY <1>2, <2>1
  <2>3. prices[Len(prices)] = stored
    <3>1. prices[Len(prices)] = stored - (Len(prices) - Len(prices))
      BY <2>1 DEF Safe, BacklogIsNewest
    <3>2. stored \in Int
      BY DEF TypeOK
    <3> QED  BY <1>2, <3>1, <3>2
  <2>4. stored = Stored
    BY <2>2, <2>3 DEF Safe, QueueIsRun
  <2>5. 1 \in DOMAIN updates /\ h = updates[1]
    BY EmptySeq DEF StorePrice, TypeOK
  <2>6. h = Stored + 1
    BY <2>5 DEF Safe, QueueIsRun
  <2>7. Stored \in Int
    BY DEF Stored, TypeOK
  <2> HIDE DEF h
  <2> QED  BY <1>1, <2>4, <2>6, <2>7
<1>4. CASE ~feed_known
  <2>1. prices' = <<h>>
    BY <1>4 DEF StorePrice
  <2> HIDE DEF h
  <2>2. /\ prices' \in Seq(1 .. MaxQuotes) /\ Len(prices') = 1
        /\ \A i \in DOMAIN prices' : i = 1 /\ prices'[i] = h
    BY <1>1, <2>1
  <2>3. Len(prices') <= Len(prices) + 1 /\ Len(prices') <= MaxVecSize + 1
    BY <1>2, <2>2 DEF PublisherAssumption
  <2>4. h = stored' - (Len(prices') - 1)
    BY <1>1, <2>2
  <2> QED  BY <2>2, <2>3, <2>4
<1>5. CASE feed_known
  <2>1. prices' = Append(Kept, h)
    BY <1>5 DEF StorePrice
  <2> DEFINE m == Len(Kept)
             d == Len(prices) - Len(Kept)
  <2>2. /\ Kept \in Seq(1 .. MaxQuotes) /\ m \in Nat
        /\ m <= MaxVecSize /\ m <= Len(prices)
        /\ DOMAIN Kept = 1 .. m
        /\ \A i \in 1 .. m : i + d \in DOMAIN prices /\ Kept[i] = prices[i + d]
    <3>1. CASE Len(prices) > MaxVecSize
      <4>1. prices # <<>> /\ Kept = Tail(prices)
        BY <1>2, <3>1 DEF Kept
      <4>2. Len(prices) <= MaxVecSize + 1
        BY DEF Safe, BacklogIsNewest
      <4> QED  BY <1>2, <3>1, <4>1, <4>2, HeadTailProperties
    <3>2. CASE ~(Len(prices) > MaxVecSize)
      BY <1>2, <3>2 DEF Kept
    <3> QED  BY <3>1, <3>2
  <2>3. /\ prices' \in Seq(1 .. MaxQuotes) /\ Len(prices') = m + 1
        /\ DOMAIN prices' = 1 .. m + 1
        /\ \A i \in 1 .. m : prices'[i] = Kept[i]
        /\ prices'[m + 1] = h
    <3> HIDE DEF h
    <3> QED  BY <1>1, <2>1, <2>2, AppendProperties, LenProperties
  <2>4. \A i \in 1 .. m : prices'[i] = stored' - (m + 1 - i)
    <3> SUFFICES ASSUME NEW i \in 1 .. m PROVE prices'[i] = stored' - (m + 1 - i)
      OBVIOUS
    <3>1. prices'[i] = prices[i + d] /\ i + d \in DOMAIN prices
      BY <2>2, <2>3
    <3>2. prices[i + d] = stored - (Len(prices) - (i + d))
      BY <3>1 DEF Safe, BacklogIsNewest
    <3>3. prices # <<>>
      BY <3>1
    <3> HIDE DEF h
    <3> QED  BY <1>1, <1>2, <1>3, <2>2, <3>1, <3>2, <3>3
  <2>5. prices'[m + 1] = stored' - (m + 1 - (m + 1))
    <3> HIDE DEF h, m
    <3> QED  BY <1>1, <2>2, <2>3
  <2>6. /\ Len(prices') <= Len(prices) + 1 /\ Len(prices') <= MaxVecSize + 1
    <3> HIDE DEF m, d
    <3> QED  BY <1>2, <2>2, <2>3 DEF PublisherAssumption
  <2>7. \A i \in 1 .. m + 1 : prices'[i] = stored' - (m + 1 - i)
    <3> SUFFICES ASSUME NEW i \in 1 .. m + 1 PROVE prices'[i] = stored' - (m + 1 - i)
      OBVIOUS
    <3> HIDE DEF h, m, d
    <3>1. i \in 1 .. m \/ i = m + 1
      BY <2>2
    <3> QED  BY <2>4, <2>5, <3>1
  <2> QED  BY <2>3, <2>6, <2>7
<1> QED  BY <1>4, <1>5 DEF TypeOK

LEMMA SafeStore == ASSUME TypeOK, Safe, StorePrice PROVE TypeOK' /\ Safe'
<1> DEFINE n == Len(updates)
<1>1. /\ updates # <<>> /\ updates' = Tail(updates) /\ stored' = Head(updates)
      /\ feed_known' = TRUE
      /\ UNCHANGED <<phase, lives, provider, fetch, quoted, publisher, disk>>
  BY DEF StorePrice
<1>2. /\ n \in Nat \ {0} /\ DOMAIN updates = 1 .. n /\ quoted \in Nat
      /\ updates' \in Seq(1 .. MaxQuotes) /\ Len(updates') = n - 1
      /\ DOMAIN updates' = 1 .. n - 1
      /\ \A i \in 1 .. n - 1 : updates'[i] = updates[i + 1]
      /\ Head(updates) = updates[1] /\ Head(updates) \in 1 .. MaxQuotes
  <2>1. updates \in Seq(1 .. MaxQuotes)
    BY DEF TypeOK
  <2> QED  BY <1>1, <2>1, HeadTailProperties, EmptySeq, LenProperties DEF TypeOK
<1>3. Stored' = Stored + 1 /\ Stored \in Int
  BY <1>1, <1>2 DEF Stored
<1>4. TypeOK'
  <2>1. FetchTypeOK'
    BY <1>1, FetchStep DEF TypeOK
  <2> QED  BY <1>1, <1>2, <2>1, StoreTyped DEF TypeOK, publisher, disk
<1>5. QueueIsRun'
  <2>1. Len(updates') <= quoted'
    BY <1>1, <1>2 DEF Safe, QueueIsRun
  <2>2. stored' = Stored'
    BY <1>1, <1>2, <1>3 DEF Safe, QueueIsRun
  <2>3. \A i \in DOMAIN updates' : updates'[i] = Stored' + i
    <3>1. \A i \in 1 .. n - 1 : updates[i + 1] = Stored + (i + 1)
      BY <1>2 DEF Safe, QueueIsRun
    <3> HIDE DEF n
    <3> QED  BY <1>2, <1>3, <3>1
  <2> QED  BY <2>1, <2>2, <2>3 DEF QueueIsRun
<1>6. LogIsPast'
  <2>1. Len(prices') <= Len(prices) + 1 /\ Len(prices) \in Nat /\ Len(prices') \in Nat
    <3>1. Len(prices') <= Len(prices) + 1 /\ prices' \in Seq(1 .. MaxQuotes)
      BY StoreTyped
    <3>2. prices \in Seq(1 .. MaxQuotes)
      BY DEF TypeOK
    <3> QED  BY <3>1, <3>2, LenProperties
  <2>2. \A k \in DOMAIN log : log[k].price <= Stored' - Len(prices')
    BY <1>3, <2>1, LogTyped DEF Safe, LogIsPast
  <2> QED  BY <1>1, <2>2 DEF Safe, LogIsPast, publisher
<1>7. BacklogIsNewest'
  BY StoreTyped DEF BacklogIsNewest
<1>8. PricesAscend' /\ AliveIsBorn'
  BY <1>1 DEF Safe, PricesAscend, AliveIsBorn, publisher
<1> QED  BY <1>4, <1>5, <1>6, <1>7, <1>8 DEF Safe

LEMMA SafeTake == ASSUME TypeOK, Safe, TakePrices PROVE TypeOK' /\ Safe'
<1> DEFINE n == Len(log)
           m == Len(prices)
<1>1. PICK outcome \in {"unsigned", "pending"} :
        /\ phase # "down" /\ prices # <<>> /\ prices' = <<>>
        /\ round' = round + 1 /\ log' = Append(log, Observed(outcome))
        /\ pc' \in {"taking", "publishing"}
        /\ UNCHANGED <<phase, lives, provider, fetch, quoted, updates, feed_known, stored, due, disk>>
  BY DEF TakePrices, TypeOK
<1> DEFINE obs == Observed(outcome)
<1>2. m \in DOMAIN prices /\ prices[m] \in 1 .. MaxQuotes /\ m \in Nat \ {0}
  <2>1. prices \in Seq(1 .. MaxQuotes)
    BY DEF TypeOK
  <2> QED  BY <1>1, <2>1, EmptySeq, LenProperties
<1>3. prices[m] = Stored /\ Stored \in Int
  <2>1. prices[m] = stored
    BY <1>2 DEF Safe, BacklogIsNewest, TypeOK
  <2> QED  BY <1>2, <2>1 DEF Safe, QueueIsRun
<1>4. lives \in 1 .. MaxLives
  BY <1>1 DEF Safe, AliveIsBorn, TypeOK
<1>5. obs = [price |-> prices[m], round |-> round + 1, life |-> lives, outcome |-> outcome]
  BY <1>1 DEF Observed, Last
<1>6. /\ obs \in Made
      /\ obs.price = Stored /\ obs.round = round + 1 /\ obs.life = lives
  <2>1. round + 1 \in Nat /\ outcome \in Outcome
    BY DEF TypeOK, Outcome
  <2> HIDE DEF obs
  <2> QED  BY <1>2, <1>3, <1>4, <1>5, <2>1 DEF Made
<1> HIDE DEF obs
<1>7. /\ log' \in Seq(Made) /\ DOMAIN log' = 1 .. n + 1 /\ n \in Nat /\ DOMAIN log = 1 .. n
      /\ \A k \in 1 .. n : log'[k] = log[k]
      /\ log'[n + 1] = obs
  <2>1. log \in Seq(Made) /\ log' = Append(log, obs)
    BY <1>1 DEF TypeOK, obs
  <2> QED  BY <1>6, <2>1, AppendProperties, LenProperties
<1>8. TypeOK'
  <2>1. FetchTypeOK'
    BY <1>1, FetchStep DEF TypeOK
  <2> QED  BY <1>1, <1>7, <2>1 DEF TypeOK, disk
<1>9. QueueIsRun' /\ BacklogIsNewest' /\ AliveIsBorn'
  <2>1. Len(prices') = 0 /\ DOMAIN prices' = {}
    BY <1>1
  <2> QED  BY <1>1, <2>1 DEF Safe, QueueIsRun, BacklogIsNewest, AliveIsBorn, Stored
<1>10. \A k \in 1 .. n : /\ log[k].price < Stored
                         /\ log[k].life <= lives
                         /\ log[k].life = lives => log[k].round < round + 1
  <2> SUFFICES ASSUME NEW k \in 1 .. n
               PROVE  /\ log[k].price < Stored
                      /\ log[k].life <= lives
                      /\ log[k].life = lives => log[k].round < round + 1
    OBVIOUS
  <2>1. /\ log[k].price <= Stored - m
        /\ log[k].life <= lives
        /\ log[k].life = lives => log[k].round <= round
    BY <1>1, <1>7 DEF Safe, LogIsPast
  <2>2. log[k].price \in Int /\ log[k].round \in Int /\ round \in Int
    <3>1. k \in DOMAIN log
      BY <1>7
    <3>2. log[k].price \in 1 .. MaxQuotes /\ log[k].round \in Nat
      BY <3>1, LogTyped
    <3>3. round \in Nat
      BY DEF TypeOK
    <3> QED  BY <3>2, <3>3
  <2> HIDE DEF m, n
  <2>3. log[k].price < Stored
    BY <1>2, <1>3, <2>1, <2>2
  <2> QED  BY <2>1, <2>2, <2>3
<1>11. LogIsPast'
  <2>1. Stored' = Stored /\ Len(prices') = 0
    BY <1>1 DEF Stored
  <2>2. \A k \in 1 .. n : log[k].price \in Int /\ log[k].round \in Int
    BY <1>7, LogTyped
  <2>3. round \in Int /\ lives \in Int
    BY DEF TypeOK
  <2> HIDE DEF n
  <2>4. \A k \in 1 .. n + 1 :
          /\ log'[k].price <= Stored /\ log'[k].life <= lives
          /\ log'[k].life = lives => log'[k].round <= round + 1
    <3> SUFFICES ASSUME NEW k \in 1 .. n + 1
                 PROVE  /\ log'[k].price <= Stored /\ log'[k].life <= lives
                        /\ log'[k].life = lives => log'[k].round <= round + 1
      OBVIOUS
    <3>1. CASE k \in 1 .. n
      BY <1>3, <1>7, <1>10, <2>2, <2>3, <3>1
    <3>2. CASE k = n + 1
      BY <1>3, <1>6, <1>7, <2>3, <3>2
    <3> QED  BY <1>7, <3>1, <3>2
  <2> QED  BY <1>1, <1>3, <1>7, <2>1, <2>4 DEF LogIsPast
<1>12. PricesAscend'
  <2> SUFFICES ASSUME NEW i \in 1 .. n + 1, NEW j \in 1 .. n + 1, i < j
               PROVE  /\ log'[i].price < log'[j].price
                      /\ log'[i].life = log'[j].life => log'[i].round < log'[j].round
    BY <1>7 DEF PricesAscend
  <2>1. i \in 1 .. n
    BY <1>7
  <2>2. CASE j \in 1 .. n
    BY <1>7, <2>1, <2>2 DEF Safe, PricesAscend
  <2>3. CASE j = n + 1
    BY <1>6, <1>7, <1>10, <2>1, <2>3
  <2> QED  BY <1>7, <2>2, <2>3
<1> QED  BY <1>8, <1>9, <1>11, <1>12 DEF Safe

LEMMA SafeReturns == ASSUME TypeOK, Safe, PublishReturns PROVE TypeOK' /\ Safe'
<1> DEFINE n == Len(log)
<1>1. PICK outcome \in {"failed", "sent"} :
        /\ pc' = "waiting" /\ log' = [log EXCEPT ![n].outcome = outcome]
        /\ UNCHANGED <<phase, lives, provider, fetch, quoted, monitor, round, due, disk>>
  BY DEF PublishReturns
<1>2. /\ log' \in Seq(Made) /\ DOMAIN log' = DOMAIN log
      /\ \A k \in DOMAIN log : /\ log'[k].price = log[k].price
                               /\ log'[k].round = log[k].round
                               /\ log'[k].life = log[k].life
  <2>1. n \in Nat /\ DOMAIN log = 1 .. n /\ \A k \in 1 .. n : log[k] \in Made
    BY LogTyped
  <2>2. /\ DOMAIN log' = 1 .. n
        /\ \A k \in 1 .. n : k # n => log'[k] = log[k]
        /\ n \in 1 .. n => log'[n] = [log[n] EXCEPT !.outcome = outcome]
    BY <1>1, <2>1
  <2>3. n \in 1 .. n => /\ log'[n] \in Made
                        /\ log'[n].price = log[n].price /\ log'[n].round = log[n].round
                        /\ log'[n].life = log[n].life
    BY <2>1, <2>2 DEF Made, Outcome
  <2>4. \A k \in 1 .. n : log'[k] \in Made
    BY <2>1, <2>2, <2>3
  <2>5. log' = [k \in 1 .. n |-> log'[k]]
    BY <1>1, <2>1
  <2>6. log' \in Seq(Made)
    BY <2>1, <2>4, <2>5
  <2> QED  BY <2>1, <2>2, <2>3, <2>6
<1>3. TypeOK'
  <2>1. FetchTypeOK'
    BY <1>1, FetchStep DEF TypeOK
  <2> QED  BY <1>1, <1>2, <2>1 DEF TypeOK, monitor, disk
<1>4. Safe'
  BY <1>1, <1>2 DEF Safe, QueueIsRun, LogIsPast, AliveIsBorn, Stored, BacklogIsNewest,
     PricesAscend, monitor
<1> QED  BY <1>3, <1>4

LEMMA SafeStep == TypeOK /\ Safe /\ [Next]_vars => TypeOK' /\ Safe'
<1> SUFFICES ASSUME TypeOK, Safe, [Next]_vars PROVE TypeOK' /\ Safe'
  OBVIOUS
<1>1. CASE Boot
  BY <1>1, SafeBoot
<1>2. CASE Crash \/ RuntimeIsDown
  BY <1>2, SafeEnds DEF Crash, RuntimeIsDown
<1>3. CASE TaskEnds
  <2>1. FetchTypeOK'
    BY <1>3, FetchStep DEF TypeOK, TaskEnds
  <2>2. TypeOK'
    BY <1>3, <2>1 DEF TypeOK, TaskEnds, monitor, publisher, disk
  <2> QED  BY <1>3, <2>2, SafeFrame DEF TaskEnds, publisher
<1>4. CASE FetchNothing
  <2>1. FetchTypeOK'
    BY <1>4, FetchStep DEF TypeOK, FetchNothing
  <2>2. TypeOK'
    BY <1>4, <2>1 DEF TypeOK, FetchNothing, monitor, publisher, disk
  <2> QED  BY <1>4, <2>2, SafeFrame DEF FetchNothing, publisher
<1>5. CASE Quote
  BY <1>5, SafeQuote
<1>6. CASE StorePrice
  BY <1>6, SafeStore
<1>7. CASE TakePrices
  BY <1>7, SafeTake
<1>8. CASE PublishReturns
  BY <1>8, SafeReturns
<1>9. CASE IntervalTick \/ MinutePasses
  <2>1. FetchTypeOK'
    BY <1>9, FetchStep DEF TypeOK, IntervalTick, MinutePasses
  <2>2. TypeOK'
    <3>1. due' \in -MaxOwed .. 1
      BY <1>9 DEF TypeOK, IntervalTick, MinutePasses, PublisherAssumption
    <3>2. /\ pc' \in {"taking", "publishing", "waiting"}
          /\ UNCHANGED <<phase, lives, quoted, updates, feed_known, prices, stored, round, log,
                         checkpoint, checkpoint_file>>
      BY <1>9 DEF TypeOK, IntervalTick, MinutePasses, monitor, disk
    <3> QED  BY <2>1, <3>1, <3>2 DEF TypeOK
  <2> QED  BY <1>9, <2>2, SafeFrame DEF IntervalTick, MinutePasses
<1>10. CASE BlocksProcessed
  <2>1. FetchTypeOK'
    BY <1>10, FetchStep DEF TypeOK, BlocksProcessed
  <2>2. TypeOK'
    <3>1. /\ checkpoint' \in 0 .. MaxBlocks /\ checkpoint_file' \in 0 .. MaxBlocks
          /\ phase' \in {"down", "running", "leaving"}
      BY <1>10 DEF TypeOK, BlocksProcessed
    <3>2. UNCHANGED <<lives, quoted, updates, feed_known, prices, stored, pc, round, due, log>>
      BY <1>10 DEF BlocksProcessed, monitor, publisher
    <3> QED  BY <2>1, <3>1, <3>2 DEF TypeOK
  <2> QED  BY <1>10, <2>2, SafeFrame DEF BlocksProcessed, publisher
<1>11. CASE UNCHANGED vars
  <2>1. FetchTypeOK'
    BY <1>11, FetchStep DEF TypeOK, vars
  <2>2. TypeOK'
    BY <1>11, <2>1 DEF TypeOK, vars, monitor, publisher, disk
  <2> QED  BY <1>11, <2>2, SafeFrame DEF vars, publisher
<1> QED
  BY <1>1, <1>2, <1>3, <1>4, <1>5, <1>6, <1>7, <1>8, <1>9, <1>10, <1>11 DEF Next, Publisher

LEMMA SafeAlways == Spec => [](TypeOK /\ Safe)
BY SafeInit, SafeStep, PTL DEF Spec

(* The variables of the process stay in their ranges, among them the       *)
(* back-off of the fetch task below its cap.                               *)
THEOREM TypeCorrect == Spec => []TypeOK
BY SafeAlways, PTL

(* However the monitor and the publisher interleave, the deque is bounded  *)
(* and ends with the newest price stored.                                  *)
THEOREM BacklogAlwaysNewest == Spec => []BacklogIsNewest
<1>1. Safe => BacklogIsNewest
  BY DEF Safe
<1> QED  BY <1>1, SafeAlways, PTL

(* No price is observed twice or after a newer one, over any number of     *)
(* restarts; rounds ascend within a life.                                  *)
THEOREM PricesAlwaysAscend == Spec => []PricesAscend
<1>1. Safe => PricesAscend
  BY DEF Safe
<1> QED  BY <1>1, SafeAlways, PTL
=============================================================================
