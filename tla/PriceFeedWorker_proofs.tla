----------------------- MODULE PriceFeedWorker_proofs -----------------------
(***************************************************************************)
(* The price feed worker, for all values of its constants: its types and   *)
(* the order and unicity of what it attests, its implementation of         *)
(* AttestedFeed and of FeedWorkerTask, and what its steps keep.            *)
(***************************************************************************)
EXTENDS PriceFeedWorker, Median_proofs

(* The messages of the queue are numbered in the order they were sent, and *)
(* the worker has counted only earlier ones.                               *)
IdsInOrder ==
  /\ \A i \in DOMAIN queue : queue[i].id <= sent
  /\ \A i, j \in DOMAIN queue : i < j => queue[i].id < queue[j].id
  /\ \A i, j \in DOMAIN current_round_observations :
       i < j => current_round_observations[i].id < current_round_observations[j].id
  /\ \A i \in DOMAIN current_round_observations :
       /\ current_round_observations[i].id <= sent
       /\ \A j \in DOMAIN queue : current_round_observations[i].id < queue[j].id

(* The attestation being published, if there is one, is of the round and   *)
(* the vector that PublishReturns will clear.                              *)
InPublication(k) == phase = "publishing" /\ k = Len(attested)

PublicationInv ==
  phase = "publishing" =>
    /\ attested # <<>>
    /\ attested[Len(attested)].observations = SetOf(current_round_observations)
    /\ attested[Len(attested)].round = current_round
    /\ active_round > current_round
    /\ active_round * RoundLength <= current_slot

(* Every other attestation is of an earlier round, and is spent: what it   *)
(* counted was sent before all the worker holds or will receive.           *)
SpentInv ==
  \A k \in DOMAIN attested :
    /\ \A o \in attested[k].observations :
         /\ o.id <= sent
         /\ \A j \in DOMAIN queue : o.id < queue[j].id
         /\ ~InPublication(k) =>
              \A i \in DOMAIN current_round_observations :
                o.id < current_round_observations[i].id
    /\ ~InPublication(k) => attested[k].round < current_round

-----------------------------------------------------------------------------
LEMMA ElementsTyped ==
  ASSUME TypeOK
  PROVE  /\ \A o \in Observation : o.id \in Nat
         /\ \A i \in DOMAIN queue : queue[i] \in Observation
         /\ \A i \in DOMAIN current_round_observations :
              current_round_observations[i] \in Observation
         /\ \A k \in DOMAIN attested :
              attested[k].round \in Nat /\ attested[k].observations \subseteq Observation
<1>1. /\ \A i \in DOMAIN queue : queue[i] \in Observation
      /\ \A i \in DOMAIN current_round_observations :
           current_round_observations[i] \in Observation
  BY DEF TypeOK
<1>2. \A k \in DOMAIN attested : attested[k] \in AttestedPrice
  BY DEF TypeOK
<1>3. \A a \in AttestedPrice : a.round \in Nat /\ a.observations \subseteq Observation
  BY DEF AttestedPrice
<1>4. \A o \in Observation : o.id \in Nat
  BY DEF Observation
<1> QED  BY <1>1, <1>2, <1>3, <1>4

LEMMA RoundIsNat == ASSUME NEW slot \in Nat PROVE Round(slot) \in Nat
BY ConstAssumption DEF Round

LEMMA PricesTyped ==
  ASSUME TypeOK
  PROVE  /\ Prices \in Seq(I64)
         /\ DOMAIN Prices = DOMAIN current_round_observations
         /\ \A i \in DOMAIN Prices : Prices[i] = current_round_observations[i].price
<1> DEFINE n == Len(current_round_observations)
<1>1. n \in Nat /\ DOMAIN current_round_observations = 1 .. n
  BY DEF TypeOK
<1>2. \A i \in 1 .. n : current_round_observations[i].price \in I64
  <2>1. \A i \in 1 .. n : current_round_observations[i] \in Observation
    BY DEF TypeOK
  <2> QED  BY <2>1, ConstAssumption DEF Observation
<1>3. Prices = [i \in 1 .. n |-> current_round_observations[i].price]
  BY <1>1 DEF Prices
<1> HIDE DEF n
<1>4. Prices \in Seq(I64)
  BY <1>1, <1>2, <1>3
<1> QED  BY <1>1, <1>3, <1>4

LEMMA AttestationTyped ==
  ASSUME TypeOK PROVE Attestation \in AttestedPrice
<1>1. compute_median(Prices) \in I64
  BY PricesTyped, MedianIsI64
<1>2. SetOf(current_round_observations) \subseteq Observation
  BY DEF TypeOK, SetOf
<1>3. Len(current_round_observations) \in Nat /\ current_round \in Nat
  BY DEF TypeOK
<1> QED  BY <1>1, <1>2, <1>3 DEF Attestation, AttestedPrice

(* PublishReturns reads the last attestation: there is one. *)
TypeInv == TypeOK /\ (phase = "publishing" => attested # <<>>)

LEMMA TypeInit == Init => TypeInv
<1> SUFFICES ASSUME Init PROVE TypeInv
  OBVIOUS
<1>1. Round(current_slot) \in Nat
  BY RoundIsNat, ConstAssumption DEF Init
<1> QED  BY <1>1, ConstAssumption DEF Init, TypeOK, TypeInv

LEMMA TypeStep == TypeInv /\ [Next]_vars => TypeInv'
<1> SUFFICES ASSUME TypeOK, phase = "publishing" => attested # <<>>, [Next]_vars
             PROVE  TypeOK' /\ (phase = "publishing" => attested # <<>>)'
  BY DEF TypeInv
<1> USE ConstAssumption
<1>0. current_slot \in Nat /\ Round(current_slot) \in Nat
  BY RoundIsNat DEF TypeOK
<1>1. CASE TickSameRound
  BY <1>1 DEF TickSameRound, TakeTick, TypeOK, inputs, round, history
<1>2. CASE TickMissedQuorum
  <2>1. /\ current_round' \in Nat /\ active_round' \in Nat
        /\ current_round_observations' \in Seq(Observation)
        /\ time_changed' \in BOOLEAN
    BY <1>0, <1>2, EmptySeq DEF TickMissedQuorum, TakeTick, ResetTo
  <2>2. UNCHANGED <<inputs, queue, phase, sent, history>>
    BY <1>2 DEF TickMissedQuorum
  <2> QED  BY <2>1, <2>2 DEF TypeOK, inputs, history
<1>3. CASE TickInvalidDecimals
  BY <1>3 DEF TickInvalidDecimals, TakeTick, TypeOK, inputs, round, history
<1>4. CASE TickMedianPanics
  <2>1. queue' \in Seq(Observation) /\ phase' = "exited" /\ time_changed' \in BOOLEAN
    BY <1>4, EmptySeq DEF TickMedianPanics, TakeTick
  <2> QED  BY <1>4, <2>1 DEF TickMedianPanics, TypeOK, inputs, round, history
<1>5. CASE TickPublish
  <2>1. attested' \in Seq(AttestedPrice)
    BY <1>5, AttestationTyped DEF TickPublish, TypeOK
  <2>2. attested' # <<>>
    <3>1. attested' = Append(attested, Attestation) /\ attested \in Seq(AttestedPrice)
      BY <1>5 DEF TickPublish, TypeOK
    <3> QED  BY <3>1, AttestationTyped, AppendProperties, EmptySeq
  <2> QED  BY <1>0, <1>5, <2>1, <2>2 DEF TickPublish, TakeTick, TypeOK, inputs
<1>6. CASE PublishReturns
  <2>1. attested # <<>> => attested[Len(attested)] \in AttestedPrice
    BY DEF TypeOK
  <2>2. published' \subseteq AttestedPrice
    BY <1>6, <2>1 DEF PublishReturns, TypeOK
  <2>3. /\ current_round' \in Nat /\ current_round_observations' \in Seq(Observation)
        /\ phase' = "select"
    BY <1>6 DEF PublishReturns, ResetTo, TypeOK
  <2>4. UNCHANGED <<inputs, time_changed, queue, active_round, sent, accepted, attested>>
    BY <1>6 DEF PublishReturns
  <2> QED  BY <2>2, <2>3, <2>4 DEF TypeOK, inputs
<1>7. CASE OnReceive
  <2>1. Head(queue) \in Observation /\ Tail(queue) \in Seq(Observation)
    BY <1>7, HeadTailProperties DEF OnReceive, TypeOK
  <2>2. /\ current_round_observations' \in Seq(Observation)
        /\ accepted' \subseteq [obs : Observation, round : Nat]
    <3>1. CASE Head(queue).channel \in channels
      <4>1. /\ current_round_observations' = Append(current_round_observations, Head(queue))
            /\ accepted' = accepted \cup {[obs |-> Head(queue), round |-> current_round]}
        BY <1>7, <3>1 DEF OnReceive, Receive
      <4>2. [obs |-> Head(queue), round |-> current_round] \in [obs : Observation, round : Nat]
        BY <2>1 DEF TypeOK
      <4> QED  BY <2>1, <4>1, <4>2 DEF TypeOK
    <3>2. CASE Head(queue).channel \notin channels
      BY <1>7, <3>2 DEF OnReceive, Receive, TypeOK
    <3> QED  BY <3>1, <3>2
  <2> QED  BY <1>7, <2>1, <2>2 DEF OnReceive, TypeOK, inputs
<1>8. CASE OnClosed
  BY <1>8 DEF OnClosed, TypeOK, inputs, round, history
<1>9. CASE OnIdle
  BY <1>9 DEF OnIdle, TypeOK, inputs, round, history
<1>10. CASE TimePoll
  BY <1>10 DEF TimePoll, TypeOK, round, history
<1>11. CASE DiscoverChannels
  BY <1>11 DEF DiscoverChannels, TypeOK, round, history
<1>12. CASE Send
  <2>1. PICK c \in Channel, p \in Price, d \in Decimal :
          queue' = Append(queue, [id |-> sent', channel |-> c, price |-> p, decimals |-> d])
    BY <1>12 DEF Send
  <2>2. sent' \in 1 .. MaxSends
    BY <1>12 DEF Send, TypeOK
  <2>3. [id |-> sent', channel |-> c, price |-> p, decimals |-> d] \in Observation
    BY <2>2 DEF Observation
  <2>4. queue' \in Seq(Observation)
    BY <2>1, <2>3 DEF TypeOK
  <2> QED  BY <1>12, <2>2, <2>4 DEF Send, TypeOK, inputs, round, history
<1>13. CASE DropSender
  BY <1>13 DEF DropSender, TypeOK, round, history
<1>14. CASE UNCHANGED vars
  BY <1>14 DEF TypeOK, vars, inputs, round, history
<1> QED
  BY <1>1, <1>2, <1>3, <1>4, <1>5, <1>6, <1>7, <1>8, <1>9, <1>10, <1>11, <1>12,
     <1>13, <1>14 DEF Next, Worker, OnTick, Environment

(* Every variable of the worker keeps its type: in particular the attested *)
(* price is an i64 even when the median's sum wraps.                       *)
THEOREM TypeCorrect == Spec => []TypeOK
<1>1. TypeInv => TypeOK
  BY DEF TypeInv
<1> QED  BY <1>1, TypeInit, TypeStep, PTL DEF Spec
-----------------------------------------------------------------------------
LEMMA RoundBegun ==
  ASSUME NEW slot \in Nat
  PROVE  Round(slot) * RoundLength <= slot
BY ConstAssumption DEF Round

(* A worker that sees a later round knows its own round to be over. *)
LEMMA RoundOver ==
  ASSUME NEW slot \in Nat, NEW r \in Nat, Round(slot) > r
  PROVE  (r + 1) * RoundLength <= slot
<1> DEFINE q == Round(slot)
<1>1. q \in Nat /\ r + 1 <= q
  BY RoundIsNat
<1>2. q * RoundLength <= slot
  BY RoundBegun
<1> HIDE DEF q
<1>3. (r + 1) * RoundLength <= q * RoundLength
  BY <1>1, ConstAssumption
<1>4. /\ (r + 1) * RoundLength \in Int
      /\ q * RoundLength \in Int
  BY <1>1, ConstAssumption
<1> QED  BY <1>2, <1>3, <1>4

Safe == /\ current_round * RoundLength <= current_slot
        /\ IdsInOrder
        /\ PublicationInv
        /\ SpentInv
        /\ CountedOnce
        /\ AttestedInOrder

LEMMA SafeInit == Init => Safe
<1> SUFFICES ASSUME Init PROVE Safe
  OBVIOUS
<1>1. current_round * RoundLength <= current_slot
  BY RoundBegun, ConstAssumption DEF Init
<1>2. queue = <<>> /\ current_round_observations = <<>> /\ attested = <<>> /\ phase = "select"
  BY DEF Init
<1> QED
  BY <1>1, <1>2 DEF Safe, IdsInOrder, PublicationInv, SpentInv, CountedOnce, AttestedInOrder

(* A step that counts and attests nothing: the clock may move on, the task *)
(* may end, and its queue may go with it.                                  *)
LEMMA SafeFrame ==
  ASSUME TypeOK, TypeOK', Safe,
         UNCHANGED <<round, sent, attested>>,
         queue' = queue \/ queue' = <<>>,
         current_slot' >= current_slot,
         phase' = phase \/ (phase = "select" /\ phase' = "exited")
  PROVE  Safe'
<1>1. UNCHANGED <<current_round, current_round_observations, active_round, sent, attested>>
  BY DEF round
<1>2. \A k : InPublication(k)' => InPublication(k)
  BY <1>1 DEF InPublication
<1>3. ASSUME NEW x \in Int, x <= current_slot PROVE x <= current_slot'
  BY <1>3 DEF TypeOK
<1>4. (current_round * RoundLength <= current_slot)'
  <2>1. current_round * RoundLength \in Int
    BY ConstAssumption DEF TypeOK
  <2> QED  BY <1>1, <1>3, <2>1 DEF Safe
<1>5. IdsInOrder'
  BY <1>1 DEF Safe, IdsInOrder
<1>6. PublicationInv'
  <2>1. active_round * RoundLength \in Int
    BY ConstAssumption DEF TypeOK
  <2> QED  BY <1>1, <1>3, <2>1 DEF Safe, PublicationInv
<1>7. SpentInv'
  <2>1. CASE phase' = phase
    BY <1>1, <2>1 DEF Safe, SpentInv, InPublication
  <2>2. CASE phase = "select" /\ phase' = "exited"
    BY <1>1, <2>2 DEF Safe, SpentInv, InPublication
  <2> QED  BY <2>1, <2>2
<1>8. CountedOnce'
  BY <1>1 DEF Safe, CountedOnce
<1>9. AttestedInOrder'
  <2>1. \A i \in DOMAIN attested : (attested[i].round + 1) * RoundLength \in Int
    <3>1. \A i \in DOMAIN attested : attested[i].round \in Nat
      BY ElementsTyped
    <3> QED  BY <3>1, ConstAssumption
  <2> QED  BY <1>1, <1>3, <2>1 DEF Safe, AttestedInOrder
<1> QED  BY <1>4, <1>5, <1>6, <1>7, <1>8, <1>9 DEF Safe

LEMMA SafeMissedQuorum ==
  ASSUME TypeOK, TypeOK', Safe, TickMissedQuorum
  PROVE  Safe'
<1>1. /\ phase = "select" /\ phase' = "select"
      /\ UNCHANGED <<current_slot, queue, sent, attested>>
      /\ current_round_observations' = <<>>
      /\ current_round' = Round(current_slot)
      /\ current_round' > current_round
  BY DEF TickMissedQuorum, TakeTick, ResetTo, NewRound, inputs, history
<1>2. (current_round * RoundLength <= current_slot)'
  BY <1>1, RoundBegun DEF TypeOK
<1>3. IdsInOrder'
  BY <1>1 DEF Safe, IdsInOrder
<1>4. PublicationInv'
  BY <1>1 DEF PublicationInv
<1>5. SpentInv'
  <2>1. \A k \in DOMAIN attested : attested[k].round \in Nat /\ attested[k].round < current_round
    BY <1>1, ElementsTyped DEF Safe, SpentInv, InPublication
  <2>2. \A k \in DOMAIN attested : attested[k].round < current_round'
    BY <1>1, <2>1 DEF TypeOK
  <2> QED  BY <1>1, <2>2 DEF Safe, SpentInv, InPublication
<1>6. CountedOnce' /\ AttestedInOrder'
  BY <1>1 DEF Safe, CountedOnce, AttestedInOrder
<1> QED  BY <1>2, <1>3, <1>4, <1>5, <1>6 DEF Safe

LEMMA SafePublish ==
  ASSUME TypeOK, TypeOK', Safe, TickPublish
  PROVE  Safe'
<1> DEFINE n == Len(attested)
           A == Attestation
<1>1. /\ phase = "select" /\ phase' = "publishing"
      /\ UNCHANGED <<current_slot, queue, sent, current_round, current_round_observations>>
      /\ active_round' = Round(current_slot)
      /\ Round(current_slot) > current_round
      /\ attested' = Append(attested, A)
  BY DEF TickPublish, TakeTick, NewRound, inputs
<1>2. /\ A \in AttestedPrice
      /\ A.round = current_round
      /\ A.observations = SetOf(current_round_observations)
  BY AttestationTyped DEF Attestation
<1> HIDE DEF A
<1>3. /\ n \in Nat
      /\ DOMAIN attested = 1 .. n
      /\ DOMAIN attested' = 1 .. n + 1
      /\ Len(attested') = n + 1
      /\ attested'[n + 1] = A
      /\ \A k \in 1 .. n : attested'[k] = attested[k]
  BY <1>1, <1>2, AppendProperties, LenProperties DEF TypeOK
<1>4. /\ \A i \in DOMAIN attested : ~InPublication(i)
      /\ \A i \in DOMAIN attested' : InPublication(i)' <=> i = n + 1
  BY <1>1, <1>3 DEF InPublication
<1>5. (current_round * RoundLength <= current_slot)' /\ IdsInOrder'
  BY <1>1 DEF Safe, IdsInOrder
<1>6. PublicationInv'
  <2>1. active_round' * RoundLength <= current_slot
    BY <1>1, RoundBegun DEF TypeOK
  <2>2. attested' # <<>>
    BY <1>3
  <2> QED  BY <1>1, <1>2, <1>3, <2>1, <2>2 DEF PublicationInv, SetOf
<1>7. \A o \in A.observations :
        \E i \in DOMAIN current_round_observations : o = current_round_observations[i]
  BY <1>2 DEF SetOf
<1>8. SpentInv'
  <2> SUFFICES ASSUME NEW k \in DOMAIN attested'
               PROVE  /\ \A o \in attested'[k].observations :
                           /\ o.id <= sent'
                           /\ \A j \in DOMAIN queue' : o.id < queue'[j].id
                           /\ ~InPublication(k)' =>
                                \A i \in DOMAIN current_round_observations' :
                                  o.id < current_round_observations'[i].id
                      /\ ~InPublication(k)' => attested'[k].round < current_round'
    BY DEF SpentInv, InPublication
  <2>1. CASE k = n + 1
    BY <1>1, <1>3, <1>4, <1>7, <2>1 DEF Safe, IdsInOrder
  <2>2. CASE k \in 1 .. n
    BY <1>1, <1>3, <1>4, <2>2 DEF Safe, SpentInv
  <2> QED  BY <1>3, <2>1, <2>2
<1>9. \A k \in 1 .. n : /\ attested[k].observations \cap A.observations = {}
                         /\ attested[k].round < A.round
  <2> SUFFICES ASSUME NEW k \in 1 .. n
               PROVE  /\ attested[k].observations \cap A.observations = {}
                      /\ attested[k].round < A.round
    OBVIOUS
  <2>1. /\ \A o \in attested[k].observations :
             \A i \in DOMAIN current_round_observations : o.id < current_round_observations[i].id
        /\ attested[k].round < current_round
    BY <1>3, <1>4 DEF Safe, SpentInv
  <2>2. \A i \in DOMAIN current_round_observations : current_round_observations[i].id \in Int
    <3>1. \A i \in DOMAIN current_round_observations : current_round_observations[i] \in Observation
      BY DEF TypeOK
    <3> QED  BY <3>1 DEF Observation
  <2> QED  BY <1>2, <1>7, <2>1, <2>2
<1>10. CountedOnce'
  BY <1>3, <1>9 DEF Safe, CountedOnce
<1>11. AttestedInOrder'
  <2>1. (A.round + 1) * RoundLength <= current_slot
    BY <1>1, <1>2, RoundOver DEF TypeOK
  <2> QED  BY <1>1, <1>3, <1>9, <2>1 DEF Safe, AttestedInOrder
<1> QED  BY <1>5, <1>6, <1>8, <1>10, <1>11 DEF Safe

LEMMA SafeReturns ==
  ASSUME TypeOK, TypeOK', Safe, PublishReturns
  PROVE  Safe'
<1>1. /\ phase = "publishing" /\ phase' = "select"
      /\ UNCHANGED <<current_slot, queue, sent, attested>>
      /\ current_round_observations' = <<>>
      /\ current_round' = active_round
  BY DEF PublishReturns, ResetTo, inputs
<1>2. /\ attested[Len(attested)].round = current_round
      /\ active_round > current_round
      /\ active_round * RoundLength <= current_slot
  BY <1>1 DEF Safe, PublicationInv
<1>3. IdsInOrder' /\ PublicationInv'
  BY <1>1 DEF Safe, IdsInOrder, PublicationInv
<1>4. SpentInv'
  <2>1. \A k \in DOMAIN attested : attested[k].round < active_round
    <3>1. \A k \in DOMAIN attested : attested[k].round \in Int
      BY ElementsTyped
    <3>2. \A k \in DOMAIN attested : k = Len(attested) \/ attested[k].round < current_round
      BY DEF Safe, SpentInv, InPublication
    <3> QED  BY <1>2, <3>1, <3>2 DEF TypeOK
  <2> QED  BY <1>1, <2>1 DEF Safe, SpentInv, InPublication
<1>5. CountedOnce' /\ AttestedInOrder'
  BY <1>1 DEF Safe, CountedOnce, AttestedInOrder
<1> QED  BY <1>1, <1>2, <1>3, <1>4, <1>5 DEF Safe

LEMMA SafeReceive ==
  ASSUME TypeOK, TypeOK', Safe, OnReceive
  PROVE  Safe'
<1> DEFINE n == Len(current_round_observations)
           h == Head(queue)
<1>1. /\ phase = "select" /\ phase' = "select" /\ queue # <<>>
      /\ UNCHANGED <<current_slot, sent, attested, current_round>>
      /\ queue' = Tail(queue)
      /\ \/ current_round_observations' = Append(current_round_observations, h)
         \/ current_round_observations' = current_round_observations
  BY DEF OnReceive, Receive, inputs
<1>2. /\ Len(queue) \in Nat \ {0}
      /\ DOMAIN queue = 1 .. Len(queue)
      /\ DOMAIN queue' = 1 .. Len(queue) - 1
      /\ \A j \in DOMAIN queue' : queue'[j] = queue[j + 1]
      /\ h = queue[1] /\ h \in Observation
  BY <1>1, HeadTailProperties, LenProperties, EmptySeq DEF TypeOK
<1>3. \A j \in DOMAIN queue' : h.id < queue'[j].id
  BY <1>2 DEF Safe, IdsInOrder
<1>4. /\ n \in Nat
      /\ DOMAIN current_round_observations = 1 .. n
      /\ \A i \in 1 .. n : current_round_observations[i].id < h.id
      /\ h.id <= sent
  <2>1. 1 \in DOMAIN queue
    BY <1>2
  <2>2. n \in Nat /\ DOMAIN current_round_observations = 1 .. n
    BY DEF TypeOK
  <2> QED  BY <1>2, <2>1, <2>2 DEF Safe, IdsInOrder
<1>5. /\ DOMAIN current_round_observations' \subseteq 1 .. n + 1
      /\ \A i \in DOMAIN current_round_observations' :
           current_round_observations'[i] = IF i = n + 1 THEN h ELSE current_round_observations[i]
  BY <1>1, <1>2, <1>4, AppendProperties, LenProperties DEF TypeOK
<1>6. IdsInOrder'
  <2>1. sent \in Nat /\ h.id \in Nat
    BY <1>2, ElementsTyped DEF TypeOK
  <2>2. /\ \A i \in DOMAIN queue' : queue'[i].id <= sent'
        /\ \A i, j \in DOMAIN queue' : i < j => queue'[i].id < queue'[j].id
    BY <1>1, <1>2 DEF Safe, IdsInOrder
  <2>3. \A i, j \in DOMAIN current_round_observations' :
          i < j => current_round_observations'[i].id < current_round_observations'[j].id
    BY <1>4, <1>5 DEF Safe, IdsInOrder
  <2>4. \A i \in DOMAIN current_round_observations' :
          /\ current_round_observations'[i].id <= sent'
          /\ \A j \in DOMAIN queue' : current_round_observations'[i].id < queue'[j].id
    BY <1>1, <1>2, <1>3, <1>4, <1>5 DEF Safe, IdsInOrder
  <2> QED  BY <2>2, <2>3, <2>4 DEF IdsInOrder
<1>7. SpentInv'
  <2> SUFFICES ASSUME NEW k \in DOMAIN attested
               PROVE  /\ \A o \in attested[k].observations :
                           /\ o.id <= sent
                           /\ \A j \in DOMAIN queue' : o.id < queue'[j].id
                           /\ \A i \in DOMAIN current_round_observations' :
                                o.id < current_round_observations'[i].id
                      /\ attested[k].round < current_round
    BY <1>1 DEF SpentInv, InPublication
  <2>1. /\ \A o \in attested[k].observations :
             /\ o.id <= sent
             /\ \A j \in DOMAIN queue : o.id < queue[j].id
             /\ \A i \in DOMAIN current_round_observations : o.id < current_round_observations[i].id
        /\ attested[k].round < current_round
    BY <1>1 DEF Safe, SpentInv, InPublication
  <2> QED  BY <1>2, <1>4, <1>5, <2>1
<1>8. (current_round * RoundLength <= current_slot)' /\ PublicationInv' /\ CountedOnce' /\ AttestedInOrder'
  BY <1>1 DEF Safe, PublicationInv, CountedOnce, AttestedInOrder
<1> QED  BY <1>6, <1>7, <1>8 DEF Safe

LEMMA SafeSend ==
  ASSUME TypeOK, TypeOK', Safe, Send
  PROVE  Safe'
<1> DEFINE n == Len(queue)
<1>1. /\ UNCHANGED <<current_slot, phase, current_round, current_round_observations, active_round, attested>>
      /\ sent' = sent + 1
  BY DEF Send, inputs, round, history
<1>2. PICK c \in Channel, p \in Price, d \in Decimal :
        queue' = Append(queue, [id |-> sent', channel |-> c, price |-> p, decimals |-> d])
  BY DEF Send
<1>3. /\ n \in Nat
      /\ DOMAIN queue = 1 .. n
      /\ DOMAIN queue' = 1 .. n + 1
      /\ \A j \in 1 .. n : queue'[j] = queue[j]
      /\ queue'[n + 1].id = sent + 1
  BY <1>1, <1>2 DEF TypeOK
<1>4. sent \in Nat /\ \A o \in Observation : o.id \in Nat
  BY ElementsTyped DEF TypeOK
<1>5. /\ \A i \in DOMAIN queue : queue[i] \in Observation
      /\ \A i \in DOMAIN current_round_observations : current_round_observations[i] \in Observation
      /\ \A k \in DOMAIN attested : attested[k].observations \subseteq Observation
  BY ElementsTyped
<1>6. IdsInOrder'
  BY <1>1, <1>3, <1>4, <1>5 DEF Safe, IdsInOrder
<1>7. SpentInv'
  <2> SUFFICES ASSUME NEW k \in DOMAIN attested, NEW o \in attested[k].observations
               PROVE  o.id <= sent + 1 /\ \A j \in DOMAIN queue' : o.id < queue'[j].id
    BY <1>1 DEF Safe, SpentInv, InPublication
  <2>1. o.id <= sent /\ o.id \in Nat /\ \A j \in DOMAIN queue : o.id < queue[j].id
    BY <1>4, <1>5 DEF Safe, SpentInv
  <2> QED  BY <1>3, <1>4, <2>1
<1>8. (current_round * RoundLength <= current_slot)' /\ PublicationInv' /\ CountedOnce' /\ AttestedInOrder'
  BY <1>1 DEF Safe, PublicationInv, CountedOnce, AttestedInOrder
<1> QED  BY <1>6, <1>7, <1>8 DEF Safe

LEMMA SafeStep == TypeOK /\ TypeOK' /\ Safe /\ [Next]_vars => Safe'
<1> SUFFICES ASSUME TypeOK, TypeOK', Safe, [Next]_vars PROVE Safe'
  OBVIOUS
<1>0. current_slot \in Int
  BY DEF TypeOK
<1>1. CASE TickSameRound
  BY <1>0, <1>1, SafeFrame DEF TickSameRound, inputs, history
<1>2. CASE TickMissedQuorum
  BY <1>2, SafeMissedQuorum
<1>3. CASE TickInvalidDecimals
  BY <1>0, <1>3, SafeFrame DEF TickInvalidDecimals, inputs, history
<1>4. CASE TickMedianPanics
  BY <1>0, <1>4, SafeFrame DEF TickMedianPanics, TakeTick, inputs, history
<1>5. CASE TickPublish
  BY <1>5, SafePublish
<1>6. CASE PublishReturns
  BY <1>6, SafeReturns
<1>7. CASE OnReceive
  BY <1>7, SafeReceive
<1>8. CASE OnClosed
  BY <1>0, <1>8, SafeFrame DEF OnClosed, inputs, history
<1>9. CASE OnIdle
  BY <1>0, <1>9, SafeFrame DEF OnIdle, inputs, history
<1>10. CASE TimePoll
  <2>1. current_slot' >= current_slot
    BY <1>0, <1>10 DEF TimePoll
  <2> QED  BY <1>10, <2>1, SafeFrame DEF TimePoll, history
<1>11. CASE DiscoverChannels
  BY <1>0, <1>11, SafeFrame DEF DiscoverChannels, history
<1>12. CASE Send
  BY <1>12, SafeSend
<1>13. CASE DropSender
  BY <1>0, <1>13, SafeFrame DEF DropSender, history
<1>14. CASE UNCHANGED vars
  BY <1>0, <1>14, SafeFrame DEF vars, inputs, history
<1> QED
  BY <1>1, <1>2, <1>3, <1>4, <1>5, <1>6, <1>7, <1>8, <1>9, <1>10, <1>11, <1>12,
     <1>13, <1>14 DEF Next, Worker, OnTick, Environment

LEMMA SafeAlways == Spec => []Safe
BY TypeCorrect, SafeInit, SafeStep, PTL DEF Spec

(* No observation counts towards two attestations, however long the rounds *)
(* and publications last and however many observations arrive meanwhile.   *)
THEOREM NoObservationCountedTwice == Spec => []CountedOnce
<1>1. Safe => CountedOnce
  BY DEF Safe
<1> QED  BY <1>1, SafeAlways, PTL

(* Rounds are attested in order, each at most once and after its last slot.*)
THEOREM RoundsAttestedInOrder == Spec => []AttestedInOrder
<1>1. Safe => AttestedInOrder
  BY DEF Safe
<1> QED  BY <1>1, SafeAlways, PTL
-----------------------------------------------------------------------------
(***************************************************************************)
(* In a build that panics on overflow (the documented "cargo run"), the    *)
(* price feed worker implements AttestedFeed.  A release build does not:   *)
(* a wrapped sum lies outside the quotes.                                  *)
(***************************************************************************)

(* Numbered observations are distinct: the length of the vector, which the *)
(* code compares with the quorum, is the size of the pool.                 *)
LEMMA PoolSize ==
  ASSUME TypeOK, Safe
  PROVE  Cardinality(SetOf(current_round_observations)) = Len(current_round_observations)
<1> DEFINE s == current_round_observations
           n == Len(s)
<1>1. n \in Nat /\ DOMAIN s = 1 .. n /\ s \in [1 .. n -> SetOf(s)]
  <2>1. n \in Nat /\ DOMAIN s = 1 .. n /\ s \in [1 .. n -> Observation]
    BY DEF TypeOK
  <2> QED  BY <2>1 DEF SetOf
<1>2. \A i, j \in 1 .. n : s[i] = s[j] => i = j
  <2>1. \A i \in 1 .. n : s[i].id \in Nat
    BY <1>1, ElementsTyped
  <2>2. \A i, j \in 1 .. n : i < j => s[i].id < s[j].id
    BY <1>1 DEF Safe, IdsInOrder
  <2> QED  BY <1>1, <2>1, <2>2
<1>3. \A o \in SetOf(s) : \E i \in 1 .. n : s[i] = o
  BY <1>1 DEF SetOf
<1>4. s \in Bijection(1 .. n, SetOf(s))
  <2> HIDE DEF s, n
  <2> QED  BY <1>1, <1>2, <1>3 DEF Bijection, Injection, Surjection, IsInjective
<1>5. IsFiniteSet(1 .. n) /\ Cardinality(1 .. n) = n
  <2>1. /\ IsFiniteSet(1 .. n)
        /\ Cardinality(1 .. n) = IF 1 > n THEN 0 ELSE n - 1 + 1
    BY <1>1, FS_Interval
  <2> QED  BY <1>1, <2>1
<1>6. ExistsBijection(1 .. n, SetOf(s))
  BY <1>4 DEF ExistsBijection
<1> QED  BY <1>5, <1>6, FS_Bijection

(* The attested price lies between two prices of the vector. *)
LEMMA PriceEnclosed ==
  ASSUME TypeOK, DebugBuild, TickPublish
  PROVE  \E lo, hi \in SetOf(current_round_observations) :
           Attestation.price \in lo.price .. hi.price
<1>1. Prices # <<>>
  <2>1. Len(current_round_observations) > 0
    BY ConstAssumption DEF TickPublish, Quorate, TypeOK
  <2>2. 1 \in DOMAIN Prices
    BY <2>1, PricesTyped DEF TypeOK
  <2> QED  BY <2>2
<1>2. ~Overflows(Prices)
  BY DEF TickPublish
<1>3. PICK i \in DOMAIN Prices, j \in DOMAIN Prices :
        compute_median(Prices) \in Prices[i] .. Prices[j]
  BY <1>1, <1>2, PricesTyped, MedianEnclosed
<1>4. /\ current_round_observations[i] \in SetOf(current_round_observations)
      /\ current_round_observations[j] \in SetOf(current_round_observations)
      /\ Prices[i] = current_round_observations[i].price
      /\ Prices[j] = current_round_observations[j].price
  BY PricesTyped DEF SetOf
<1> QED  BY <1>3, <1>4 DEF Attestation

(* The instance has FiniteSets of its own. *)
LEMMA SameCardinality == \A S : Feed!Cardinality(S) = Cardinality(S)
BY DEF Feed!Cardinality, Cardinality

LEMMA FeedInit == Init => Feed!Init
<1> SUFFICES ASSUME Init PROVE Feed!Init
  OBVIOUS
<1>1. current_round \in Nat
  BY RoundIsNat, ConstAssumption DEF Init
<1> QED  BY <1>1 DEF Init, Feed!Init, FeedRound, FeedPool, SetOf

LEMMA FeedStep ==
  ASSUME DebugBuild, TypeOK, TypeOK', Safe, [Next]_vars
  PROVE  [Feed!Next]_(Feed!vars)
(* Steps that touch neither round, vector nor log are stuttering steps. *)
<1>0. ASSUME UNCHANGED <<round, attested>>,
             phase' = phase \/ (phase = "select" /\ phase' = "exited")
      PROVE  UNCHANGED Feed!vars
  BY <1>0 DEF round, Feed!vars, FeedRound, FeedPool, SetOf
<1>1. CASE TickSameRound
  BY <1>0, <1>1 DEF TickSameRound, history
<1>2. CASE TickMissedQuorum
  <2>1. /\ phase = "select" /\ phase' = "select"
        /\ attested' = attested
        /\ current_round_observations' = <<>>
        /\ current_round' > current_round
        /\ ~(Len(current_round_observations) >= QuorumThreshold)
    BY <1>2 DEF TickMissedQuorum, TakeTick, ResetTo, NewRound, Quorate, history
  <2>2. SetOf(<<>>) = {}
    BY DEF SetOf
  <2>3. ~(Cardinality(SetOf(current_round_observations)) >= QuorumThreshold)
    BY <2>1, PoolSize
  <2>4. FeedRound = current_round /\ FeedPool = SetOf(current_round_observations)
    BY <2>1 DEF FeedRound, FeedPool
  <2>5. FeedRound' = current_round' /\ FeedPool' = {}
    BY <2>1, <2>2 DEF FeedRound, FeedPool
  <2>6. /\ FeedRound' > FeedRound /\ FeedPool' = {} /\ attested' = attested
        /\ ~(Cardinality(FeedPool) >= QuorumThreshold)
    BY <2>1, <2>3, <2>4, <2>5
  <2>7. Feed!Close
    BY <2>6, SameCardinality DEF Feed!Close
  <2> QED  BY <2>7 DEF Feed!Next
<1>3. CASE TickInvalidDecimals
  BY <1>0, <1>3 DEF TickInvalidDecimals, history
<1>4. CASE TickMedianPanics
  BY <1>0, <1>4 DEF TickMedianPanics, TakeTick, history
<1>5. CASE TickPublish
  <2>1. /\ phase = "select" /\ phase' = "publishing"
        /\ active_round' > current_round
        /\ Len(current_round_observations) >= QuorumThreshold
        /\ attested' = Append(attested, Attestation)
    BY <1>5 DEF TickPublish, TakeTick, NewRound, Quorate
  <2>2. PICK lo \in SetOf(current_round_observations), hi \in SetOf(current_round_observations) :
          Attestation.price \in lo.price .. hi.price
    BY <1>5, PriceEnclosed
  <2> DEFINE A(p) == [ round        |-> current_round,
                       price        |-> p,
                       valid_count  |-> Cardinality(SetOf(current_round_observations)),
                       observations |-> SetOf(current_round_observations) ]
  <2>3. Attestation = A(Attestation.price)
    BY PoolSize DEF Attestation
  <2>4. attested' = Append(attested, A(Attestation.price))
    BY <2>1, <2>3
  <2>5. FeedRound = current_round /\ FeedPool = SetOf(current_round_observations)
    BY <2>1 DEF FeedRound, FeedPool
  <2>6. FeedRound' = active_round' /\ FeedPool' = {}
    BY <2>1 DEF FeedRound, FeedPool
  <2>7. attested' = Append(attested, [ round        |-> FeedRound,
                                       price        |-> Attestation.price,
                                       valid_count  |-> Cardinality(FeedPool),
                                       observations |-> FeedPool ])
    BY <2>4, <2>5
  <2>8. lo \in FeedPool /\ hi \in FeedPool
    BY <2>2, <2>5
  <2>9. Feed!Attest
    BY <2>2, <2>7, <2>8, SameCardinality DEF Feed!Attest
  <2>10. /\ FeedRound' > FeedRound /\ FeedPool' = {}
         /\ Cardinality(FeedPool) >= QuorumThreshold
    BY <2>1, <2>5, <2>6, PoolSize
  <2>11. Feed!Close
    BY <2>9, <2>10, SameCardinality DEF Feed!Close
  <2> QED  BY <2>11 DEF Feed!Next
<1>6. CASE PublishReturns
  <2>1. /\ phase = "publishing" /\ phase' = "select"
        /\ attested' = attested
        /\ current_round_observations' = <<>>
        /\ current_round' = active_round
    BY <1>6 DEF PublishReturns, ResetTo
  <2>2. SetOf(<<>>) = {}
    BY DEF SetOf
  <2> QED  BY <2>1, <2>2 DEF Feed!vars, FeedRound, FeedPool
<1>7. CASE OnReceive
  <2>1. /\ phase = "select" /\ phase' = "select" /\ queue # <<>>
        /\ UNCHANGED <<attested, current_round, active_round>>
    BY <1>7 DEF OnReceive
  <2>2. CASE Head(queue).channel \in channels
    <3> DEFINE o == Head(queue)
    <3>1. current_round_observations' = Append(current_round_observations, o)
      BY <1>7, <2>2 DEF OnReceive, Receive
    <3>2. /\ o \in Observation
          /\ o = queue[1]
          /\ 1 \in DOMAIN queue
      BY <2>1, HeadTailProperties, EmptySeq, LenProperties DEF TypeOK
    <3>3. SetOf(current_round_observations') = SetOf(current_round_observations) \cup {o}
      <4> DEFINE n == Len(current_round_observations)
      <4>1. /\ n \in Nat
            /\ DOMAIN current_round_observations = 1 .. n
            /\ DOMAIN current_round_observations' = 1 .. n + 1
            /\ current_round_observations'[n + 1] = o
            /\ \A i \in 1 .. n : current_round_observations'[i] = current_round_observations[i]
        BY <3>1, <3>2, AppendProperties, LenProperties DEF TypeOK
      <4> HIDE DEF n, o
      <4> QED  BY <4>1 DEF SetOf
    <3>4. o \notin SetOf(current_round_observations)
      <4>1. \A i \in DOMAIN current_round_observations : current_round_observations[i].id < o.id
        BY <3>2 DEF Safe, IdsInOrder
      <4>2. o.id \in Nat
        BY <3>2, ElementsTyped
      <4> QED  BY <4>1, <4>2 DEF SetOf
    <3>5. \A k \in DOMAIN attested : o \notin attested[k].observations
      <4>1. \A k \in DOMAIN attested : \A u \in attested[k].observations : u.id < o.id
        BY <3>2 DEF Safe, SpentInv
      <4>2. o.id \in Nat
        BY <3>2, ElementsTyped
      <4> QED  BY <4>1, <4>2
    <3>6. o \in Observation \ Feed!Used
      BY <2>1, <3>2, <3>4, <3>5 DEF Feed!Used, FeedPool
    <3> HIDE DEF o
    <3> QED  BY <2>1, <3>3, <3>6 DEF Feed!Next, Feed!Count, FeedRound, FeedPool
  <2>3. CASE Head(queue).channel \notin channels
    BY <1>7, <2>1, <2>3 DEF OnReceive, Receive, Feed!vars, FeedRound, FeedPool, SetOf
  <2> QED  BY <2>2, <2>3
<1>8. CASE OnClosed
  BY <1>0, <1>8 DEF OnClosed, history
<1>9. CASE OnIdle
  BY <1>0, <1>9 DEF OnIdle, history
<1>10. CASE TimePoll
  BY <1>0, <1>10 DEF TimePoll, history
<1>11. CASE DiscoverChannels
  BY <1>0, <1>11 DEF DiscoverChannels, history
<1>12. CASE Send
  BY <1>0, <1>12 DEF Send, history
<1>13. CASE DropSender
  BY <1>0, <1>13 DEF DropSender, history
<1>14. CASE UNCHANGED vars
  BY <1>0, <1>14 DEF vars, history
<1> QED
  BY <1>1, <1>2, <1>3, <1>4, <1>5, <1>6, <1>7, <1>8, <1>9, <1>10, <1>11, <1>12,
     <1>13, <1>14 DEF Next, Worker, OnTick, Environment

(* Subscribers may read the worker as the abstract feed: each round yields *)
(* at most one attestation, of all its counted observations and no others, *)
(* at a price the quotes enclose.                                          *)
THEOREM WorkerImplementsFeed ==
  ASSUME DebugBuild
  PROVE  Spec => ImplementsFeed
<1>1. TypeOK /\ TypeOK' /\ Safe /\ [Next]_vars => [Feed!Next]_(Feed!vars)
  BY FeedStep
<1> QED  BY <1>1, FeedInit, TypeCorrect, SafeAlways, PTL DEF Spec, ImplementsFeed, Feed!Spec
-----------------------------------------------------------------------------
(***************************************************************************)
(* What the steps of the price feed worker keep, beside AttestedFeed: it   *)
(* is the task that the coordinator takes it for, no observation leaves    *)
(* its vector unless its round has been settled, its round follows the     *)
(* clock, and every round it has left is settled by what it counted.       *)
(***************************************************************************)

(* For every build: only the interface is claimed, not the price. *)
LEMMA TaskStep ==
  ASSUME TypeOK, TypeOK', [Next]_vars
  PROVE  [Task!Next]_(Task!vars)
<1>1. CASE TickSameRound \/ TickMissedQuorum \/ TickInvalidDecimals
  BY <1>1 DEF TickSameRound, TickMissedQuorum, TickInvalidDecimals, TakeTick, Task!vars, TaskState
<1>2. CASE TickMedianPanics
  BY <1>2 DEF TickMedianPanics, TakeTick, Task!Next, Task!Exits, TaskState
<1>3. CASE TickPublish
  BY <1>3 DEF TickPublish, TakeTick, Task!Next, Task!Publishes, TaskState
<1>4. CASE PublishReturns
  BY <1>4 DEF PublishReturns, Task!Next, Task!PublicationEnds, TaskState
<1>5. CASE OnReceive
  BY <1>5 DEF OnReceive, Task!Next, Task!Receives, Task!CanReceive, TaskState
<1>6. CASE OnClosed \/ OnIdle
  BY <1>6 DEF OnClosed, OnIdle, Task!Next, Task!Exits, TaskState
<1>7. CASE TimePoll \/ DiscoverChannels \/ DropSender
  BY <1>7 DEF TimePoll, DiscoverChannels, DropSender, Task!vars, TaskState
<1>8. CASE Send
  <2>1. PICK c \in Channel, p \in Price, d \in Decimal :
          queue' = Append(queue, [id |-> sent', channel |-> c, price |-> p, decimals |-> d])
    BY <1>8 DEF Send
  <2> DEFINE m == [id |-> sent', channel |-> c, price |-> p, decimals |-> d]
  <2>2. m \in Observation
    BY <1>8, <2>1 DEF Send, TypeOK, Observation
  <2>3. phase # "exited" /\ Len(queue) < QueueCapacity /\ phase' = phase
    BY <1>8 DEF Send
  <2>4. queue' = Append(queue, m)
    BY <2>1
  <2> HIDE DEF m
  <2> QED  BY <2>2, <2>3, <2>4 DEF Task!Next, Task!Send, TaskState, TypeOK
<1>9. CASE UNCHANGED vars
  BY <1>9 DEF vars, Task!vars, TaskState
<1> QED
  BY <1>1, <1>2, <1>3, <1>4, <1>5, <1>6, <1>7, <1>8, <1>9
  DEF Next, Worker, OnTick, Environment

(* Module Indexer may replace the worker by FeedWorkerTask, whatever the   *)
(* worker computes and in every build.                                     *)
THEOREM WorkerImplementsTask == Spec => ImplementsTask
<1>1. Init => Task!Init
  BY DEF Init, Task!Init, TaskState
<1>2. TypeOK /\ TypeOK' /\ [Next]_vars => [Task!Next]_(Task!vars)
  BY TaskStep
<1> QED  BY <1>1, <1>2, TypeCorrect, PTL DEF Spec, ImplementsTask, Task!Spec
-----------------------------------------------------------------------------
Settled ==
  \A o \in SetOf(current_round_observations) \ SetOf(current_round_observations') :
    \/ \E i \in DOMAIN attested : o \in attested[i].observations
    \/ Len(current_round_observations) < QuorumThreshold

LEMMA SettledStep ==
  ASSUME TypeOK, Safe, [Next]_vars
  PROVE  [Settled]_vars
<1>1. CASE UNCHANGED current_round_observations
  BY <1>1 DEF Settled
<1>2. CASE TickMissedQuorum
  <2>1. Len(current_round_observations) < QuorumThreshold
    BY <1>2, ConstAssumption DEF TickMissedQuorum, Quorate, TypeOK
  <2> QED  BY <2>1 DEF Settled
<1>3. CASE PublishReturns
  <2>1. /\ attested # <<>>
        /\ attested[Len(attested)].observations = SetOf(current_round_observations)
    BY <1>3 DEF PublishReturns, Safe, PublicationInv
  <2>2. Len(attested) \in DOMAIN attested
    BY <2>1, EmptySeq DEF TypeOK
  <2> QED  BY <2>1, <2>2 DEF Settled
<1>4. CASE OnReceive
  <2>1. CASE current_round_observations' = Append(current_round_observations, Head(queue))
    <3> DEFINE s == current_round_observations
    <3>1. /\ \A i \in DOMAIN s : i \in DOMAIN s' /\ s'[i] = s[i]
      BY <2>1, AppendProperties, LenProperties DEF TypeOK
    <3>2. SetOf(s) \subseteq SetOf(s)'
      BY <3>1 DEF SetOf
    <3> QED  BY <3>2 DEF Settled
  <2> QED  BY <1>1, <1>4, <2>1 DEF OnReceive, Receive
<1> QED
  BY <1>1, <1>2, <1>3, <1>4 DEF Next, Worker, OnTick, Environment, vars, inputs, round, history,
     TickSameRound, TickInvalidDecimals, TickMedianPanics, TickPublish, OnClosed, OnIdle,
     TimePoll, DiscoverChannels, Send, DropSender

(* The reset after a publication loses no observation that the publication *)
(* did not count, however many arrive while it is awaited.                 *)
THEOREM OnlySettledObservationsLeave == Spec => OnlySettledLeave
<1>1. TypeOK /\ Safe /\ [Next]_vars => [Settled]_vars
  BY SettledStep
<1>2. Spec => [][Settled]_vars
  BY <1>1, TypeCorrect, SafeAlways, PTL DEF Spec
<1> QED  BY <1>2 DEF OnlySettledLeave, Settled
-----------------------------------------------------------------------------
(* LagsOnlyWhilePending is not inductive: a publication may return to a    *)
(* round that is over by then, and a tick must have been missed meanwhile. *)
ClockInv ==
  /\ LagsOnlyWhilePending
  /\ (phase = "publishing" /\ Round(current_slot) > active_round) => time_changed

LEMMA ClockStep ==
  ASSUME TypeOK, ClockInv, [Next]_vars
  PROVE  ClockInv'
<1> USE DEF ClockInv, LagsOnlyWhilePending
<1>0. \A slot \in 0 .. MaxSlot : Round(slot) \in Int
  BY RoundIsNat
<1>r. current_round \in Int /\ active_round \in Int /\ current_slot \in 0 .. MaxSlot
  BY DEF TypeOK
<1>1. CASE TickSameRound
  BY <1>0, <1>1, <1>r DEF TickSameRound, TakeTick, NewRound, inputs, round
<1>2. CASE TickMissedQuorum
  BY <1>0, <1>2, <1>r DEF TickMissedQuorum, TakeTick, ResetTo, inputs
<1>3. CASE TickInvalidDecimals
  BY <1>3 DEF TickInvalidDecimals, Quorate, InvalidDecimals, TakeTick, inputs, round
<1>4. CASE TickMedianPanics
  BY <1>4 DEF TickMedianPanics
<1>5. CASE TickPublish
  BY <1>0, <1>5, <1>r DEF TickPublish, TakeTick, inputs
<1>6. CASE PublishReturns
  BY <1>6 DEF PublishReturns, ResetTo, inputs
<1>7. CASE OnReceive
  <2>1. (Quorate /\ InvalidDecimals) => (Quorate /\ InvalidDecimals)'
    <3> DEFINE s == current_round_observations
    <3>1. CASE UNCHANGED s
      BY <3>1 DEF Quorate, InvalidDecimals
    <3>2. CASE s' = Append(s, Head(queue))
      <4>1. /\ Len(s') = Len(s) + 1
            /\ \A i \in DOMAIN s : i \in DOMAIN s' /\ s'[i] = s[i]
        BY <3>2, AppendProperties, LenProperties DEF TypeOK
      <4>2. Len(s) \in Nat
        BY DEF TypeOK
      <4> QED  BY <4>1, <4>2, ConstAssumption DEF Quorate, InvalidDecimals
    <3> QED  BY <1>7, <3>1, <3>2 DEF OnReceive, Receive
  <2>2. UNCHANGED <<current_slot, current_round, active_round, time_changed, phase>>
    BY <1>7 DEF OnReceive, inputs
  <2> QED  BY <2>1, <2>2
<1>8. CASE OnClosed \/ OnIdle
  BY <1>8 DEF OnClosed, OnIdle
<1>9. CASE TimePoll
  BY <1>9 DEF TimePoll
<1>10. CASE DiscoverChannels \/ Send \/ DropSender \/ UNCHANGED vars
  BY <1>10 DEF DiscoverChannels, Send, DropSender, vars, inputs, round, Quorate, InvalidDecimals
<1> QED
  BY <1>1, <1>2, <1>3, <1>4, <1>5, <1>6, <1>7, <1>8, <1>9, <1>10
  DEF Next, Worker, OnTick, Environment

(* The worker's round is behind the clock only while a tick or a return is *)
(* due, or where a quorate round holds an observation of other decimals.   *)
THEOREM RoundFollowsClock == Spec => []LagsOnlyWhilePending
<1>1. Init => ClockInv
  BY RoundIsNat, ConstAssumption DEF Init, ClockInv, LagsOnlyWhilePending
<1>2. TypeOK /\ ClockInv /\ [Next]_vars => ClockInv'
  BY ClockStep
<1>3. ClockInv => LagsOnlyWhilePending
  BY DEF ClockInv
<1> QED  BY <1>1, <1>2, <1>3, TypeCorrect, PTL DEF Spec
-----------------------------------------------------------------------------
(* Rounds that the worker has left.  The vector is what was counted for    *)
(* the current round and nothing was counted for a later one, so that      *)
(* leaving a round, with a publication or without a quorum, settles it,    *)
(* and settles the rounds skipped with it by attesting nothing.            *)

AttestedFor(r) == {i \in DOMAIN attested : attested[i].round = r}

RoundSettled(r) ==
  IF Cardinality(CountedIn(r)) >= QuorumThreshold
    THEN /\ Cardinality(AttestedFor(r)) = 1
         /\ \A i \in AttestedFor(r) : /\ attested[i].observations = CountedIn(r)
                                      /\ attested[i].valid_count = Cardinality(CountedIn(r))
    ELSE AttestedFor(r) = {}

SettledInv ==
  /\ \A r \in 0 .. current_round - 1 : RoundSettled(r)
  /\ CountedIn(current_round) = SetOf(current_round_observations)
  /\ \A a \in accepted : a.round <= current_round
  /\ phase = "publishing" =>
       /\ attested[Len(attested)].valid_count = Len(current_round_observations)
       /\ Len(current_round_observations) >= QuorumThreshold

LEMMA SettledInit == Init => SettledInv
<1> SUFFICES ASSUME Init PROVE SettledInv
  OBVIOUS
<1>1. /\ accepted = {} /\ attested = <<>> /\ current_round_observations = <<>>
      /\ phase = "select"
  BY DEF Init
<1>2. \A r : CountedIn(r) = {} /\ AttestedFor(r) = {}
  BY <1>1 DEF CountedIn, AttestedFor
<1>3. Cardinality({}) = 0
  BY FS_EmptySet
<1>4. \A r : RoundSettled(r)
  BY <1>2, <1>3, ConstAssumption DEF RoundSettled
<1>5. SetOf(current_round_observations) = {}
  BY <1>1 DEF SetOf
<1> QED  BY <1>1, <1>2, <1>4, <1>5 DEF SettledInv

(* Nothing is counted, attested or left. *)
LEMMA SettledFrame ==
  ASSUME SettledInv,
         UNCHANGED <<current_round, current_round_observations, accepted, attested>>,
         phase' = "publishing" => phase = "publishing"
  PROVE  SettledInv'
<1>1. \A r : CountedIn(r)' = CountedIn(r) /\ AttestedFor(r)' = AttestedFor(r)
  BY DEF CountedIn, AttestedFor
<1>2. \A r : RoundSettled(r) => RoundSettled(r)'
  BY <1>1 DEF RoundSettled
<1> QED  BY <1>1, <1>2 DEF SettledInv, SetOf

(* The round is left, with its attestation in the log or short of a quorum.*)
LEMMA SettledLeave ==
  ASSUME TypeOK, TypeOK', Safe, SettledInv,
         UNCHANGED <<accepted, attested>>,
         phase' = "select",
         current_round' > current_round,
         current_round_observations' = <<>>,
         RoundSettled(current_round)
  PROVE  SettledInv'
<1>1. current_round \in Nat /\ current_round' \in Nat
  BY DEF TypeOK
<1>2. \A r : CountedIn(r)' = CountedIn(r) /\ AttestedFor(r)' = AttestedFor(r)
  BY DEF CountedIn, AttestedFor
<1>3. \A r \in Nat : r > current_round => CountedIn(r) = {}
  BY <1>1 DEF SettledInv, CountedIn
<1>4. \A r \in Nat : r > current_round => AttestedFor(r) = {}
  <2>1. \A k \in DOMAIN attested : attested[k].round <= current_round
    BY <1>1, ElementsTyped DEF Safe, SpentInv, PublicationInv, InPublication
  <2> QED  BY <1>1, <2>1, ElementsTyped DEF AttestedFor
<1>5. \A r \in 0 .. current_round' - 1 : RoundSettled(r)
  <2> SUFFICES ASSUME NEW r \in 0 .. current_round' - 1 PROVE RoundSettled(r)
    OBVIOUS
  <2>1. CASE r < current_round
    BY <1>1, <2>1 DEF SettledInv
  <2>2. CASE r = current_round
    BY <2>2
  <2>3. CASE r > current_round
    <3>1. CountedIn(r) = {} /\ AttestedFor(r) = {}
      BY <1>1, <1>3, <1>4, <2>3
    <3> QED  BY <3>1, FS_EmptySet, ConstAssumption DEF RoundSettled
  <2> QED  BY <1>1, <2>1, <2>2, <2>3
<1>6. \A r \in 0 .. current_round' - 1 : RoundSettled(r)'
  BY <1>2, <1>5 DEF RoundSettled
<1>7. CountedIn(current_round)' = SetOf(current_round_observations)'
  <2>1. CountedIn(current_round)' = {}
    BY <1>1 DEF SettledInv, CountedIn
  <2>2. SetOf(current_round_observations)' = {}
    BY DEF SetOf
  <2> QED  BY <2>1, <2>2
<1>8. \A a \in accepted' : a.round <= current_round'
  <2>1. \A a \in accepted : a.round \in Nat
    BY DEF TypeOK
  <2> QED  BY <1>1, <2>1 DEF SettledInv
<1> QED  BY <1>6, <1>7, <1>8 DEF SettledInv

LEMMA SettledMissedQuorum ==
  ASSUME TypeOK, TypeOK', Safe, SettledInv, TickMissedQuorum
  PROVE  SettledInv'
<1>1. /\ phase = "select" /\ phase' = "select"
      /\ UNCHANGED <<accepted, attested>>
      /\ current_round' > current_round
      /\ current_round_observations' = <<>>
  BY DEF TickMissedQuorum, TakeTick, ResetTo, NewRound, history
<1>2. ~(Cardinality(CountedIn(current_round)) >= QuorumThreshold)
  BY PoolSize DEF TickMissedQuorum, Quorate, SettledInv
<1>3. AttestedFor(current_round) = {}
  BY <1>1, ElementsTyped DEF AttestedFor, Safe, SpentInv, InPublication, TypeOK
<1>4. RoundSettled(current_round)
  BY <1>2, <1>3 DEF RoundSettled
<1> QED  BY <1>1, <1>4, SettledLeave

LEMMA SettledReturns ==
  ASSUME TypeOK, TypeOK', Safe, SettledInv, PublishReturns
  PROVE  SettledInv'
<1> DEFINE last == Len(attested)
<1>1. /\ phase = "publishing" /\ phase' = "select"
      /\ UNCHANGED <<accepted, attested>>
      /\ current_round' > current_round
      /\ current_round_observations' = <<>>
  BY DEF PublishReturns, ResetTo, Safe, PublicationInv
<1>2. /\ last \in DOMAIN attested
      /\ attested[last].round = current_round
      /\ attested[last].observations = SetOf(current_round_observations)
      /\ attested[last].valid_count = Len(current_round_observations)
      /\ Len(current_round_observations) >= QuorumThreshold
  <2>1. attested # <<>>
    BY <1>1 DEF Safe, PublicationInv
  <2>2. last \in DOMAIN attested
    BY <2>1, EmptySeq DEF TypeOK
  <2> QED  BY <1>1, <2>2 DEF Safe, PublicationInv, SettledInv
<1>3. CountedIn(current_round) = SetOf(current_round_observations)
  BY DEF SettledInv
<1>4. Cardinality(CountedIn(current_round)) = Len(current_round_observations)
  BY <1>3, PoolSize
<1>5. AttestedFor(current_round) = {last}
  <2>1. \A k \in DOMAIN attested : k # last => attested[k].round < current_round
    BY DEF Safe, SpentInv, InPublication
  <2>2. current_round \in Nat
    BY DEF TypeOK
  <2> HIDE DEF last
  <2> QED  BY <1>2, <2>1, <2>2 DEF AttestedFor
<1>6. Cardinality({last}) = 1
  BY FS_Singleton
<1>7. RoundSettled(current_round)
  <2> HIDE DEF last
  <2> QED  BY <1>2, <1>3, <1>4, <1>5, <1>6 DEF RoundSettled
<1> QED  BY <1>1, <1>7, SettledLeave

LEMMA SettledPublish ==
  ASSUME TypeOK, TypeOK', Safe, SettledInv, TickPublish
  PROVE  SettledInv'
<1> DEFINE n == Len(attested)
<1>1. /\ UNCHANGED <<accepted, current_round, current_round_observations>>
      /\ attested' = Append(attested, Attestation)
      /\ Quorate
  BY DEF TickPublish
<1>2. /\ Len(attested') = n + 1
      /\ n \in Nat
      /\ DOMAIN attested = 1 .. n
      /\ DOMAIN attested' = 1 .. n + 1
      /\ \A k \in DOMAIN attested : attested'[k] = attested[k]
      /\ attested'[n + 1] = Attestation
  <2>1. attested \in Seq(AttestedPrice) /\ attested' \in Seq(AttestedPrice)
    BY DEF TypeOK
  <2> QED  BY <1>1, <2>1, AppendProperties, LenProperties
<1>3. Attestation.round = current_round
      /\ Attestation.valid_count = Len(current_round_observations)
  BY DEF Attestation
<1>4. \A r : CountedIn(r)' = CountedIn(r)
  BY <1>1 DEF CountedIn
<1>5. \A r \in 0 .. current_round - 1 : AttestedFor(r)' = AttestedFor(r)
  <2>1. current_round \in Nat
    BY DEF TypeOK
  <2> HIDE DEF n
  <2> QED  BY <1>2, <1>3, <2>1 DEF AttestedFor
<1>6. \A r \in 0 .. current_round - 1 : RoundSettled(r)'
  <2> SUFFICES ASSUME NEW r \in 0 .. current_round - 1 PROVE RoundSettled(r)'
    OBVIOUS
  <2>1. RoundSettled(r)
    BY DEF SettledInv
  <2>2. \A i \in AttestedFor(r) : attested'[i] = attested[i]
    BY <1>2 DEF AttestedFor
  <2> QED  BY <1>4, <1>5, <2>1, <2>2 DEF RoundSettled
<1>7. attested'[Len(attested')].valid_count = Len(current_round_observations')
  BY <1>1, <1>2, <1>3
<1>8. Len(current_round_observations') >= QuorumThreshold
  BY <1>1 DEF Quorate
<1>9. /\ CountedIn(current_round)' = SetOf(current_round_observations)'
      /\ \A a \in accepted' : a.round <= current_round'
  BY <1>1, <1>4 DEF SettledInv, CountedIn, SetOf
<1> QED  BY <1>1, <1>6, <1>7, <1>8, <1>9 DEF SettledInv

LEMMA SettledReceive ==
  ASSUME TypeOK, TypeOK', Safe, SettledInv, OnReceive
  PROVE  SettledInv'
<1> DEFINE o == Head(queue)
           s == current_round_observations
<1>1. phase = "select" /\ phase' = "select" /\ UNCHANGED <<current_round, attested>>
  BY DEF OnReceive
<1>2. CASE UNCHANGED <<current_round_observations, accepted>>
  BY <1>1, <1>2, SettledFrame
<1>3. CASE /\ current_round_observations' = Append(current_round_observations, o)
           /\ accepted' = accepted \cup {[obs |-> o, round |-> current_round]}
  <2>1. SetOf(s)' = SetOf(s) \cup {o}
    <3>1. /\ Len(s) \in Nat
          /\ DOMAIN s = 1 .. Len(s) /\ DOMAIN s' = 1 .. Len(s) + 1
          /\ s'[Len(s) + 1] = o
          /\ \A i \in 1 .. Len(s) : s'[i] = s[i]
      BY <1>3, AppendProperties, LenProperties DEF TypeOK
    <3> HIDE DEF o
    <3> QED  BY <3>1 DEF SetOf
  <2> HIDE DEF o
  <2>2. CountedIn(current_round)' = CountedIn(current_round) \cup {o}
    <3> DEFINE new == [obs |-> o, round |-> current_round]
    <3>1. new.obs = o /\ new.round = current_round
      OBVIOUS
    <3>2. accepted' = accepted \cup {new} /\ current_round' = current_round
      BY <1>1, <1>3
    <3> HIDE DEF new
    <3>3. {b \in accepted' : b.round = current_round}
            = {b \in accepted : b.round = current_round} \cup {new}
      BY <3>1, <3>2
    <3> QED  BY <3>1, <3>2, <3>3 DEF CountedIn
  <2>3. \A r \in 0 .. current_round - 1 : CountedIn(r)' = CountedIn(r)
    BY <1>3 DEF CountedIn, TypeOK
  <2>4. \A r : AttestedFor(r)' = AttestedFor(r)
    BY <1>1 DEF AttestedFor
  <2>5. \A r \in 0 .. current_round - 1 : RoundSettled(r)'
    BY <1>1, <2>3, <2>4 DEF SettledInv, RoundSettled
  <2>6. \A a \in accepted' : a.round <= current_round'
    BY <1>1, <1>3 DEF SettledInv, TypeOK
  <2> QED  BY <1>1, <2>1, <2>2, <2>5, <2>6 DEF SettledInv
<1> QED  BY <1>2, <1>3 DEF OnReceive, Receive

LEMMA SettledInvStep ==
  ASSUME TypeOK, TypeOK', Safe, SettledInv, [Next]_vars
  PROVE  SettledInv'
<1>1. CASE TickSameRound \/ TickInvalidDecimals \/ TickMedianPanics
  BY <1>1, SettledFrame
  DEF TickSameRound, TickInvalidDecimals, TickMedianPanics, TakeTick, round, history
<1>2. CASE OnClosed \/ OnIdle \/ TimePoll \/ DiscoverChannels \/ Send \/ DropSender
  BY <1>2, SettledFrame
  DEF OnClosed, OnIdle, TimePoll, DiscoverChannels, Send, DropSender, round, history
<1>3. CASE UNCHANGED vars
  BY <1>3, SettledFrame DEF vars, round, history
<1> QED
  BY <1>1, <1>2, <1>3, SettledMissedQuorum, SettledPublish, SettledReturns, SettledReceive
  DEF Next, Worker, OnTick, Environment

(* Whatever is interleaved with its ticks and publications, the worker     *)
(* attests a round it leaves once and for all it counted, or not at all    *)
(* for want of a quorum.                                                   *)
THEOREM ClosedRoundsSettled == Spec => []ClosedRoundSettled
<1>1. TypeOK /\ TypeOK' /\ Safe /\ SettledInv /\ [Next]_vars => SettledInv'
  BY SettledInvStep
<1>2. SettledInv => ClosedRoundSettled
  BY DEF SettledInv, RoundSettled, AttestedFor, ClosedRoundSettled
<1> QED  BY <1>1, <1>2, SettledInit, TypeCorrect, SafeAlways, PTL DEF Spec
=============================================================================
