-------------------------- MODULE PriceFeedWorker --------------------------
(***************************************************************************)
(* One price_feed_worker task of oracle_node/indexer/src/indexer.rs.  It   *)
(* collects the observations of one feed into rounds of RoundLength slots  *)
(* and, when the slot watch shows that a later round has begun, publishes  *)
(* the median of the round it leaves.                                      *)
(*                                                                         *)
(* The task runs one branch of its select! at a time and is away from the  *)
(* select! while it awaits the publication; its two watch channels and its *)
(* bounded queue change at any moment, also then.                          *)
(***************************************************************************)
EXTENDS Median

CONSTANTS Channel,           \* oracle channels
          Price,             \* prices an observation may carry
          Decimal,           \* decimals an observation may carry
          ObservationDecimal,\* PRICE_OBSERVATION_DECIMAL
          RoundLength,       \* slots per round
          QuorumThreshold,   \* observations needed to attest a round
          QueueCapacity,     \* mpsc::channel(100)
          DebugBuild,        \* a build that panics on overflow
          MaxSlot,           \* bound: the last slot
          MaxSends           \* bound: observations sent to this worker

ASSUME ConstAssumption ==
  /\ Price \subseteq I64
  /\ RoundLength \in Nat \ {0}
  /\ QuorumThreshold \in Nat \ {0}
  /\ QueueCapacity \in Nat \ {0}
  /\ DebugBuild \in BOOLEAN
  /\ MaxSlot \in Nat
  /\ MaxSends \in Nat

VARIABLES
  current_slot,     \* the slot in the time watch: a worker starts after the first
  time_changed,     \* the watch holds a value this worker has not seen
  channels,         \* the registered channels in the channel watch
  queue,            \* price_obs_rx: (channel, observation) pairs in flight
  sender_open,      \* some sender of the queue is alive
  phase,            \* "select", "publishing" or "exited"
  current_round,
  current_round_observations,
  active_round,     \* the round the branch in progress opens
  sent,             \* observations sent so far, which number them
  accepted,         \* history: every observation counted, with its round
  attested,         \* history: the AttestedPrices given to publish_attested_price
  published         \* history: those whose publication succeeded

inputs   == <<current_slot, channels, sender_open>>
round    == <<current_round, current_round_observations, active_round>>
history  == <<accepted, attested, published>>
vars == <<inputs, time_changed, queue, phase, round, sent, history>>

Observation ==
  [id : 1 .. MaxSends, channel : Channel, price : Price, decimals : Decimal]

AttestedPrice ==
  [round : Nat, price : I64, valid_count : Nat, observations : SUBSET Observation]

SetOf(s) == {s[i] : i \in DOMAIN s}

(* Mutant: the number of the last round that is over. *)
Round_Over(slot) == slot \div RoundLength - 1

Round(slot) == slot \div RoundLength

Prices == [i \in DOMAIN current_round_observations |->
             current_round_observations[i].price]

InvalidDecimals == \E i \in DOMAIN current_round_observations :
                     current_round_observations[i].decimals # ObservationDecimal

(* Mutant: one observation more than the quorum. *)
Quorate_OneMore == Len(current_round_observations) > QuorumThreshold

Quorate == Len(current_round_observations) >= QuorumThreshold

Attestation ==
  [ round        |-> current_round,
    price        |-> compute_median(Prices),
    valid_count  |-> Len(current_round_observations),
    observations |-> SetOf(current_round_observations) ]
-----------------------------------------------------------------------------
(* A worker is spawned while the coordinator handles an observation; its   *)
(* watch receiver is a clone that may or may not have seen the last value. *)
Init ==
  /\ current_slot \in 0 .. MaxSlot
  /\ time_changed \in BOOLEAN
  /\ channels \in SUBSET Channel
  /\ queue = <<>>
  /\ sender_open = TRUE
  /\ phase = "select"
  /\ current_round = Round(current_slot)
  /\ current_round_observations = <<>>
  /\ active_round = current_round
  /\ sent = 0
  /\ accepted = {} /\ attested = <<>> /\ published = {}

-----------------------------------------------------------------------------
(* The branch of time_rx.changed().                                        *)

TakeTick == /\ phase = "select" /\ time_changed
            /\ time_changed' = FALSE

(* Mutant: every tick closes the round in progress. *)
NewRound_EveryTick == Round(current_slot) >= current_round

NewRound == Round(current_slot) > current_round

(* Mutant: the vector is not cleared. *)
ResetTo_NoClear(r) == /\ UNCHANGED current_round_observations
                      /\ current_round' = r

ResetTo(r) == /\ current_round_observations' = <<>>
              /\ current_round' = r

TickSameRound ==
  /\ TakeTick /\ ~NewRound
  /\ UNCHANGED <<inputs, queue, phase, round, sent, history>>

(* Mutant: a round that missed its quorum is left open. *)
TickMissedQuorum_NoReset ==
  /\ TakeTick /\ NewRound /\ ~Quorate
  /\ UNCHANGED <<inputs, queue, phase, round, sent, history>>

TickMissedQuorum ==
  /\ TakeTick /\ NewRound /\ ~Quorate
  /\ ResetTo(Round(current_slot))
  /\ active_round' = Round(current_slot)
  /\ UNCHANGED <<inputs, queue, phase, sent, history>>

(* "skipping them": the branch is left before the round is reset. *)
TickInvalidDecimals ==
  /\ TakeTick /\ NewRound /\ Quorate /\ InvalidDecimals
  /\ UNCHANGED <<inputs, queue, phase, round, sent, history>>

(* A debug build panics in compute_median: the task ends, its queue with it. *)
TickMedianPanics ==
  /\ TakeTick /\ NewRound /\ Quorate /\ ~InvalidDecimals
  /\ DebugBuild /\ Overflows(Prices)
  /\ phase' = "exited"
  /\ queue' = <<>>
  /\ UNCHANGED <<inputs, round, sent, history>>

TickPublish ==
  /\ TakeTick /\ NewRound /\ Quorate /\ ~InvalidDecimals
  /\ ~(DebugBuild /\ Overflows(Prices))
  /\ phase' = "publishing"
  /\ active_round' = Round(current_slot)
  /\ attested' = Append(attested, Attestation)
  /\ UNCHANGED <<inputs, queue, current_round, current_round_observations,
                 sent, accepted, published>>

OnTick == \/ TickSameRound \/ TickMissedQuorum \/ TickInvalidDecimals
          \/ TickMedianPanics \/ TickPublish

(* Mutant: a failed publication continues the loop before the reset. *)
PublishReturns_NoReset ==
  /\ phase = "publishing"
  /\ phase' = "select"
  /\ \/ UNCHANGED <<published, current_round, current_round_observations>>
     \/ /\ attested[Len(attested)].price >= 0
        /\ published' = published \cup {attested[Len(attested)]}
        /\ ResetTo(active_round)
  /\ UNCHANGED <<inputs, time_changed, queue, active_round, sent, accepted, attested>>

(* publish_attested_price returns.  A negative price fails its conversion  *)
(* to u64; an error is only logged.                                        *)
PublishReturns ==
  /\ phase = "publishing"
  /\ phase' = "select"
  /\ \/ UNCHANGED published
     \/ /\ attested[Len(attested)].price >= 0
        /\ published' = published \cup {attested[Len(attested)]}
  /\ ResetTo(active_round)
  /\ UNCHANGED <<inputs, time_changed, queue, active_round, sent, accepted, attested>>
-----------------------------------------------------------------------------
(* The branch of price_obs_rx.recv().                                      *)

Receive(obs) ==
  IF obs.channel \in channels
    THEN /\ current_round_observations' = Append(current_round_observations, obs)
         /\ accepted' = accepted \cup {[obs |-> obs, round |-> current_round]}
    ELSE UNCHANGED <<current_round_observations, accepted>>

(* Mutant: observations are received by a task of their own, also during a *)
(* publication.                                                            *)
OnReceive_Concurrent ==
  /\ phase # "exited" /\ queue # <<>>
  /\ Receive(Head(queue))
  /\ queue' = Tail(queue)
  /\ UNCHANGED <<inputs, time_changed, phase, current_round, active_round,
                 sent, attested, published>>

(* Mutant: select! is biased towards the time branch. *)
OnReceive_Biased ==
  /\ phase = "select" /\ queue # <<>> /\ ~time_changed
  /\ Receive(Head(queue))
  /\ queue' = Tail(queue)
  /\ UNCHANGED <<inputs, time_changed, phase, current_round, active_round,
                 sent, attested, published>>

OnReceive ==
  /\ phase = "select" /\ queue # <<>>
  /\ Receive(Head(queue))
  /\ queue' = Tail(queue)
  /\ UNCHANGED <<inputs, time_changed, phase, current_round, active_round,
                 sent, attested, published>>

(* The queue is empty and every sender is gone. *)
OnClosed ==
  /\ phase = "select" /\ queue = <<>> /\ ~sender_open
  /\ phase' = "exited"
  /\ UNCHANGED <<inputs, time_changed, queue, round, sent, history>>

(* idle_timeout: ten minutes without an observation and, as the timeout is *)
(* made anew after every branch, without a tick; the node is unreachable.  *)
OnIdle ==
  /\ phase = "select" /\ queue = <<>> /\ ~time_changed
  /\ phase' = "exited"
  /\ UNCHANGED <<inputs, time_changed, queue, round, sent, history>>
-----------------------------------------------------------------------------
(* The other tasks: the time poller, channel discovery, the coordinator.   *)

TimePoll ==
  /\ \E s \in current_slot .. MaxSlot : current_slot' = s
  /\ time_changed' = TRUE
  /\ UNCHANGED <<channels, sender_open, queue, phase, round, sent, history>>

DiscoverChannels ==
  /\ \E cs \in SUBSET Channel : channels' = cs
  /\ UNCHANGED <<current_slot, sender_open, time_changed, queue, phase, round, sent, history>>

Send ==
  /\ phase # "exited" /\ sender_open
  /\ sent < MaxSends /\ Len(queue) < QueueCapacity
  /\ sent' = sent + 1
  /\ \E c \in Channel, p \in Price, d \in Decimal :
       queue' = Append(queue, [id |-> sent', channel |-> c, price |-> p, decimals |-> d])
  /\ UNCHANGED <<inputs, time_changed, phase, round, history>>

DropSender ==
  /\ sender_open
  /\ sender_open' = FALSE
  /\ UNCHANGED <<current_slot, channels, time_changed, queue, phase, round, sent, history>>
-----------------------------------------------------------------------------
Worker == OnTick \/ PublishReturns \/ OnReceive \/ OnClosed \/ OnIdle

Environment == TimePoll \/ DiscoverChannels \/ Send \/ DropSender

Next == Worker \/ Environment

Spec == Init /\ [][Next]_vars

(* The runtime polls a task whose branch is ready, select! picks among the *)
(* ready branches at random, and a publication ends, if only with an error.*)
Fairness == /\ WF_vars(OnTick)
            /\ WF_vars(OnReceive)
            /\ WF_vars(PublishReturns)

FairSpec == Spec /\ Fairness
-----------------------------------------------------------------------------
(* Properties *)

TypeOK ==
  /\ current_slot \in 0 .. MaxSlot
  /\ time_changed \in BOOLEAN
  /\ channels \subseteq Channel
  /\ queue \in Seq(Observation)
  /\ sender_open \in BOOLEAN
  /\ phase \in {"select", "publishing", "exited"}
  /\ current_round \in Nat
  /\ current_round_observations \in Seq(Observation)
  /\ active_round \in Nat
  /\ sent \in 0 .. MaxSends
  /\ accepted \subseteq [obs : Observation, round : Nat]
  /\ attested \in Seq(AttestedPrice)
  /\ published \subseteq AttestedPrice

(* No delivered observation counts towards two attestations, though        *)
(* observations keep arriving while a publication is awaited.              *)
CountedOnce ==
  \A i, j \in DOMAIN attested :
    i # j => attested[i].observations \cap attested[j].observations = {}

(* A round is attested only after its last slot: a round in progress is    *)
(* never closed early, and rounds are attested in order, each at most once.*)
AttestedInOrder ==
  /\ \A i \in DOMAIN attested :
       (attested[i].round + 1) * RoundLength <= current_slot
  /\ \A i, j \in DOMAIN attested : i < j => attested[i].round < attested[j].round

CountedIn(r) == {a.obs : a \in {b \in accepted : b.round = r}}

(* A round the worker has left is settled by the observations it counted   *)
(* for it, all of them and no others: one attestation if they reach the    *)
(* quorum, none if they do not.                                            *)
ClosedRoundSettled ==
  \A r \in 0 .. current_round - 1 :
    LET a == {i \in DOMAIN attested : attested[i].round = r}
    IN  IF Cardinality(CountedIn(r)) >= QuorumThreshold
          THEN /\ Cardinality(a) = 1
               /\ \A i \in a : /\ attested[i].observations = CountedIn(r)
                               /\ attested[i].valid_count = Cardinality(CountedIn(r))
          ELSE a = {}

(* The worker's round is behind the clock's only while there is something  *)
(* that will move it: an unseen tick or a publication in progress.         *)
(* Otherwise observations would be counted towards a round long over.  The *)
(* exception is a quorate round that holds an observation with decimals of *)
(* its own: no tick ends it.                                               *)
LagsOnlyWhilePending ==
  Round(current_slot) > current_round =>
    \/ time_changed \/ phase \in {"publishing", "exited"}
    \/ Quorate /\ InvalidDecimals

(* Every observation that was counted for a round that is over is settled  *)
(* with it, unless the worker ends first.                                  *)
Settles(id) ==
  (\E a \in accepted : a.obs.id = id /\ Round(current_slot) > a.round)
    ~> (\/ phase = "exited"
        \/ \A i \in DOMAIN current_round_observations :
             current_round_observations[i].id # id)

CountedObservationsSettle == \A id \in 1 .. MaxSends : Settles(id)

(* The reset that closes a round loses no observation received after the   *)
(* round was computed: what leaves the vector is what was attested or what *)
(* missed the quorum.                                                      *)
OnlySettledLeave ==
  [][ \A o \in SetOf(current_round_observations) \ SetOf(current_round_observations') :
        \/ \E i \in DOMAIN attested : o \in attested[i].observations
        \/ Len(current_round_observations) < QuorumThreshold ]_vars

(* The worker implements the abstract feed: while it awaits a publication  *)
(* the round is closed already and the vector it will clear is spent.      *)
FeedRound == IF phase = "publishing" THEN active_round ELSE current_round

FeedPool == IF phase = "publishing" THEN {} ELSE SetOf(current_round_observations)

Feed == INSTANCE AttestedFeed WITH
          Quorum <- QuorumThreshold,
          round  <- FeedRound,
          pool   <- FeedPool,
          log    <- attested

ImplementsFeed == Feed!Spec

(* The worker is what the coordinator takes it for (module Indexer): ticks *)
(* and channel changes never touch its queue, no observation is taken out  *)
(* while a publication is awaited, nothing is dropped before it exits.     *)
TaskState == IF phase = "select" THEN "receiving" ELSE phase

Task == INSTANCE FeedWorkerTask WITH Message <- Observation, state <- TaskState

ImplementsTask == Task!Spec

(* Back-pressure is released, as Indexer assumes it is: the coordinator,   *)
(* which waits for a place in a full queue and serves no other feed        *)
(* meanwhile, gets one, although ticks and publications compete with it.   *)
ServesItsQueue == Task!Serves

(* PriceFeedWorkerConfig: "quorum_threshold: usize, // e.g. N active       *)
(* oracles required": an attested round counts that many oracles.          *)
QuorumOfOracles ==
  \A i \in DOMAIN attested :
    Cardinality({o.channel : o \in attested[i].observations}) >= QuorumThreshold
=============================================================================
