--------------------------- MODULE PricePublisher ---------------------------
(***************************************************************************)
(* The process of an oracle node once it is registered: the tasks that     *)
(* oracle_node/sequencer/src/main.rs starts.                               *)
(*   - a fetch task (module PriceFetch) sends the provider's prices to an   *)
(*     unbounded queue;                                                    *)
(*   - the price monitor (monitor.rs) keeps the feed's newest prices in a  *)
(*     map shared with                                                     *)
(*   - the publisher (sequencer.rs), which takes them all, publishes the   *)
(*     last one under the next round, and waits for its interval;          *)
(*   - the event loop of the zone sequencer, which saves checkpoints.      *)
(* The publisher is spawned apart from the others: it is not in the        *)
(* JoinSet whose first result ends run().  Where it finds no price it      *)
(* loops without an await; it is then "taking" and takes no step.          *)
(*                                                                         *)
(* Prices are numbered in the order the provider quotes them.              *)
(***************************************************************************)
EXTENDS PriceFetch, SequencesExt

CONSTANTS MaxVecSize,    \* MAX_VEC_SIZE_PER_FEED_ID
          FirstRound,    \* 1000, the round before the first
          MaxQuotes,     \* bound: prices quoted
          MaxOwed,       \* bound: minutes the interval is behind
          MaxBlocks,     \* bound: BlocksProcessed events
          MaxLives       \* bound: starts of the process

ASSUME PublisherAssumption ==
  /\ MaxVecSize \in Nat \ {0} /\ FirstRound \in Nat
  /\ MaxQuotes \in Nat /\ MaxOwed \in Nat /\ MaxBlocks \in Nat /\ MaxLives \in Nat

VARIABLES
  phase,           \* of the process: "down", "running", "leaving"
  lives,           \* starts so far
  quoted,          \* prices quoted so far
  updates,         \* the unbounded queue of the price monitor
  feed_known,      \* price_map has an entry for the feed
  prices,          \* the entry
  stored,          \* history: the last price the monitor has stored in this life
  pc,              \* the publisher: "taking", "publishing", "waiting"
  round,
  due,             \* minutes until the interval's next tick; it is owed if <= 0
  log,             \* history: every observation made, with its outcome
  checkpoint,      \* the last block the zone sequencer has processed
  checkpoint_file

monitor   == <<updates, feed_known, prices, stored>>
publisher == <<pc, round, due, log>>
disk      == <<checkpoint, checkpoint_file>>
vars == <<phase, lives, provider, fetch, quoted, monitor, publisher, disk>>

Outcome == {"unsigned", "pending", "failed", "sent"}

Made == [price : 1 .. MaxQuotes, round : Nat, life : 1 .. MaxLives, outcome : Outcome]

NoBlock == 0

Init ==
  /\ phase = "down" /\ lives = 0 /\ quoted = 0
  /\ FetchInit
  /\ updates = <<>> /\ feed_known = FALSE /\ prices = <<>> /\ stored = 0
  /\ pc = "taking" /\ round = FirstRound
  /\ due = 0 /\ log = <<>>
  /\ checkpoint = NoBlock /\ checkpoint_file = NoBlock
-----------------------------------------------------------------------------
(* The process.                                                            *)

(* What a process starts with: the queue and the map are new, the round    *)
(* counts from its start, the zone sequencer is given no checkpoint, and   *)
(* the interval's first tick is immediate.  The variables of a process     *)
(* that has ended are set to what the next one starts with.                *)
MemoryStarts ==
  /\ FetchStarts
  /\ updates' = <<>> /\ feed_known' = FALSE /\ prices' = <<>> /\ stored' = 0
  /\ pc' = "taking" /\ round' = FirstRound /\ due' = 0
  /\ checkpoint' = NoBlock

Boot ==
  /\ phase = "down" /\ lives < MaxLives
  /\ phase' = "running" /\ lives' = lives + 1
  /\ UNCHANGED <<provider, fetch, quoted, monitor, publisher, disk>>

Crash ==
  /\ phase # "down"
  /\ phase' = "down"
  /\ MemoryStarts
  /\ UNCHANGED <<lives, provider, quoted, log, checkpoint_file>>

(* A task of the JoinSet returns: run() logs "Aborting...", drops the set  *)
(* and returns, and the runtime starts to shut down.                       *)
TaskEnds ==
  /\ phase = "running"
  /\ phase' = "leaving"
  /\ UNCHANGED <<lives, provider, fetch, quoted, monitor, publisher, disk>>

(* Mutant: the shutdown waits for the monitor to empty its queue. *)
RuntimeIsDown_Drains ==
  /\ phase = "leaving" /\ pc # "taking" /\ updates = <<>>
  /\ phase' = "down"
  /\ MemoryStarts
  /\ UNCHANGED <<lives, provider, quoted, log, checkpoint_file>>

(* The runtime drops a task where it awaits, and waits until it does. *)
RuntimeIsDown ==
  /\ phase = "leaving" /\ pc # "taking"
  /\ phase' = "down"
  /\ MemoryStarts
  /\ UNCHANGED <<lives, provider, quoted, log, checkpoint_file>>
-----------------------------------------------------------------------------
(* The fetch task and the price monitor.                                   *)

FetchNothing ==
  /\ phase = "running" /\ SendsNothing
  /\ UNCHANGED <<phase, lives, provider, quoted, monitor, publisher, disk>>

Quote ==
  /\ phase = "running" /\ quoted < MaxQuotes
  /\ Sends
  /\ quoted' = quoted + 1
  /\ updates' = Append(updates, quoted')
  /\ UNCHANGED <<phase, lives, provider, feed_known, prices, stored, publisher, disk>>

(* Mutant: the newest price gives way. *)
Kept_Oldest == IF Len(prices) > MaxVecSize THEN Front(prices) ELSE prices

Kept == IF Len(prices) > MaxVecSize THEN Tail(prices) ELSE prices

(* In a process that leaves, the monitor may still finish what it does. *)
StorePrice ==
  /\ phase # "down" /\ updates # <<>>
  /\ updates' = Tail(updates)
  /\ feed_known' = TRUE
  /\ prices' = IF feed_known THEN Append(Kept, Head(updates)) ELSE <<Head(updates)>>
  /\ stored' = Head(updates)
  /\ UNCHANGED <<phase, lives, provider, fetch, quoted, publisher, disk>>
-----------------------------------------------------------------------------
(* The publisher.                                                          *)

(* Mutant: the first of the prices taken is published. *)
Observed_Oldest(outcome) ==
  [price |-> Head(prices), round |-> round', life |-> lives, outcome |-> outcome]

Observed(outcome) ==
  [price |-> Last(prices), round |-> round', life |-> lives, outcome |-> outcome]

(* Mutant: the prices are cloned and stay in the map. *)
TakePrices_Clone ==
  /\ phase # "down" /\ pc = "taking"
  /\ feed_known /\ prices # <<>>
  /\ round' = round + 1
  /\ log' = Append(log, Observed("pending"))
  /\ pc' = "publishing"
  /\ UNCHANGED <<phase, lives, provider, fetch, quoted, updates, feed_known, prices, stored, due, disk>>

(* mem::take leaves an empty deque; all prices but the last are dropped.   *)
(* Without a signature the loop starts anew, else publish is called.       *)
TakePrices ==
  /\ phase # "down" /\ pc = "taking"
  /\ feed_known /\ prices # <<>>
  /\ prices' = <<>>
  /\ round' = round + 1
  /\ \/ /\ log' = Append(log, Observed("unsigned"))
        /\ UNCHANGED pc
     \/ /\ log' = Append(log, Observed("pending"))
        /\ pc' = "publishing"
  /\ UNCHANGED <<phase, lives, provider, fetch, quoted, updates, feed_known, stored, due, disk>>

(* publish returns; an error is only logged. *)
PublishReturns ==
  /\ phase # "down" /\ pc = "publishing"
  /\ pc' = "waiting"
  /\ \E outcome \in {"failed", "sent"} : log' = [log EXCEPT ![Len(log)].outcome = outcome]
  /\ UNCHANGED <<phase, lives, provider, fetch, quoted, monitor, round, due, disk>>

(* Mutant: the tick is not awaited. *)
IntervalTick_NotAwaited ==
  /\ phase # "down" /\ pc = "waiting"
  /\ pc' = "taking"
  /\ due' = due + 1
  /\ UNCHANGED <<phase, lives, provider, fetch, quoted, monitor, round, log, disk>>

(* A tick that is owed is immediate: the interval bursts to catch up. *)
IntervalTick ==
  /\ phase # "down" /\ pc = "waiting" /\ due <= 0
  /\ pc' = "taking"
  /\ due' = due + 1
  /\ UNCHANGED <<phase, lives, provider, fetch, quoted, monitor, round, log, disk>>

MinutePasses ==
  /\ phase # "down" /\ due > -MaxOwed
  /\ due' = due - 1
  /\ UNCHANGED <<phase, lives, provider, fetch, quoted, monitor, pc, round, log, disk>>
-----------------------------------------------------------------------------
(* The event loop: each batch of blocks is followed by save_checkpoint,    *)
(* whose failure ends the task.                                            *)
BlocksProcessed ==
  /\ phase = "running" /\ checkpoint < MaxBlocks
  /\ \E block \in checkpoint + 1 .. MaxBlocks :
       /\ checkpoint' = block
       /\ \/ checkpoint_file' = block /\ UNCHANGED phase
          \/ phase' = "leaving" /\ UNCHANGED checkpoint_file
  /\ UNCHANGED <<lives, provider, fetch, quoted, monitor, publisher>>
-----------------------------------------------------------------------------
Publisher == TakePrices \/ PublishReturns \/ IntervalTick

Next == \/ Boot \/ Crash \/ TaskEnds \/ RuntimeIsDown
        \/ FetchNothing \/ Quote \/ StorePrice
        \/ Publisher \/ MinutePasses
        \/ BlocksProcessed

Spec == Init /\ [][Next]_vars

(* The runtime has a worker thread besides the one a looping publisher     *)
(* occupies; publish returns, if only with an error; and time passes.  In  *)
(* a process that leaves, a task that awaits may not be polled again; only *)
(* a publisher that loops is sure to go on.                                *)
Fairness == /\ WF_vars(phase = "running" /\ StorePrice)
            /\ WF_vars(TakePrices)
            /\ WF_vars(phase = "running" /\ (PublishReturns \/ IntervalTick))
            /\ WF_vars(MinutePasses)
            /\ WF_vars(RuntimeIsDown)
            /\ WF_vars(FetchNothing /\ (PollAgain \/ WakeUp))

(* Asked again and again, the provider is in the end reached and quotes.   *)
ProviderReturns == SF_vars(FetchNothing /\ StreamOpens) /\ SF_vars(Quote)

FairSpec == Spec /\ Fairness /\ ProviderReturns
-----------------------------------------------------------------------------
(* Properties *)

TypeOK ==
  /\ FetchTypeOK
  /\ phase \in {"down", "running", "leaving"}
  /\ lives \in 0 .. MaxLives /\ quoted \in 0 .. MaxQuotes /\ stored \in 0 .. MaxQuotes
  /\ updates \in Seq(1 .. MaxQuotes) /\ prices \in Seq(1 .. MaxQuotes)
  /\ feed_known \in BOOLEAN
  /\ pc \in {"taking", "publishing", "waiting"}
  /\ round \in Nat /\ due \in -MaxOwed .. 1
  /\ log \in Seq(Made)
  /\ checkpoint \in 0 .. MaxBlocks /\ checkpoint_file \in 0 .. MaxBlocks

(* However the monitor and the publisher interleave, the shared deque is a *)
(* run of consecutive prices that ends with the newest stored, older ones  *)
(* give way first, and it is bounded: by MAX_VEC_SIZE_PER_FEED_ID and one, *)
(* as the length is compared before the push.                              *)
BacklogIsNewest ==
  /\ Len(prices) <= MaxVecSize + 1
  /\ \A i \in DOMAIN prices : prices[i] = stored - (Len(prices) - i)

(* No price is published twice and none after a newer one, also over       *)
(* restarts; within a life of the process rounds ascend with the prices.   *)
PricesAscend ==
  \A i, j \in DOMAIN log :
    i < j => /\ log[i].price < log[j].price
             /\ (log[i].life = log[j].life => log[i].round < log[j].round)

(* While the process runs, every price on its way to the publisher is made *)
(* into an observation or superseded by a newer one that is: none stays    *)
(* behind in the queue or the deque because of the wait for the interval,  *)
(* a failed publication or a failed signature.                             *)
EveryPriceSuperseded ==
  \A p \in 1 .. MaxQuotes :
    (p \in Range(updates) \cup Range(prices))
      ~> (phase # "running" \/ \E i \in DOMAIN log : log[i].price >= p)

(* No outage of the provider is for good: however often and for however    *)
(* long connections fail, and whatever the delay has grown to, a process   *)
(* that runs on makes an observation of a newer price.  What ends it is a  *)
(* provider that neither answers nor fails.                                *)
ObservationsResume ==
  \A n \in 0 .. MaxQuotes - 1 :
    (phase = "running" /\ quoted = n)
      ~> (phase # "running" \/ stalled \/ \E i \in DOMAIN log : log[i].price > n)

(* A process one of whose tasks has ended ends itself, so that it can be   *)
(* started again, but for one case: a publisher that has no price to take  *)
(* never awaits again, and the runtime waits for it.                       *)
LeavingEnds ==
  (phase = "leaving") ~> (phase = "down" \/ (pc = "taking" /\ prices = <<>>))
=============================================================================
