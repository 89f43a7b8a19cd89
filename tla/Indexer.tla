------------------------------ MODULE Indexer ------------------------------
(***************************************************************************)
(* Indexer::run and channel_worker of oracle_node/indexer/src/indexer.rs.  *)
(*                                                                         *)
(* The coordinator keeps one channel_worker task per registered channel    *)
(* and one price feed worker per feed id it has met.  Channel workers send *)
(* to the coordinator through an unbounded queue; the coordinator forwards *)
(* to the feed's worker through a bounded one, and while that is full it   *)
(* does nothing else.  A feed worker is reduced to what the coordinator    *)
(* can see of it: whether it receives, publishes or has exited (module     *)
(* PriceFeedWorker says why).                                              *)
(***************************************************************************)
EXTENDS Integers, SequencesExt

CONSTANTS Channel,        \* oracle channels
          Feed,           \* feed ids
          QueueCapacity,  \* mpsc::channel(100)
          MaxSlot,        \* bound: the last slot
          MaxSends,       \* bound: observations sent by the channel workers
          MaxWorkers      \* bound: feed workers ever spawned

ASSUME ConstAssumption ==
  /\ IsFiniteSet(Channel)
  /\ QueueCapacity \in Nat \ {0}
  /\ MaxSlot \in Nat /\ MaxSends \in Nat /\ MaxWorkers \in Nat

VARIABLES
  current_slot,        \* the time watch; 0 stands also for "no TimeInfo yet"
  time_changed,        \* the coordinator has not seen the watch's last value
  channels,            \* the channel watch
  last_processed_slot,
  current_channels,
  active_workers,      \* channel -> index in tasks: the join handles
  tasks,               \* every channel_worker spawned so far
  rx,                  \* the coordinator's unbounded queue
  feed_workers,        \* feed -> index in workers: the senders
  workers,             \* every feed worker spawned so far
  pc,                  \* the coordinator: "select", "sending" or "retrying"
  hand,                \* the observation it is forwarding
  target,              \* the worker whose sender it uses
  sent,                \* observations sent so far, which number them
  handled,             \* history: feed -> what its workers received, in order
  lost                 \* history: observations dropped on the way

watches     == <<current_slot, channels>>
membership  == <<last_processed_slot, current_channels, active_workers>>
forwarding  == <<pc, hand, target>>
history     == <<handled, lost>>
vars == <<watches, time_changed, membership, tasks, rx, feed_workers, workers,
          forwarding, sent, history>>

Message == [id : 1 .. MaxSends, channel : Channel, feed : Feed]

(* "connecting": calling follow() or sleeping before it calls it again.    *)
Task == [channel : Channel, state : {"connecting", "following", "gone"}, aborted : BOOLEAN]

FeedWorker == [feed : Feed, state : {"receiving", "publishing", "exited"}, queue : Seq(Message)]

Ids(s) == {s[i].id : i \in DOMAIN s}

Init ==
  /\ current_slot = 0 /\ time_changed = FALSE
  /\ channels = {}
  /\ last_processed_slot = 0
  /\ current_channels = {}
  /\ active_workers = <<>>
  /\ tasks = <<>>
  /\ rx = <<>>
  /\ feed_workers = <<>>
  /\ workers = <<>>
  /\ pc = "select" /\ hand = <<>> /\ target = 0
  /\ sent = 0
  /\ handled = [f \in Feed |-> <<>>] /\ lost = {}
-----------------------------------------------------------------------------
(* The coordinator's time branch.  Channels are compared only when a slot  *)
(* passes: new ones get a task, the tasks of old ones are aborted.         *)

NewTasks(order) ==
  [i \in DOMAIN order |-> [channel |-> order[i], state |-> "connecting", aborted |-> FALSE]]

(* Mutant: the handles of old channels are aborted but not removed. *)
UpdateChannels_KeepsHandles ==
  LET new == channels \ current_channels
      old == current_channels \ channels
  IN  /\ \E order \in SetToSeqs(new) :
           LET all   == tasks \o NewTasks(order)
               fresh == Len(tasks) + 1 .. Len(all)
           IN  /\ tasks' = [t \in DOMAIN all |->
                     [all[t] EXCEPT !.aborted = @ \/ \E c \in old : active_workers[c] = t]]
               /\ active_workers' = [c \in channels \cup DOMAIN active_workers |->
                     IF c \in new THEN CHOOSE t \in fresh : all[t].channel = c
                     ELSE active_workers[c]]
      /\ current_channels' = channels

(* Mutant: the handles of old channels are removed but not aborted. *)
UpdateChannels_NoAbort ==
  LET new == channels \ current_channels
  IN  /\ \E order \in SetToSeqs(new) :
           LET all   == tasks \o NewTasks(order)
               fresh == Len(tasks) + 1 .. Len(all)
           IN  /\ tasks' = all
               /\ active_workers' = [c \in channels |->
                     IF c \in new THEN CHOOSE t \in fresh : all[t].channel = c
                     ELSE active_workers[c]]
      /\ current_channels' = channels

UpdateChannels ==
  LET new == channels \ current_channels
      old == current_channels \ channels
  IN  /\ \E order \in SetToSeqs(new) :   \* a HashSet's order is arbitrary
           LET all   == tasks \o NewTasks(order)
               fresh == Len(tasks) + 1 .. Len(all)
           IN  /\ tasks' = [t \in DOMAIN all |->
                     [all[t] EXCEPT !.aborted = @ \/ \E c \in old : active_workers[c] = t]]
               /\ active_workers' = [c \in channels |->
                     IF c \in new THEN CHOOSE t \in fresh : all[t].channel = c
                     ELSE active_workers[c]]
      /\ current_channels' = channels

(* Mutant: every other slot is skipped. *)
OnTick_OffByOne ==
  /\ pc = "select" /\ time_changed
  /\ time_changed' = FALSE
  /\ \/ /\ current_slot > last_processed_slot + 1
        /\ last_processed_slot' = current_slot
        /\ UpdateChannels
     \/ /\ ~(current_slot > last_processed_slot + 1)
        /\ UNCHANGED <<membership, tasks>>
  /\ UNCHANGED <<watches, rx, feed_workers, workers, forwarding, sent, history>>

OnTick ==
  /\ pc = "select" /\ time_changed
  /\ time_changed' = FALSE
  /\ \/ /\ current_slot > last_processed_slot
        /\ last_processed_slot' = current_slot
        /\ UpdateChannels
     \/ /\ ~(current_slot > last_processed_slot)
        /\ UNCHANGED <<membership, tasks>>
  /\ UNCHANGED <<watches, rx, feed_workers, workers, forwarding, sent, history>>
-----------------------------------------------------------------------------
(* The coordinator's queue branch.                                         *)

Spawned(feed) == Append(workers, [feed |-> feed, state |-> "receiving", queue |-> <<>>])

(* Mutant: the observation is read but stays in the queue. *)
TakeObservation_Peek ==
  /\ pc = "select" /\ rx # <<>>
  /\ rx' = rx
  /\ hand' = <<Head(rx)>>
  /\ pc' = "sending"

TakeObservation ==
  /\ pc = "select" /\ rx # <<>>
  /\ rx' = Tail(rx)
  /\ hand' = <<Head(rx)>>
  /\ pc' = "sending"

OnKnownFeed ==
  /\ TakeObservation
  /\ Head(rx).feed \in DOMAIN feed_workers
  /\ target' = feed_workers[Head(rx).feed]
  /\ UNCHANGED <<watches, time_changed, membership, tasks, feed_workers, workers, sent, history>>

OnNewFeed ==
  /\ TakeObservation
  /\ Head(rx).feed \notin DOMAIN feed_workers
  /\ Len(workers) < MaxWorkers
  /\ workers' = Spawned(Head(rx).feed)
  /\ target' = Len(workers')
  /\ feed_workers' = [f \in DOMAIN feed_workers \cup {Head(rx).feed} |->
                        IF f = Head(rx).feed THEN target' ELSE feed_workers[f]]
  /\ UNCHANGED <<watches, time_changed, membership, tasks, sent, history>>

(* Mutant: try_send, which gives up on a full queue. *)
SendToWorker_Try ==
  /\ pc = "sending"
  /\ workers[target].state # "exited"
  /\ workers' = IF Len(workers[target].queue) < QueueCapacity
                  THEN [workers EXCEPT ![target].queue = Append(@, hand[1])]
                  ELSE workers
  /\ pc' = "select" /\ hand' = <<>> /\ target' = 0
  /\ UNCHANGED <<watches, time_changed, membership, tasks, rx, feed_workers, sent, history>>

(* Mutant: a failed send is retried by a task of its own, so that others   *)
(* overtake it.                                                            *)
SendToWorker_Detached ==
  /\ pc = "sending"
  /\ workers[target].state # "exited"
  /\ \E back \in 0 .. Len(workers[target].queue) :
       workers' = [workers EXCEPT ![target].queue = InsertAt(@, back + 1, hand[1])]
  /\ pc' = "select" /\ hand' = <<>> /\ target' = 0
  /\ UNCHANGED <<watches, time_changed, membership, tasks, rx, feed_workers, sent, history>>

(* Mutant: an exited worker is not told from one that receives. *)
SendToWorker_Exited ==
  /\ pc = "sending"
  /\ Len(workers[target].queue) < QueueCapacity
  /\ workers' = [workers EXCEPT ![target].queue = Append(@, hand[1])]
  /\ pc' = "select" /\ hand' = <<>> /\ target' = 0
  /\ UNCHANGED <<watches, time_changed, membership, tasks, rx, feed_workers, sent, history>>

(* tx.send(..).await waits until the queue has a place. *)
SendToWorker ==
  /\ pc = "sending"
  /\ workers[target].state # "exited"
  /\ Len(workers[target].queue) < QueueCapacity
  /\ workers' = [workers EXCEPT ![target].queue = Append(@, hand[1])]
  /\ pc' = "select" /\ hand' = <<>> /\ target' = 0
  /\ UNCHANGED <<watches, time_changed, membership, tasks, rx, feed_workers, sent, history>>

(* The send fails on a worker that has exited.  A worker is spawned with a *)
(* queue of its own, but what is inserted is tx, the sender that failed.   *)
RespawnWorker ==
  /\ pc = "sending"
  /\ workers[target].state = "exited"
  /\ Len(workers) < MaxWorkers
  /\ workers' = Spawned(hand[1].feed)
  /\ feed_workers' = [feed_workers EXCEPT ![hand[1].feed] = target]
  /\ pc' = "retrying"
  /\ UNCHANGED <<watches, time_changed, membership, tasks, rx, hand, target, sent, history>>

(* Mutant: the retry is repeated until it succeeds. *)
RetrySend_UntilSent == pc = "retrying" /\ UNCHANGED vars

(* The retry fails as well and its error is ignored; the only sender of    *)
(* the new worker's queue is dropped with the block.                       *)
RetrySend ==
  /\ pc = "retrying"
  /\ lost' = lost \cup {hand[1].id}
  /\ pc' = "select" /\ hand' = <<>> /\ target' = 0
  /\ UNCHANGED <<watches, time_changed, membership, tasks, rx, feed_workers, workers, sent, handled>>

OnObservation == OnKnownFeed \/ OnNewFeed
-----------------------------------------------------------------------------
(* Channel workers.  abort() takes effect at the task's next await: until  *)
(* then an aborted task runs on.                                           *)

Connect(t) ==
  /\ tasks[t].state = "connecting"
  /\ tasks' = [tasks EXCEPT ![t].state = "following"]
  /\ UNCHANGED <<watches, time_changed, membership, rx, feed_workers, workers, forwarding, sent, history>>

StreamEnds(t) ==
  /\ tasks[t].state = "following"
  /\ tasks' = [tasks EXCEPT ![t].state = "connecting"]
  /\ UNCHANGED <<watches, time_changed, membership, rx, feed_workers, workers, forwarding, sent, history>>

(* A zone block that decodes as a PriceObservation; others are skipped. *)
ObservationDecoded(t) ==
  /\ tasks[t].state = "following"
  /\ sent < MaxSends
  /\ sent' = sent + 1
  /\ \E f \in Feed : rx' = Append(rx, [id |-> sent', channel |-> tasks[t].channel, feed |-> f])
  /\ UNCHANGED <<watches, time_changed, membership, tasks, feed_workers, workers, forwarding, history>>

AbortTakesEffect(t) ==
  /\ tasks[t].aborted /\ tasks[t].state # "gone"
  /\ tasks' = [tasks EXCEPT ![t].state = "gone"]
  /\ UNCHANGED <<watches, time_changed, membership, rx, feed_workers, workers, forwarding, sent, history>>
-----------------------------------------------------------------------------
(* Feed workers, as far as the coordinator sees them.                      *)

WorkerReceives(w) ==
  /\ workers[w].state = "receiving" /\ workers[w].queue # <<>>
  /\ handled' = [handled EXCEPT ![workers[w].feed] = Append(@, Head(workers[w].queue).id)]
  /\ workers' = [workers EXCEPT ![w].queue = Tail(@)]
  /\ UNCHANGED <<watches, time_changed, membership, tasks, rx, feed_workers, forwarding, sent, lost>>

WorkerPublishes(w) ==
  /\ workers[w].state = "receiving"
  /\ workers' = [workers EXCEPT ![w].state = "publishing"]
  /\ UNCHANGED <<watches, time_changed, membership, tasks, rx, feed_workers, forwarding, sent, history>>

PublicationEnds(w) ==
  /\ workers[w].state = "publishing"
  /\ workers' = [workers EXCEPT ![w].state = "receiving"]
  /\ UNCHANGED <<watches, time_changed, membership, tasks, rx, feed_workers, forwarding, sent, history>>

(* Idle for ten minutes, no sender left, or a panic in compute_median,     *)
(* which drops what is still in the queue.                                 *)
WorkerExits(w) ==
  /\ workers[w].state = "receiving"
  /\ lost' = lost \cup Ids(workers[w].queue)
  /\ workers' = [workers EXCEPT ![w].state = "exited", ![w].queue = <<>>]
  /\ UNCHANGED <<watches, time_changed, membership, tasks, rx, feed_workers, forwarding, sent, handled>>
-----------------------------------------------------------------------------
TimePoll ==
  /\ \E s \in current_slot .. MaxSlot : current_slot' = s
  /\ time_changed' = TRUE
  /\ UNCHANGED <<channels, membership, tasks, rx, feed_workers, workers, forwarding, sent, history>>

(* channel_discover replaces the watched set by the registered channels. *)
DiscoverChannels ==
  /\ \E cs \in SUBSET Channel : channels' = cs
  /\ UNCHANGED <<current_slot, time_changed, membership, tasks, rx, feed_workers, workers,
                 forwarding, sent, history>>

Coordinator == OnTick \/ OnObservation \/ SendToWorker \/ RespawnWorker \/ RetrySend

ChannelWorker(t) == Connect(t) \/ StreamEnds(t) \/ ObservationDecoded(t) \/ AbortTakesEffect(t)

FeedWorkerStep(w) ==
  WorkerReceives(w) \/ WorkerPublishes(w) \/ PublicationEnds(w) \/ WorkerExits(w)

Next == \/ Coordinator
        \/ \E t \in DOMAIN tasks : ChannelWorker(t)
        \/ \E w \in DOMAIN workers : FeedWorkerStep(w)
        \/ TimePoll \/ DiscoverChannels

Spec == Init /\ [][Next]_vars

(* Tasks that can run are run; select! picks among its ready branches at   *)
(* random, so that a branch ready again and again is picked; publications  *)
(* end, if only with an error; an aborted task is dropped when it yields,  *)
(* at the latest when the socket it reads from makes it (UpdateChannels    *)
(* spawns at most one task for each channel and slot).                     *)
Fairness ==
  /\ SF_vars(OnTick)
  /\ WF_vars(OnObservation) /\ WF_vars(SendToWorker \/ RespawnWorker \/ RetrySend)
  /\ \A w \in 1 .. MaxWorkers :
       /\ SF_vars(w \in DOMAIN workers /\ WorkerReceives(w))
       /\ WF_vars(w \in DOMAIN workers /\ PublicationEnds(w))
  /\ \A t \in 1 .. Cardinality(Channel) * MaxSlot :
       WF_vars(t \in DOMAIN tasks /\ AbortTakesEffect(t))

FairSpec == Spec /\ Fairness
-----------------------------------------------------------------------------
(* Properties *)

TypeOK ==
  /\ current_slot \in 0 .. MaxSlot /\ last_processed_slot \in 0 .. MaxSlot
  /\ time_changed \in BOOLEAN
  /\ channels \subseteq Channel /\ current_channels \subseteq Channel
  /\ active_workers \in [current_channels -> DOMAIN tasks]
  /\ tasks \in Seq(Task)
  /\ rx \in Seq(Message)
  /\ workers \in Seq(FeedWorker)
  /\ DOMAIN feed_workers \subseteq Feed
  /\ feed_workers \in [DOMAIN feed_workers -> DOMAIN workers]
  /\ pc \in {"select", "sending", "retrying"}
  /\ hand \in Seq(Message) /\ Len(hand) = (IF pc = "select" THEN 0 ELSE 1)
  /\ target \in 0 .. Len(workers)
  /\ handled \in [Feed -> Seq(1 .. sent)] /\ lost \subseteq 1 .. sent

(* The join handles keep step with the registry although channels come and *)
(* go.  The handle of a channel the coordinator knows is its newest task   *)
(* and runs, not told to stop; every earlier task of that channel, and     *)
(* every task of a channel it no longer knows, was told to.  A leaked task *)
(* would count a channel's observations twice for good, or those of a      *)
(* channel no longer registered.  A task told to stop may still follow,    *)
(* also beside its successor: FollowersSettle says that this ends.         *)
HandlesInStep ==
  /\ \A c \in current_channels :
       LET h == active_workers[c]
       IN  /\ tasks[h].channel = c /\ ~tasks[h].aborted /\ tasks[h].state # "gone"
           /\ \A t \in DOMAIN tasks :
                tasks[t].channel = c => t = h \/ (t < h /\ tasks[t].aborted)
  /\ \A t \in DOMAIN tasks : tasks[t].channel \notin current_channels => tasks[t].aborted

(* Where an observation can be on its way: in the coordinator's hand or    *)
(* behind it in its queue (place 0), or in the queue of a feed worker.     *)
Line(w) == IF w = 0 THEN hand \o rx ELSE workers[w].queue

InFlight == UNION {Ids(Line(w)) : w \in 0 .. Len(workers)}

Handled == UNION {Range(handled[f]) : f \in Feed}

(* Until a feed worker exits no observation is dropped, whatever the       *)
(* queues' fill: each one sent is on its way or was received.              *)
NothingLostWhileWorkersLive ==
  (\A w \in DOMAIN workers : workers[w].state # "exited") =>
     InFlight \cup Handled = 1 .. sent

(* No observation reaches the workers twice: what was received or dropped  *)
(* is no longer on its way, and nothing is on its way in two places.       *)
DeliveredAtMostOnce ==
  /\ InFlight \cap (Handled \cup lost) = {}
  /\ Handled \cap lost = {}
  /\ \A v, w \in 0 .. Len(workers) :
       \A i \in DOMAIN Line(v), j \in DOMAIN Line(w) :
         Line(v)[i].id = Line(w)[j].id => v = w /\ i = j

(* For each feed the coordinator is a relay: its observations reach its    *)
(* worker in the order they were decoded, through two queues and the hand  *)
(* of a coordinator that serves all feeds, none under another feed's id    *)
(* and none missing in between before a worker of that very feed exits.    *)
Transit(f) ==
  UNION {{Line(w)[i].id : i \in {j \in DOMAIN Line(w) : Line(w)[j].feed = f}} :
          w \in 0 .. Len(workers)}

Relay == INSTANCE FeedRelay WITH
           accepted    <- sent,
           pending     <- [f \in Feed |-> Transit(f)],
           delivered   <- handled,
           broken      <- {workers[w].feed : w \in {v \in DOMAIN workers :
                                                     workers[v].state = "exited"}}

ImplementsRelay == Relay!Spec

(* Each feed worker, from its spawn on, is the task that PriceFeedWorker   *)
(* implements: a coordinator that sends, waits, retries and respawns gives *)
(* it nothing beyond its queue's capacity and nothing after its exit.      *)
TaskOf(w) == INSTANCE FeedWorkerTask WITH
               state <- IF w \in DOMAIN workers THEN workers[w].state ELSE "receiving",
               queue <- IF w \in DOMAIN workers THEN workers[w].queue ELSE <<>>

WorkersAreTasks ==
  /\ \A w \in 1 .. MaxWorkers : TaskOf(w)!Init
  /\ [][\A w \in 1 .. MaxWorkers : [TaskOf(w)!Next]_(TaskOf(w)!vars)]_vars

(* Every observation a channel worker decodes comes to an end of its way,  *)
(* at a feed worker or dropped with one: a full queue, a publication that  *)
(* lasts, a worker that exits and the respawn after it hold the others up, *)
(* but not for good.                                                       *)
ObservationsArrive ==
  \A id \in 1 .. MaxSends : (id <= sent) ~> (id \in Handled \cup lost)

(* A channel that stays registered is followed once a new slot is seen,    *)
(* also when the coordinator is held up by a full queue meanwhile.         *)
RegisteredGetsFollowed ==
  \A c \in Channel :
    (c \in channels /\ time_changed /\ current_slot > last_processed_slot)
      ~> (c \in current_channels \/ c \notin channels)

(* A channel that leaves and comes back has an aborted task beside its new *)
(* one until the abort takes effect, both decoding.  That overlap ends,    *)
(* and a channel missing when a slot is seen, unless it comes back, is at  *)
(* last followed by none.                                                  *)
Followers(c) == {t \in DOMAIN tasks : tasks[t].channel = c /\ tasks[t].state # "gone"}

FollowersSettle ==
  \A c \in Channel :
    /\ Cardinality(Followers(c)) > 1 ~> Cardinality(Followers(c)) <= 1
    /\ (c \notin channels /\ time_changed /\ current_slot > last_processed_slot)
         ~> (Followers(c) = {} \/ c \in channels)

(* "We need to spawn a fresh one and retry": once the coordinator is back  *)
(* at its select!, the sender it keeps for a feed is that of the worker it *)
(* spawned last for it.                                                    *)
SenderIsOfNewestWorker ==
  pc = "select" =>
    \A f \in DOMAIN feed_workers :
      \A w \in DOMAIN workers : workers[w].feed = f => w <= feed_workers[f]
=============================================================================
