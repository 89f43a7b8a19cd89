# A verification development of the Logos Oracle Network

TLA+ specifications of the oracle network's own logic, the TLC configurations
that check them on small instances, and theorems about them that TLAPS checks
for every value of the constants. Paths are relative to `src/`.

## 1. The system

An *oracle node* (`oracle_node/sequencer`) watches one price provider and
inscribes price observations into its own zone channel. An *indexer*
(`oracle_node/indexer`) follows the channels of all registered nodes, collects
the observations of each feed into rounds of two slots, and publishes their
median. Three programs of the execution zone hold the on-chain state:
`oracle_register` (who is an oracle, with what stake), `oracle_prices` (the last
attested price of each feed) and `swap_demo` (a consumer of it).

| component | source | state it keeps | operations |
|---|---|---|---|
| median | `indexer.rs` 417-429 | none | `compute_median` |
| price feed worker | `indexer.rs` 281-415 | `current_round`, `current_round_observations`; reads two watch channels and a bounded queue | tick, receive, publish, exit by timeout or closed queue |
| coordinator, channel workers | `indexer.rs` 28-241 | `active_workers`, `feed_workers`, `last_processed_slot`, `current_channels`; an unbounded queue | compare channels at a slot, spawn, abort, forward, respawn and retry; follow a channel, decode |
| time poller, channel discovery | `common/src/time_fetch.rs`, `indexer.rs` 243-279 | the two watch channels | poll and overwrite |
| `oracle_register` and its tree | `oracle_register/` | owner, `mtree`, `registered`; one vault per key | `initialize`, `register` |
| node start-up | `sequencer/src/main.rs`, `register_contract.rs` | key file | load or create the key, register and wait |
| publisher, monitor | `sequencer.rs`, `monitor.rs` | shared map of deques, `round`, checkpoint file | store a price, take all and publish the last, save the checkpoint |
| fetchers | `*_fetch.rs`, `price_obs.rs` | a connection and its back-off | connect, read or poll, convert a price and send it, back off |
| `oracle_prices` | `oracle_prices/` | `PriceState` per feed | `initialize`, `initialize_feed`, `publish_price` |
| `swap_demo` | `swap_demo/` | pools | `initialize`, `initialize_pool`, `swap` |

How they interact: the fetchers feed the monitor through an unbounded queue, the
monitor shares a map with the publisher, the publisher inscribes blocks in a
zone; channel workers decode them and send them to the coordinator (unbounded
queue), which forwards them to the feed's worker (`mpsc::channel(100)`, so it
waits while that is full); the worker calls `oracle_prices`. Slots and the set of
registered channels reach coordinator and workers through `watch` channels,
which keep only their last value.

What is hard here:

- *interleaving*: a feed worker is away from its `select!` while it awaits the
  publication, and both watches and the queue change meanwhile; the monitor and
  the publisher change one deque; a transaction is executed at any time between
  its submission and the next restart of the node that sent it;
- *coalescing*: several slots, or rounds, are one tick;
- *back-pressure*: one full feed queue stops the coordinator for all feeds;
- *partial failure*: the early `continue` at invalid decimals, logged
  publication errors, a failed send and its respawn, a transfer that fails after
  the register was changed;
- *restart*: of a node at any point of its start, also within the write of its
  key, and of the publisher, whose rounds start anew;
- *numbers*: the median's sum overflows, a full tree takes a path of its own;
- *outages*: a provider fails again and again, or falls silent without closing;
- *liveness*: rounds must close, the coordinator must come back, observations must
  resume after an outage, a process whose task has ended must end.

`PROJECT.json` lists these as hazards, each at its line, with the properties
that are for it.

What makes each component correct:

- *conversion and median*: a minority cannot move the attested price out of the
  band the majority quotes, whichever providers quote; raising one quote never
  lowers it; the median is right by rank.
- *feed worker*: no observation counts twice; rounds are attested in order and
  after they are over; a closed round is settled by exactly what was counted for
  it; every counted observation is settled; it serves its queue.
- *coordinator*: the handle of a channel is its newest task, every other task is
  told to stop, and stops; per feed a relay that keeps the order,
  neither duplicates nor misroutes, and drops nothing while the workers live; every
  observation arrives or is dropped with a worker; registered channels get
  followed.
- *register*: array and tree agree; what a node staked stands in the vault of its
  key, whatever others register with; a node keeps its identity over restarts, and
  gets to run.
- *publisher and fetcher*: bounded backlog, newest last; no price twice or after a
  newer one; none stuck; no outage is for good; the process can end.
- *oracle_prices*: the list of feeds and the feed accounts agree; a feed shows the
  last price executed for it.
- *swap_demo*: a swap moves both legs or none, whatever price it reads.

## 2. Modules

| module | models | role |
|---|---|---|
| `Median` | `compute_median` | operators over i64 of any width |
| `PriceObs` | `price_obs.rs` | EXTENDS `Median`: the conversions of three providers |
| `MCMedian` | | builds every short round of quotes |
| `AttestedFeed` | | abstract: what the subscribers of a feed rely on |
| `FeedWorkerTask` | | abstract: what the coordinator relies on |
| `PriceFeedWorker` | `price_feed_worker`, `publish_attested_price` | EXTENDS `Median`, implements both |
| `FeedRelay` | | abstract: what the feed workers rely on |
| `Indexer` | `Indexer::run`, `channel_worker` | the coordinator and its tasks, implements `FeedRelay` |
| `OracleMerkleTree` | `imt.rs` | operators on the tree |
| `OracleRegister` | `oracle_register.rs`, `sequencer_register`, key file | EXTENDS `OracleMerkleTree` |
| `PriceFetch` | `binance_fetch.rs`, `pyth_fetch.rs`, `redstone_fetch.rs` | the fetch task |
| `PricePublisher` | `sequencer.rs`, `monitor.rs`, the end of `main.rs` | EXTENDS `PriceFetch`: the node's process once registered |
| `OraclePrices` | `oracle_prices.rs`, the client's `publish_price`, `prices_contract.rs` | the feeds on the ledger |
| `SwapDemo` | `swap_demo.rs` | EXTENDS `OraclePrices`: the feeds and the swaps that read them |
| `MCPriceFeedWorker`, `MCIndexer`, `MCOracleRegister`, `MCSwapDemo` | | values for TLC |
| `Median_proofs`, `MCMedian_proofs`, `PriceFeedWorker_proofs`, `Indexer_proofs`, `OracleMerkleTree_proofs`, `OracleRegister_proofs`, `PricePublisher_proofs`, `SwapDemo_proofs` | | theorems |

Operators headed "Mutant:" stand right above the definition they change. They are
plausible bugs of that definition; each shows that one property would catch it.

### PriceObs and Median

A quote is a mantissa that has k digits too many or too few for the six an
observation carries; `Step` is 10^k. `Rescale` is `rust_decimal`'s (a half is
rounded away from zero), `ScaleToExponent` is `pyth_sdk`'s (truncation, and an
error where a multiplication leaves i64); both are modelled from how
`price_obs.rs` uses them. `Price` keeps the cast `mantissa() as i64`, which cuts a
price that does not fit. The f64 that Redstone sends is the decimal it is
converted to. `MCMedian` collects converted quotes, as a feed worker does, and
aggregates them.

### PriceFeedWorker

`phase` is where the task stands: at its `select!`, awaiting the publication, or
gone. `current_slot`/`time_changed` and `channels` are the watch channels,
`queue` the bounded queue. `OnTick` is the time branch, split by its conditions
(`TickSameRound`, `TickMissedQuorum`, `TickInvalidDecimals`, `TickMedianPanics`,
`TickPublish`); the branch ends in `PublishReturns` when it has to await.
`OnReceive`, `OnClosed` and `OnIdle` are the three results of the other branch.
`TimePoll`, `DiscoverChannels`, `Send` and `DropSender` are the other tasks.
Numbered observations and the histories `accepted`, `attested` and `published`
exist for the properties only. The slot never falls: it is the chain's clock.

### Indexer

`tasks` are the channel workers ever spawned and `active_workers` the handles;
`workers` are the feed workers ever spawned and `feed_workers` the senders, as
indices. `pc` is "select", "sending" (the await at line 154) or "retrying". An
aborted task goes on until `AbortTakesEffect`, so that a channel which leaves and
comes back is followed, and decoded, by two tasks for a while: `HandlesInStep`
says that all but the newest were told to stop, `FollowersSettle` that they do.
The only action that can fill `lost` without a worker's exit would be a bug of the
forwarding; exits drop what a queue still holds. A feed worker is here reduced to
receiving, publishing and exiting: to `FeedWorkerTask`. The two models are
composed by it: the full model of the worker implements it (`ImplementsTask`),
each worker of this module is a run of it (`WorkersAreTasks`), both proved, and
the fairness of the workers here is its `Serves` (`ServesItsQueue`, checked).
`Line(w)` is what stands at a place, in order: the coordinator's hand and queue at
place 0, a worker's queue at place w. `Transit(f)` is the set of the numbers of a
feed's observations in all lines. The refinement mapping onto `FeedRelay`, which
delivers the least of them or loses some, is made of it: observations are numbered
as they are decoded, so to deliver the least is to keep the order.

### OracleRegister and OracleMerkleTree

A hash is the pair of what it hashes, so that equal roots mean equal trees.
`insert_oracle` has an outer loop up to the first left child and an inner one on
from there; both hash by `Parent`, so that `Path` is one function, and
`InsertOracle` keeps the first left child, if there is one, in the frontier.
`ReferenceRoot` is `compute_reference_root` of the module's tests: the full tree,
row by row.
`Execute` is the ledger: it takes the transaction of the account's nonce and
applies all of it or nothing. `phase[n]` is how far a node's start is: each call
it makes (read the register, read the nonce, submit, poll) is a step, `Exit`
stops it at any of them and may tear the key file while it is written. Keys are
numbered in the order they are drawn.
`register` takes the key, the receiver of the stake, the token and the seed from its
caller, and compares none of them with another. A node passes its own key, the vault
of that key and LON (`EntryOf`, `register_contract.rs` 34-56); `OtherRegisters` passes
any: a new key, a node's, one that is in the register, the zero key; the vault of any
key or an account that is none; LON or another token. The owner of the token
definition is always the token program, as line 155 demands. `vault` is what was
staked into the vault accounts; that the token program refuses a receiver which holds
another token is `CanReceive`.

### PriceFetch and PricePublisher

`fetching` is where the fetch task stands and `retry_delay` its back-off, in
seconds. Binance and Pyth are streams (`StreamOpens`, `StreamYields`); Redstone is
polled (`Reply`, `PollAgain`), and asked again without a pause after an empty list
(`EmptyReply`, `redstone_fetch.rs` 40). `Fails` is every way to the back-off,
`WakeUp` the end of its sleep. `Stalls` is the provider that goes on holding an
await which has no timeout; `stalled` ends only with an error of the transport.
What the streams skip (other symbols, JSON that does not parse) is no step.

`phase` is the process, `pc` the publisher's place in its loop. Where the
publisher finds no price, the code loops without an await; the model takes no
step, and `RuntimeIsDown`, which has to wait for an await, is not enabled.
`due` counts the minutes until the interval's next tick: it may be negative, and
then ticks come at once. `Crash` is possible at any moment; the memory of a
process that is down is as the next one starts with (`MemoryStarts`).

### OraclePrices and SwapDemo

`feed_price` is a function on the feed accounts that exist; the account of a feed
goes by the feed's id. `publications` and `requests` are what has been submitted
and not executed; the ledger takes them in any order, swaps of one user in the
order of their nonces. What the framework refuses by an account's attributes
(`init`, `pda`) is in the guards. Of a price's fields only the id and the price
are kept, as nothing here reads the others: a swap ignores the decimals, and
`publish_price` the round. The indexer's call names the default account instead
of the feed's (`prices_contract.rs` 17), and is refused; only `spel publish-price`
changes a feed. `swaps` and `executed` are histories for the properties.
`price_feed` is what the caller names, unchecked: a feed's account or another, of
which any u64 may be read, or nothing (`PricesRead`). A swap on a feed nobody has
published to pays nothing, and a product above 2^64 wraps, as in the code. `Total` sums
what the executed swaps have moved, `TakenFrom` and `PaidTo` pick those of some
users.

## 3. Runs

| run | what it asks | bounds |
|---|---|---|
| `Median` | `MajorityRules`, `MedianByRank`, `RaiseNeverLowers` over all rounds of at most 4 quotes | i64 is -3 .. 2 and `Step` 2, so that every second fine quote is a half; 16 quotes of three providers, among them ties, one that is cut to 64 bits and two that are refused; sums overflow, odd and even lengths |
| `PriceFeedWorker` | safety of one worker and its two refinements | two channels, prices -3 and 5 in an i64 of -6 .. 5 (a negative median, and a sum that overflows), decimals 6 and 8, quorum 1, slots 0 .. 5 (three rounds), 3 observations, queue of 2 |
| `PriceFeedWorkerLive` | settlement, and liveness of rounds and queue | as above with decimals 6 only, quorum 2, release build |
| `Indexer` | safety of the coordinator and its refinement of `FeedRelay` | two channels, two feeds, queue of 1, three observations (one in the queue, one in hand, one behind), slots 0 .. 2, three feed workers |
| `IndexerLive` | its liveness; a channel that leaves and comes back, whose two tasks overlap; each feed worker is a run of `FeedWorkerTask` | one channel, two feeds, slots 0 .. 3 (enter, leave, come back), two observations and the four feed workers they can spawn |
| `OracleRegister` | register, stakes, identity, liveness | two nodes with funds for two stakes, one restart each (so each may register twice), one registration of someone else with any key, receiver and token: five entries for a tree of four leaves; the five keys that can be drawn |
| `PricePublisher` | backlog, order, outages, liveness over restarts | a stream and a polled provider, a delay of at most 2, deque bound 1, three prices, two lives, one owed minute, one batch of blocks |
| `SwapDemo` | feeds, atomic swaps | two feeds, two users, prices 1 and 3, amounts 1 and 2 in a u64 of 0 .. 4 (a product that wraps), any u64 as the price of an account that is no feed's, three tokens A each and four tokens B (both run out), three publications, two swaps |
| `PriceFeedWorkerDecimals`, `PriceFeedWorkerOracles`, `IndexerRespawn`, `OracleRegisterOnce` | each finds a disagreement, see section 6 | as above or smaller |

Why the bounds are enough. Two of a kind (channels, feeds, nodes) are what mixing
them up takes. The hazards of the feed worker need a round that closes while one
is published and one more to be attested again: three rounds and three
observations. The coordinator's need one observation stuck in a full queue
(capacity 1) and one behind it. The register's need the last leaf of the tree and
one attempt after it; a transfer that fails is there the one into a vault that
holds another token (funds that run out take the same way out of `CanRegister`,
and the theorems are for any funds). The publisher's need the deque at its bound
(one, and the one more the code allows), a price that makes the oldest give way,
and a restart between two prices; the delay needs its cap. A band and a median
need four quotes: two middle ones and an outlier on each side. A feed's need two
prices for one feed and one for another, or two initialisations of one; a swap's
two of one user or of two. The constants scale nothing else: all loops are over
these sets. Deadlock is checked but in the runs whose bounds on restarts, lives or
submissions let the system stop. Symmetry is used in safety runs only.

What they show that is not obvious: `LagsOnlyWhilePending` needs its second
exception, the quorate round with foreign decimals, and no other;
`BacklogIsNewest` holds with the bound plus one; `NodeGetsToRun` needs two
exceptions besides a full register and empty funds: the torn key file, and a vault
that someone made a holding of another token before its node registered;
`ObservationsResume` needs the provider that neither answers nor fails, and no
other exception; `ImplementsRelay` allows a gap in a feed only after a worker of
that very feed has ended;
`LeavingEnds` needs the publisher that found no price.

### Fairness

- Feed worker: weak fairness of `OnTick`, `OnReceive` and `PublishReturns`. The
  runtime polls a task one of whose branches is ready; `select!` starts with a
  random branch, and once a branch is ready it stays so; a publication is an RPC
  that ends, if only with an error. Ticks, observations and timeouts are not
  assumed to happen.
- Coordinator: strong fairness of `OnTick`, as it is disabled while the
  coordinator sends and the random choice takes it again and again; weak fairness
  of the other steps; of feed workers, strong fairness of receiving (publications
  interrupt it) and weak fairness of the end of a publication.
  Weak fairness of `AbortTakesEffect`: the runtime drops an aborted task at its next
  await that yields, and the sockets a channel worker reads from make it yield even
  when there is always something to read (tokio's cooperative budget).
  The fairness of the feed workers is not an assumption of its own: it is
  `FeedWorkerTask!Serves`, which the run `PriceFeedWorkerLive` checks of the
  worker's model under the fairness above (`ServesItsQueue`).
- Register: nodes go on with their start, the ledger executes what it may, the
  register is initialised. Restarts are not assumed.
- Publisher: the tasks of a running process run. This needs a second thread of the
  runtime, as the publisher may keep one to itself; `#[tokio::main]` has one per
  core. Time passes. Once the runtime shuts down, only a publisher that loops is
  assumed to go on, to its next await.
- Fetch task: it wakes up from its sleeps. `ProviderReturns`, strong fairness of
  `StreamOpens` and `Quote`, is about the world: a provider that is asked again and
  again is reached in the end, and quotes. That it is asked again and again is
  what the code has to see to. Failures, and silence, are not excluded.

## 4. Proofs

| theorem | statement |
|---|---|
| `PriceFeedWorker_proofs!TypeCorrect` | `Spec => []TypeOK` |
| `PriceFeedWorker_proofs!NoObservationCountedTwice` | `Spec => []CountedOnce` |
| `PriceFeedWorker_proofs!RoundsAttestedInOrder` | `Spec => []AttestedInOrder` |
| `PriceFeedWorker_proofs!WorkerImplementsFeed` | `Spec => ImplementsFeed`, in a debug build |
| `PriceFeedWorker_proofs!WorkerImplementsTask` | `Spec => ImplementsTask`, in every build |
| `PriceFeedWorker_proofs!ClosedRoundsSettled` | `Spec => []ClosedRoundSettled` |
| `PriceFeedWorker_proofs!RoundFollowsClock` | `Spec => []LagsOnlyWhilePending` |
| `PriceFeedWorker_proofs!OnlySettledObservationsLeave` | `Spec => OnlySettledLeave` |
| `Indexer_proofs!TypeCorrect` | `Spec => []TypeOK` |
| `Indexer_proofs!HandlesAlwaysInStep` | `Spec => []HandlesInStep` |
| `Indexer_proofs!NothingLost` | `Spec => []NothingLostWhileWorkersLive` |
| `Indexer_proofs!DeliveredOnce` | `Spec => []DeliveredAtMostOnce` |
| `Indexer_proofs!CoordinatorImplementsRelay` | `Spec => ImplementsRelay` |
| `Indexer_proofs!WorkersAlwaysTasks` | `Spec => WorkersAreTasks` |
| `OracleMerkleTree_proofs!NewTreeRight`, `InsertRight` | the root is that of the full tree, for any depth and leaves |
| `OracleRegister_proofs!TypeCorrect` | `Spec => []TypeOK` |
| `OracleRegister_proofs!TreeMatchesArray` | `Spec => []ArrayMatchesTree` |
| `OracleRegister_proofs!StakesAlwaysStand` | `Spec => []StakesOfNodesStand` |
| `OracleRegister_proofs!IdentityKept` | `Spec => []KeepsItsIdentity` |
| `PricePublisher_proofs!TypeCorrect` | `Spec => []TypeOK` |
| `PricePublisher_proofs!BacklogAlwaysNewest` | `Spec => []BacklogIsNewest` |
| `PricePublisher_proofs!PricesAlwaysAscend` | `Spec => []PricesAscend` |
| `MCMedian_proofs!MajorityAlwaysRules` | `Spec => []MajorityRules` |
| `MCMedian_proofs!MedianAlwaysByRank` | `Spec => []MedianByRank` |
| `MCMedian_proofs!RaiseNeverLowersMedian` | `Spec => RaiseNeverLowers` |
| `SwapDemo_proofs!TypeCorrect` | `Spec => []TypeOK` |
| `SwapDemo_proofs!SwapsAlwaysSettle` | `Spec => []SwapsSettle` |
| `SwapDemo_proofs!FeedsAlwaysListed` | `Spec => []FeedsListed` |
| `SwapDemo_proofs!LatestPriceAlwaysStands` | `Spec => []LatestPriceStands` |
| `Median_proofs!MedianEnclosed`, `MedianOfMajority`, `MedianMonotone` | of the operator, for every sequence |

Every safety property of every run is stated by a theorem. Assumed are the named
assumptions on constants (`I64Assumption`, `StepAssumption`, `QuotesAssumption`,
`ConstAssumption` of worker and coordinator, `TreeDepthAssumption`,
`RegisterAssumption`, `PricesAssumption`, `SwapAssumption`, `FetchAssumption`,
`PublisherAssumption`): the width of the integers, `Step`, round length, quorum,
capacities, the depth of the tree, the cap of the back-off and the bound of the
deque are positive; prices fit in i64, amounts in u64; channels are finitely many
(a `HashSet` has an order then); who registers with the command line is no node,
the pool and the supply are no users, the zero id and the default account are no
feed's. TLC evaluates them in the runs.

*Median.* Sorting is specified by rank: the value at place k has fewer than k
prices below it and at least k up to it. `PlaceIsTaken` shows that
such a value exists for every k (the least integer of i64 with at least k prices
up to it), so that `CHOOSE` has a choice; `SortedPlace` and `SortedAscends` follow.
A band that holds more than half of the prices holds both middle places, and so
their mean. `MedianEnclosed` is the special case the refinement needs.
`MajorityAlwaysRules` speaks of what was quoted: bounds that are whole prices hold
of a quotient that is truncated (`TowardZeroBetween`) or rounded
(`HalfAwayBetween`), so a conversion keeps a quote in its band and cuts no bit
off (`PriceWithin`); the quotes outside may become anything that is an i64.
`MedianMonotone` compares two sequences: at every place of the sorted one, a value
with fewer prices below it than places cannot exceed one with enough above
(`SortedRises`); the conversions rise with the quote, rounded or truncated
(`QuotientMonotone`, `RoundingsMonotone`). `MedianByRank` needs that the prices
with half of the others on either side are those between the two middle places
(`InMiddle`, `MiddlesByRank`), and what a sum that wraps is halved to
(`WrapOfSum`, `HalfTruncates`).

*Feed worker.* `CountedOnce` and `AttestedInOrder` are not inductive: the first
says nothing of the observations that are still on their way, the second nothing
of the round about to be attested. `Safe` adds that observation ids ascend from
the attested ones over the current vector to the queue, that everything on the
way has an id not above `sent`, that a publication in progress belongs to the
round that is about to be left, and that what is attested lies before the
current round. Each action is one step of the proof.

*Rounds left.* `ClosedRoundSettled` needs `SettledInv`: the vector is what was
counted for the current round, nothing was counted for a later one, and a
publication in progress is that of the vector. The rounds skipped by a tick are
then settled by attesting nothing. The size of the vector, which the code
compares with the quorum, is the number of observations because ids differ
(`PoolSize`). `LagsOnlyWhilePending` needs that a publication that returns to a
round long over has an unseen tick behind it (`ClockInv`). `OnlySettledLeave` is
an action property and follows from `Safe`.

*Refinement.* While a publication is awaited the worker's vector still holds
observations that are spent; the mapping shows the abstract feed an empty pool
and the next round there already. `TickPublish` is then `Close` with `Attest`,
`PublishReturns` a stutter. A debug build is assumed since in a release build an
overflowing sum wraps and the attested price is not enclosed by what was observed
(the run `PriceFeedWorker` checks the refinement for a debug build, too).

*Coordinator.* `IInv` has four parts. `MemberTypeOK` with `HandlesInStep` is
inductive: a tick appends one task for each new channel, in any order
(`OrderOfSet`, `NewTasksAt`), and tells those of the old ones to stop. Delivery is
argued over the layout, the function from places to lines, of which a step moves
one head, appends one observation or clears one line (`HeadLeaves`, `NewestJoins`,
`FirstHandedOver`, `LineLeaves`). `Routed`: only the worker that a feed's sender
belongs to has anything in its queue, and only of that feed; without it a
hand-over could put an observation behind those of another feed. `Placed`: nothing
stands in two places, every line ascends, and what a worker has of a feed is older
than what the coordinator has of it. `Accounted`: what was sent is on its way,
received or dropped, one of them only. `DeliveredAtMostOnce` and
`NothingLostWhileWorkersLive` follow. In the refinement the head of a worker's
line is the oldest of its feed, by `Routed` and `Placed` (`FirstIsOldest`), so to
receive it is `FeedRelay`'s delivery; an exit is its loss, as is the retry after a
respawn, which needs an exited worker of the very feed (`Routed` again).
`WorkersAreTasks` needs that a send is to a worker that exists, with a typed
observation in hand.

*Tree.* `InsertRight` goes up the levels, by a least counterexample
(`LevelInduction`): an insertion changes in each row of the full tree the node
above the new leaf alone; right of that node a row holds empty subtrees, and the
frontier holds what is left of it where the path is a right child; so the path's
hash at a level is the full tree's. The frontier for the next insertion is the
carry of a binary counter: up to the first left child the path turns from right to
left, there the kept node becomes the neighbour, above nothing changes.

*Register.* `Listing` says that tree and array list what was inserted, and uses
`InsertRight`. `Staked` is `StakesOfNodesStand` by counting places, which an
appended entry raises by one for its node and its receiver; that a vault with a
node's stake is one of LON stays so because it receives no other token.
`KeepsItsIdentity` alone is not inductive: `KeysHeld` (past writing, a process has
the key of its file), `KeysOnFile` (what was submitted or registered for a node is
the key of its file, so a key that was submitted is never replaced) and
`RunsOnEntry` (the nonce, by which a polling node knows that its transaction was
executed, grows only with its own entries) are what the code relies on without
saying so.

*Publisher.* Prices are numbered as they are quoted, so the argument is by
position. `QueueIsRun`: the monitor's queue is a run of numbers that ends with the
newest quoted; the deque is a run that ends where the queue begins. `LogIsPast`:
what has been observed lies before both, hence before all that may yet be
observed, whatever a crash throws away; in a life, under an earlier round.
`PricesAscend` needs both, `BacklogIsNewest` the first: that the price stored next
follows the last of the deque. `StoreTyped` is the step at the bound of the deque.

*Feeds and swaps.* `LatestPriceStands` needs that an account that does not exist
has had no price (`NoPriceBeforeInit`). `FeedsListed` needs that nothing is listed
before the program's account exists.

`SwapsSettle` is about sums over a history. `Total` is a running sum, and that a
running sum exists and takes one more term is induction over the length, as a
least counterexample (`RunningSumExists`, `TotalOfAppend`). `Settling` is inductive with
the types, which need `NoncesCounted`: a nonce and the swaps that wait are not
more than were requested, so that no nonce leaves its bound.

Left to TLC: liveness (`CountedObservationsSettle`, `ServesItsQueue`,
`ObservationsArrive`, `RegisteredGetsFollowed`, `FollowersSettle`,
`NodeGetsToRun`, `EveryPriceSuperseded`, `ObservationsResume`, `LeavingEnds`), as
it rests on fairness, which the prover cannot take apart.

## 5. Plan

Done: median, feed worker with its abstract feed, coordinator, register,
publisher, feeds and swaps; then the conversions, the fetch task, the relay the
coordinator implements, and the interface by which coordinator and feed worker
are composed; then the proofs of all safety properties.

What is left:

1. An abstract specification of the register (entries and stakes, without tree and
   mempool) and of the swaps, and that the modules implement them.
2. Lemmas on what liveness rests on: that the steps whose fairness is assumed are
   enabled where the argument needs them, as far as they can be stated without
   ENABLED.

## 6. Findings

| run | code | what it says otherwise |
|---|---|---|
| `PriceFeedWorkerDecimals` | `indexer.rs` 338-341: one observation with foreign decimals in a quorate round leaves the branch before the reset, at every later tick too; the round never closes | line 339: "skipping them..." |
| `PriceFeedWorkerOracles` | `indexer.rs` 327: the quorum counts observations, so one oracle can be all of it | line 414: "e.g. N active oracles required" |
| `IndexerRespawn` | `indexer.rs` 168-170: the sender that failed is inserted and retried on, not the fresh worker's | lines 155-156: "We need to spawn a fresh one and retry" |
| `OracleRegisterOnce` | `oracle_register.rs` 139 inserts a key that is there already; a node restarted before its transaction is executed registers and stakes twice | `sequencer/src/main.rs` 102: "Register (or check it is already registered)" |

## 7. Not modelled

- The pace of publications: `sequencer.rs` 186 promises a minute between two, which
  the interval's immediate first tick and its bursts after slow publications do not
  keep. `IntervalTick` models them; no property depends on the pace.
- The pools and the receiver a caller of `swap` chooses (`TODO` at `swap_demo.rs` 209):
  the model has the pools that the demonstration sets up, and pays the user. The price
  feed is modelled as the caller's choice.
- What an entry of someone else is worth: `oracle_register.rs` 103-108 leaves receiver,
  token and seed to the caller, so no property says that such an entry has a stake in
  LON behind it, in the vault of its key. Where a stake goes that is not paid into the
  vault of a key drawn, and what else happens to the funding account of a node, which
  only the node uses here, is not followed.
- What the code leaves open and no document promises, so that no property could be
  broken (the hazards without properties): a negative median is not published; a node
  with a torn key file does not start; a stale round overwrites a newer one; a swap
  pays the wrapped product, at the price it finds, 0 included; a block may be decoded by
  an aborted task and by its successor.
- What tells the events of a stream apart (JSON, symbols), and the digits of an
  f64: a skipped event is no step, a quote is a decimal. A decimal so large that
  `rescale` cannot add digits (above 7.9e22) is not in `PriceObs`.
- The failures of `time_info_poll` and `channel_discover`: an iteration without
  effect, so no step. Their exits are unreachable, as `main.rs` of both programs
  keeps a receiver.
- `zone_state.rs`: created, never used. `checkpoint` is written, never read:
  `Boot` starts from none as the code does; what that costs is the zone SDK's.
- Configuration, arguments, codecs, generated clients, FFI, command line tools:
  straight-line or generated. `oracle_register_client/src/imt.rs` is a copy of the
  tree that is not compiled; most of that crate's `main.rs` is commented out.
- The zone SDK, the ledger and the token program are external: they are modelled
  as the code here uses them (`Execute`, `ObservationDecoded`, the chained
  transfer). What `follow()` replays after a stream has ended is unknown to this
  code, so that re-delivered blocks are not modelled.
