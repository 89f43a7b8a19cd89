----------------------------- MODULE PriceFetch -----------------------------
(***************************************************************************)
(* fetch_price of oracle_node/sequencer/src/binance_fetch.rs, pyth_fetch.rs*)
(* and redstone_fetch.rs: the task that reads one provider for as long as  *)
(* the process runs.  Binance and Pyth are streams that are opened and     *)
(* read until they end; Redstone is polled.  After a failure the task      *)
(* sleeps for a delay that doubles up to MaxDelay, and that a success sets *)
(* back.                                                                   *)
(*                                                                         *)
(* A message that is no price of the feed (another symbol, JSON that does  *)
(* not parse, a price that does not convert: module PriceObs) is logged    *)
(* and skipped, which is no step of this model.                            *)
(***************************************************************************)
EXTENDS Integers

CONSTANTS Provider,     \* the providers main.rs may be built for
          MaxDelay      \* seconds: Duration::from_secs(30)

ASSUME FetchAssumption ==
  /\ Provider \subseteq {"binance", "pyth", "redstone"}
  /\ MaxDelay \in Nat \ {0}

VARIABLES
  provider,       \* main.rs names it; it is compiled in
  fetching,       \* "connecting" (or requesting), "reading", "polling", "backing off"
  retry_delay,    \* seconds
  stalled         \* an answer is awaited that will not come

fetch == <<fetching, retry_delay, stalled>>

Streams == provider \in {"binance", "pyth"}

FetchStarts == fetching' = "connecting" /\ retry_delay' = 1 /\ stalled' = FALSE

FetchInit == /\ provider \in Provider
             /\ fetching = "connecting" /\ retry_delay = 1 /\ stalled = FALSE
-----------------------------------------------------------------------------
(* connect_async succeeds; Event::Open. *)
StreamOpens ==
  /\ Streams /\ fetching = "connecting" /\ ~stalled
  /\ fetching' = "reading" /\ retry_delay' = 1
  /\ UNCHANGED stalled

(* The stream yields a price, which goes to the monitor's queue. *)
StreamYields ==
  /\ fetching = "reading" /\ ~stalled
  /\ UNCHANGED fetch

(* No connection, or a status other than success; the stream ends or       *)
(* yields an error.                                                        *)
Fails ==
  /\ fetching \in {"connecting", "reading"}
  /\ fetching' = "backing off" /\ stalled' = FALSE
  /\ UNCHANGED retry_delay

(* The provider is gone without a word.  No await of the task has a        *)
(* timeout: it goes on when the transport reports an error, if ever.       *)
Stalls ==
  /\ fetching \in {"connecting", "reading"} /\ ~stalled
  /\ stalled' = TRUE
  /\ UNCHANGED <<fetching, retry_delay>>

(* Redstone replies, with a price or with something that is none. *)
Reply ==
  /\ ~Streams /\ fetching = "connecting" /\ ~stalled
  /\ fetching' = "polling" /\ retry_delay' = 1
  /\ UNCHANGED stalled

(* After an empty list it is asked again at once, without the pause. *)
EmptyReply ==
  /\ ~Streams /\ fetching = "connecting" /\ ~stalled
  /\ retry_delay' = 1
  /\ UNCHANGED <<fetching, stalled>>

PollAgain ==
  /\ fetching = "polling"
  /\ fetching' = "connecting"
  /\ UNCHANGED <<retry_delay, stalled>>

(* Mutant: the delay is not capped; a long one outlasts the outage. *)
WakeUp_NoCap ==
  /\ fetching = "backing off" /\ retry_delay < MaxDelay
  /\ fetching' = "connecting"
  /\ retry_delay' = 2 * retry_delay
  /\ UNCHANGED stalled

WakeUp ==
  /\ fetching = "backing off"
  /\ fetching' = "connecting"
  /\ retry_delay' = IF 2 * retry_delay > MaxDelay THEN MaxDelay ELSE 2 * retry_delay
  /\ UNCHANGED stalled
-----------------------------------------------------------------------------
Sends == StreamYields \/ Reply

SendsNothing == StreamOpens \/ Fails \/ Stalls \/ Reply \/ EmptyReply \/ PollAgain \/ WakeUp

FetchTypeOK ==
  /\ provider \in Provider
  /\ fetching \in {"connecting", "reading", "polling", "backing off"}
  /\ retry_delay \in 1 .. MaxDelay
  /\ stalled \in BOOLEAN
=============================================================================
