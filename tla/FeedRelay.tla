----------------------------- MODULE FeedRelay -----------------------------
(***************************************************************************)
(* What the coordinator of oracle_node/indexer/src/indexer.rs promises the *)
(* feed workers, without its queues, tasks and retries: the observations   *)
(* of a feed are handed over in the order they were decoded, each at most  *)
(* once and to no other feed, and none is left out before a worker of the  *)
(* feed has ended.                                                         *)
(*                                                                         *)
(* Observations are numbered as they are decoded, so that those of a feed  *)
(* which are on their way are a set of numbers, and the next is the least. *)
(***************************************************************************)
EXTENDS Naturals, Sequences

CONSTANT Feed

VARIABLES accepted,    \* how many observations have been decoded
          pending,     \* feed -> those on their way
          delivered,   \* feed -> those its workers have received, in order
          broken       \* the feeds a worker of which has ended

vars == <<accepted, pending, delivered, broken>>

Init == /\ accepted = 0 /\ broken = {}
        /\ pending = [f \in Feed |-> {}]
        /\ delivered = [f \in Feed |-> <<>>]

Accept(f) ==
  /\ accepted' = accepted + 1
  /\ pending' = [pending EXCEPT ![f] = @ \cup {accepted + 1}]
  /\ UNCHANGED <<delivered, broken>>

Deliver(f) ==
  /\ \E o \in pending[f] :
       /\ \A other \in pending[f] : o <= other
       /\ delivered' = [delivered EXCEPT ![f] = Append(@, o)]
       /\ pending' = [pending EXCEPT ![f] = @ \ {o}]
  /\ UNCHANGED <<accepted, broken>>

(* Some observations are dropped; those that stay keep their order. *)
Drop(f) == \E gone \in SUBSET pending[f] : pending' = [pending EXCEPT ![f] = @ \ gone]

Break(f) == /\ broken' = broken \cup {f}
            /\ Drop(f)
            /\ UNCHANGED <<accepted, delivered>>

Lose(f) == /\ f \in broken
           /\ Drop(f)
           /\ UNCHANGED <<accepted, delivered, broken>>

Next == \E f \in Feed : Accept(f) \/ Deliver(f) \/ Break(f) \/ Lose(f)

Spec == Init /\ [][Next]_vars
=============================================================================
