--------------------------- MODULE FeedWorkerTask ---------------------------
(***************************************************************************)
(* A price_feed_worker as the coordinator sees it: the interface between   *)
(* modules PriceFeedWorker, which implements it, and Indexer, whose worker *)
(* actions and fairness are those of this module, once for every worker.   *)
(* The coordinator only puts observations into a bounded queue; the worker *)
(* takes them one at a time in their order, never while it publishes, and  *)
(* when it exits the rest of the queue is gone.                            *)
(***************************************************************************)
EXTENDS Naturals, Sequences

CONSTANTS Message, QueueCapacity

VARIABLES state,     \* "receiving", "publishing" or "exited"
          queue

vars == <<state, queue>>

Init == state = "receiving" /\ queue = <<>>

Send == /\ state # "exited" /\ Len(queue) < QueueCapacity
        /\ \E m \in Message : queue' = Append(queue, m)
        /\ UNCHANGED state

CanReceive == state = "receiving" /\ queue # <<>>

Receives == /\ CanReceive
            /\ queue' = Tail(queue)
            /\ UNCHANGED state

Publishes == /\ state = "receiving"
             /\ state' = "publishing"
             /\ UNCHANGED queue

PublicationEnds == /\ state = "publishing"
                   /\ state' = "receiving"
                   /\ UNCHANGED queue

Exits == /\ state = "receiving"
         /\ state' = "exited"
         /\ queue' = <<>>

Next == Send \/ Receives \/ Publishes \/ PublicationEnds \/ Exits

Spec == Init /\ [][Next]_vars

(* Strong fairness of Receives and weak fairness of PublicationEnds,       *)
(* without ENABLED, which a refinement mapping would not commute with.     *)
Serves == /\ []<>CanReceive => []<><<Receives>>_vars
          /\ []<>(state # "publishing")
=============================================================================
