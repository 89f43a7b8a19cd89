---------------------------- MODULE AttestedFeed ----------------------------
(***************************************************************************)
(* What the subscribers of a price feed rely on, without slots, queues or  *)
(* tasks: observations are pooled for the round in progress; when a round  *)
(* ends its pool is dropped, after one attestation of all of it if it      *)
(* reaches the quorum; the attested price is one the pool's prices         *)
(* enclose; and no observation is used twice.                              *)
(***************************************************************************)
EXTENDS Integers, Sequences, FiniteSets

CONSTANTS Observation,   \* records with a price
          Quorum         \* observations needed to attest a round

VARIABLES round,         \* the round in progress
          pool,          \* the observations counted for it
          log            \* the attestations, in the order they were issued

vars == <<round, pool, log>>

Used == pool \cup UNION {log[i].observations : i \in DOMAIN log}

Init == /\ round \in Nat
        /\ pool = {}
        /\ log = <<>>

Count == /\ \E o \in Observation \ Used : pool' = pool \cup {o}
         /\ UNCHANGED <<round, log>>

Attest ==
  \E lo, hi \in pool : \E p \in lo.price .. hi.price :
    log' = Append(log, [ round        |-> round,
                         price        |-> p,
                         valid_count  |-> Cardinality(pool),
                         observations |-> pool ])

Close == /\ round' > round
         /\ pool' = {}
         /\ IF Cardinality(pool) >= Quorum THEN Attest ELSE UNCHANGED log

Next == Count \/ Close

Spec == Init /\ [][Next]_vars
=============================================================================
