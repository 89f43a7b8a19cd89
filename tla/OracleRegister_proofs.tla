------------------------ MODULE OracleRegister_proofs ------------------------
(***************************************************************************)
(* The register and the nodes that join it, for any nodes, funds, stake    *)
(* and bounds.  The ledger and the starts are proved about apart: a start  *)
(* leaves the account alone, and the program leaves the key files alone.   *)
(***************************************************************************)
EXTENDS OracleRegister, OracleMerkleTree_proofs, FiniteSetTheorems, TLAPS

-----------------------------------------------------------------------------
(* Lists of entries.                                                       *)

(* The places of a list that hold one of these entries. *)
PlacesOf(list, some) == {i \in DOMAIN list : list[i] \in some}

LEMMA PlacesFinite ==
  ASSUME NEW list \in Seq(Entry), NEW some
  PROVE  IsFiniteSet(PlacesOf(list, some)) /\ Cardinality(PlacesOf(list, some)) \in Nat
<1>1. IsFiniteSet(1 .. Len(list))
  BY FS_Interval
<1>2. PlacesOf(list, some) \in SUBSET (1 .. Len(list))
  BY DEF PlacesOf
<1> QED  BY <1>1, <1>2, FS_Subset, FS_CardinalityType

(* An entry that joins the list is one more of those it belongs to. *)
LEMMA OneMoreEntry ==
  ASSUME NEW list \in Seq(Entry), NEW e \in Entry, NEW some
  PROVE  Cardinality(PlacesOf(Append(list, e), some)) =
           Cardinality(PlacesOf(list, some)) + (IF e \in some THEN 1 ELSE 0)
<1> DEFINE n == Len(list)
           before == PlacesOf(list, some)
<1>1. /\ n \in Nat /\ DOMAIN list = 1 .. n /\ DOMAIN Append(list, e) = 1 .. n + 1
      /\ Append(list, e)[n + 1] = e
      /\ \A i \in 1 .. n : Append(list, e)[i] = list[i]
  OBVIOUS
<1>2. n + 1 \notin before
  BY <1>1 DEF PlacesOf
<1>3. CASE e \in some
  <2>1. PlacesOf(Append(list, e), some) = before \cup {n + 1}
    BY <1>1, <1>3 DEF PlacesOf
  <2>2. Cardinality(before \cup {n + 1}) = Cardinality(before) + 1
    BY <1>2, PlacesFinite, FS_AddElement
  <2> QED  BY <1>3, <2>1, <2>2
<1>4. CASE e \notin some
  <2>1. PlacesOf(Append(list, e), some) = before
    BY <1>1, <1>4 DEF PlacesOf
  <2> QED  BY <1>4, <2>1, PlacesFinite
<1> QED  BY <1>3, <1>4

OfVault(k) == {e \in Entry : e.to = k}
OfNode(n)  == {e \in Entry : e.node = n}

(* What a node pays is in LON in the vault of the key that it enters. *)
NodesStakeLON ==
  \A i \in DOMAIN inserted :
    inserted[i].node # Other => /\ inserted[i].to = inserted[i].key
                                /\ vault[inserted[i].key].token = "LON"

(* StakesOfNodesStand, in terms of places. *)
Staked ==
  /\ \A n \in Node : funds[n] = InitialFunds[n]
                                  - StakeAmount * Cardinality(PlacesOf(inserted, OfNode(n)))
  /\ \A k \in Key  : vault[k].amount = StakeAmount * Cardinality(PlacesOf(inserted, OfVault(k)))
  /\ NodesStakeLON

LEMMA StakedMeaning ==
  ASSUME inserted \in Seq(Entry)
  PROVE  Staked <=> StakesOfNodesStand
<1>1. \A i \in DOMAIN inserted : inserted[i] \in Entry
  OBVIOUS
<1>2. ASSUME NEW k \in Key
      PROVE  PlacesOf(inserted, OfVault(k)) = {i \in DOMAIN inserted : inserted[i].to = k}
  BY <1>1 DEF PlacesOf, OfVault
<1>3. ASSUME NEW n \in Node
      PROVE  PlacesOf(inserted, OfNode(n)) = {i \in DOMAIN inserted : inserted[i].node = n}
  BY <1>1 DEF PlacesOf, OfNode
<1> QED  BY <1>2, <1>3 DEF Staked, NodesStakeLON, StakesOfNodesStand, Entries

-----------------------------------------------------------------------------
(* The invariant.                                                          *)

(* The register account: the array has the entries at their indices, and   *)
(* the tree is that of the array and fit for the next entry.               *)
Listing ==
  /\ TreeRight(mtree, Listed)
  /\ Len(inserted) = mtree.next_index
  /\ \A i \in DOMAIN inserted : registered[i - 1] = Leaf(inserted[i].key)
  /\ \A i \in mtree.next_index .. Capacity - 1 : registered[i] = ZeroLeaf
  /\ ~initialized => inserted = <<>>

HasEntry(n) == \E i \in DOMAIN inserted : inserted[i].node = n
HasKey(k)   == \E i \in DOMAIN inserted : inserted[i].key = k

(* A process has a key, and once it is past writing it that of its file. *)
KeysHeld ==
  \A n \in Node :
    /\ phase[n] # "stopped" => key[n] \in Key
    /\ phase[n] = "writing" => key_file[n] = NoKey
    /\ phase[n] \notin {"stopped", "writing"} => key_file[n] = key[n]

(* What was submitted and what was registered in the name of a node is the *)
(* key of its file: a key that was submitted is never replaced.            *)
KeysOnFile ==
  /\ \A tx \in mempool : key_file[tx.node] = tx.key
  /\ \A i \in DOMAIN inserted :
       inserted[i].node # Other => /\ inserted[i].key \in Key
                                   /\ key_file[inserted[i].node] = inserted[i].key

(* A node runs on an entry of its key, and the nonce, which tells it that  *)
(* its transaction was executed, grows only with its entries.              *)
RunsOnEntry ==
  \A n \in Node : /\ nonce[n] > 0 => HasEntry(n)
                  /\ phase[n] = "running" => HasKey(key[n])

IInv == TypeOK /\ Listing /\ Staked /\ KeysHeld /\ KeysOnFile /\ RunsOnEntry

-----------------------------------------------------------------------------
(* A leaf: what the array may hold. *)
LeafHash == {ZeroLeaf} \cup {Leaf(k) : k \in Key}

LEMMA NewTreeEmpty ==
  /\ NewTree.next_index = 0
  /\ TreeRight(NewTree, <<>>)
BY NewTreeRight DEF NewTree

LEMMA NothingListed ==
  ASSUME mtree.next_index = 0
  PROVE  Listed = <<>>
BY DEF Listed

LEMMA NothingListedNext == (mtree.next_index = 0)' => (Listed = <<>>)'
BY NothingListed, PTL

LEMMA ListedTyped ==
  ASSUME TypeOK
  PROVE  Listed \in Seq(LeafHash) /\ Len(Listed) = mtree.next_index
<1>1. PICK n \in 0 .. Capacity : n = mtree.next_index
  BY DEF TypeOK
<1>2. \A i \in 1 .. n : registered[i - 1] \in LeafHash
  BY CapacityPositive DEF TypeOK, LeafHash
<1> QED  BY <1>1, <1>2, CapacityPositive DEF Listed

LEMMA InitTypeOK == Init => TypeOK
<1> SUFFICES ASSUME Init PROVE TypeOK
  OBVIOUS
<1>1. Key \subseteq Nat /\ Capacity \in Nat
  BY CapacityPositive DEF Key
<1>2. /\ initialized \in BOOLEAN
      /\ mtree.next_index \in 0 .. Capacity
      /\ registered \in [0 .. Capacity - 1 -> {ZeroLeaf} \cup {Leaf(k) : k \in Key}]
  <2>1. initialized = FALSE /\ mtree.next_index = 0 /\ registered = EmptyRegister
    BY NewTreeEmpty DEF Init
  <2>2. EmptyRegister \in [0 .. Capacity - 1 -> {ZeroLeaf} \cup {Leaf(k) : k \in Key}]
    BY DEF EmptyRegister
  <2>3. mtree.next_index \in 0 .. Capacity
    BY <1>1, <2>1
  <2>4. registered \in [0 .. Capacity - 1 -> {ZeroLeaf} \cup {Leaf(k) : k \in Key}]
    BY <2>1, <2>2
  <2>5. initialized \in BOOLEAN
    BY <2>1
  <2> QED  BY <2>3, <2>4, <2>5
<1>3. /\ funds \in [Node -> Nat] /\ nonce \in [Node -> Nat] /\ vault \in [Key -> Holding]
      /\ mempool \subseteq Tx /\ read_nonce \in [Node -> Nat]
  BY RegisterAssumption DEF Init, Holding
<1>4. /\ key_file \in [Node -> Key \cup {NoKey, TornFile}]
      /\ key \in [Node -> Key \cup {NoKey}]
      /\ phase \in [Node -> Phase]
      /\ keys_made \in Key \cup {0}
  BY DEF Init, Phase
<1>5. /\ others \in 0 .. MaxOthers
      /\ restarts \in [Node -> Nat] /\ \A n \in Node : restarts[n] <= MaxRestarts[n]
      /\ inserted \in Seq(Entry)
  BY RegisterAssumption DEF Init
<1> QED  BY <1>2, <1>3, <1>4, <1>5 DEF TypeOK

LEMMA InitInv == Init => IInv
<1> SUFFICES ASSUME Init PROVE IInv
  OBVIOUS
<1>1. TypeOK
  BY InitTypeOK
<1>2. inserted = <<>> /\ Len(inserted) = 0 /\ DOMAIN inserted = {}
  BY DEF Init
<1>3. Listing
  <2>1. TreeRight(mtree, Listed) /\ mtree.next_index = 0
    BY NewTreeEmpty, NothingListed DEF Init
  <2>2. \A i \in 0 .. Capacity - 1 : registered[i] = ZeroLeaf
    BY DEF Init, EmptyRegister
  <2> QED  BY <1>2, <2>1, <2>2 DEF Listing
<1>4. Staked
  <2>1. \A some : PlacesOf(inserted, some) = {}
    BY <1>2 DEF PlacesOf
  <2>2. \A some : Cardinality(PlacesOf(inserted, some)) = 0
    BY <2>1, FS_EmptySet
  <2>3. \A n \in Node : InitialFunds[n] \in Nat
    BY RegisterAssumption
  <2>4. NodesStakeLON
    BY <1>2 DEF NodesStakeLON
  <2> QED  BY <2>2, <2>3, <2>4, RegisterAssumption DEF Init, Staked
<1>5. KeysHeld /\ KeysOnFile /\ RunsOnEntry
  BY <1>2 DEF Init, KeysHeld, KeysOnFile, RunsOnEntry
<1> QED  BY <1>1, <1>3, <1>4, <1>5 DEF IInv

-----------------------------------------------------------------------------
(* The program.                                                            *)

(* One leaf more in the tree, at the first free place of the array. *)
LEMMA InsertLists ==
  ASSUME TypeOK, Listing, initialized, ~IsFull(mtree),
         NEW e \in Entry, NEW token, Insert(e, token)
  PROVE  /\ mtree'.next_index \in 0 .. Capacity
         /\ registered' \in [0 .. Capacity - 1 -> {ZeroLeaf} \cup {Leaf(j) : j \in Key}]
         /\ inserted' \in Seq(Entry)
         /\ Listing'
<1> DEFINE n == mtree.next_index
           k == e.key
<1>1. n \in 0 .. Capacity /\ n < Capacity /\ Capacity \in Nat
  BY CapacityPositive DEF TypeOK, IsFull
<1>2. Leaf(k) \in LeafHash
  BY DEF Entry, LeafHash, Leaf, ZeroLeaf, ZeroKey
<1>3. mtree' = InsertOracle(mtree, Leaf(k)) /\ mtree'.next_index = n + 1
  BY Inserted DEF Listing, TreeRight, Insert
<1>4. registered' = [registered EXCEPT ![n] = Leaf(k)]
  <2>1. InsertOracle(mtree, Leaf(k)).next_index - 1 = n
    BY <1>1, <1>3
  <2> QED  BY <2>1 DEF Insert
<1>5. inserted \in Seq(Entry) /\ e \in Entry /\ inserted' = Append(inserted, e)
  BY DEF TypeOK, Insert
<1>6. registered' \in [0 .. Capacity - 1 -> {ZeroLeaf} \cup {Leaf(j) : j \in Key}]
  <2>1. registered \in [0 .. Capacity - 1 -> {ZeroLeaf} \cup {Leaf(j) : j \in Key}]
    BY DEF TypeOK
  <2> QED  BY <1>2, <1>4, <2>1 DEF LeafHash
<1>7. /\ inserted' \in Seq(Entry) /\ Len(inserted') = n + 1
      /\ DOMAIN inserted' = 1 .. n + 1 /\ inserted'[n + 1] = e
      /\ DOMAIN inserted = 1 .. n /\ \A i \in 1 .. n : inserted'[i] = inserted[i]
  <2>1. Len(inserted) = n
    BY DEF Listing
  <2> HIDE DEF n
  <2> QED  BY <1>5, <2>1
<1>8. /\ registered'[n] = Leaf(k)
      /\ \A i \in 0 .. Capacity - 1 : i # n => registered'[i] = registered[i]
  BY <1>1, <1>4 DEF TypeOK
<1>9. \A i \in DOMAIN inserted' : registered'[i - 1] = Leaf(inserted'[i].key)
  <2> SUFFICES ASSUME NEW i \in 1 .. n + 1
               PROVE  registered'[i - 1] = Leaf(inserted'[i].key)
    BY <1>7
  <2>1. CASE i = n + 1
    BY <1>1, <1>7, <1>8, <2>1
  <2>2. CASE i # n + 1
    <3>1. i \in 1 .. n /\ i - 1 \in 0 .. Capacity - 1 /\ i - 1 # n
      BY <1>1, <2>2
    <3>2. registered[i - 1] = Leaf(inserted[i].key)
      BY <1>7, <3>1 DEF Listing
    <3> QED  BY <1>7, <1>8, <3>1, <3>2
  <2> QED  BY <2>1, <2>2
<1>10. \A i \in n + 1 .. Capacity - 1 : registered'[i] = ZeroLeaf
  <2>1. \A i \in n + 1 .. Capacity - 1 : i \in 0 .. Capacity - 1 /\ i # n /\ i \in n .. Capacity - 1
    BY <1>1
  <2> QED  BY <1>8, <2>1 DEF Listing
<1>11. initialized' = initialized
  BY DEF Insert
<1>12. TreeRight(mtree', Listed')
  <2>1. Listed' = Append(Listed, Leaf(k))
    <3>1. Listed = [i \in 1 .. n |-> registered[i - 1]]
      BY DEF Listed
    <3>2. Listed' = [i \in 1 .. n + 1 |-> registered'[i - 1]]
      BY <1>3 DEF Listed
    <3>3. ASSUME NEW i \in 1 .. n + 1
          PROVE  registered'[i - 1] = IF i <= n THEN registered[i - 1] ELSE Leaf(k)
      <4>1. i - 1 \in 0 .. Capacity - 1 /\ (i <= n <=> i - 1 # n)
        BY <1>1
      <4> QED  BY <1>1, <1>8, <4>1
    <3>4. Listed \in Seq(LeafHash) /\ Len(Listed) = n /\ Leaf(k) \in LeafHash
      BY <1>2, ListedTyped
    <3>5. Append(Listed, Leaf(k)) = [i \in 1 .. n + 1 |->
                                       IF i <= n THEN Listed[i] ELSE Leaf(k)]
      <4>1. PICK list \in Seq(LeafHash) : list = Listed
        BY <3>4
      <4>2. PICK leaf \in LeafHash : leaf = Leaf(k)
        BY <3>4
      <4>3. /\ Append(list, leaf) \in [1 .. n + 1 -> LeafHash]
            /\ \A i \in 1 .. n + 1 : Append(list, leaf)[i] = IF i <= n THEN list[i] ELSE leaf
        <5>1. Len(list) = n /\ n \in Nat
          BY <1>1, <3>4, <4>1
        <5> HIDE DEF n
        <5>2. Append(list, leaf) \in Seq(LeafHash) /\ Len(Append(list, leaf)) = n + 1
          BY <5>1
        <5>3. Append(list, leaf) \in [1 .. n + 1 -> LeafHash]
          <6>1. PICK q \in Seq(LeafHash) : q = Append(list, leaf)
            BY <5>2
          <6>2. q \in [1 .. Len(q) -> LeafHash]
            OBVIOUS
          <6> QED  BY <5>2, <6>1, <6>2
        <5>4. \A i \in 1 .. n + 1 : Append(list, leaf)[i] = IF i <= n THEN list[i] ELSE leaf
          BY <5>1
        <5> QED  BY <5>3, <5>4
      <4> QED  BY <4>1, <4>2, <4>3
    <3>6. \A i \in 1 .. n : Listed[i] = registered[i - 1]
      BY <3>1
    <3> QED  BY <1>1, <3>2, <3>3, <3>5, <3>6
  <2>2. Listed \in Seq(LeafHash) /\ Leaf(k) \in LeafHash
    BY <1>2, ListedTyped
  <2>3. TreeRight(mtree, Listed)
    BY DEF Listing
  <2> QED  BY <1>3, <2>1, <2>2, <2>3, InsertRight
<1>13. Listing'
  BY <1>3, <1>7, <1>9, <1>10, <1>11, <1>12 DEF Listing
<1>14. mtree'.next_index \in 0 .. Capacity
  BY <1>1, <1>3
<1> QED  BY <1>6, <1>7, <1>13, <1>14

(* An entry and the stake in its receiver come together, and a vault that  *)
(* holds LON goes on to hold LON.                                          *)
LEMMA InsertStakes ==
  ASSUME TypeOK, Staked, NEW e \in Entry, NEW token \in Token,
         CanReceive(e.to, token), Insert(e, token),
         e.node # Other => e.to = e.key /\ e.key \in Key /\ token = "LON"
  PROVE  /\ vault' \in [Key -> Holding]
         /\ \A j \in Key :
              vault'[j].amount = StakeAmount * Cardinality(PlacesOf(inserted', OfVault(j)))
         /\ \A n \in Node :
              Cardinality(PlacesOf(inserted', OfNode(n))) =
                Cardinality(PlacesOf(inserted, OfNode(n))) + (IF n = e.node THEN 1 ELSE 0)
         /\ KeysOnFile => NodesStakeLON'
<1>1. inserted \in Seq(Entry) /\ inserted' = Append(inserted, e)
  BY DEF TypeOK, Insert
<1>2. \A some : Cardinality(PlacesOf(inserted', some)) =
                  Cardinality(PlacesOf(inserted, some)) + (IF e \in some THEN 1 ELSE 0)
  BY <1>1, OneMoreEntry
<1>3. \A some : Cardinality(PlacesOf(inserted, some)) \in Nat
  BY <1>1, PlacesFinite
<1>4. /\ \A j \in Key : e \in OfVault(j) <=> j = e.to
      /\ \A n \in Node : e \in OfNode(n) <=> n = e.node
  BY DEF OfVault, OfNode
<1>5. /\ DOMAIN vault' = Key
      /\ \A j \in Key : vault'[j] = IF j = e.to
                          THEN [token |-> token, amount |-> vault[j].amount + StakeAmount]
                          ELSE vault[j]
  BY DEF Insert
<1>6. \A j \in Key : vault[j] \in Holding
  BY DEF TypeOK
<1>7. vault' \in [Key -> Holding]
  <2>1. ASSUME NEW j \in Key PROVE vault'[j] \in Holding
    <3>1. vault[j].amount + StakeAmount \in Nat
      BY <1>6, RegisterAssumption DEF Holding
    <3> QED  BY <1>5, <1>6, <3>1 DEF Holding
  <2>2. vault' = [j \in Key |-> vault'[j]]
    BY DEF Insert
  <2> QED  BY <2>1, <2>2
<1>8. ASSUME NEW j \in Key
      PROVE  vault'[j].amount = StakeAmount * Cardinality(PlacesOf(inserted', OfVault(j)))
  <2>1. PICK c \in Nat : c = Cardinality(PlacesOf(inserted, OfVault(j)))
    BY <1>3
  <2>2. vault[j].amount = StakeAmount * c /\ StakeAmount \in Nat
    BY <2>1, RegisterAssumption DEF Staked
  <2>3. vault'[j].amount = IF j = e.to THEN vault[j].amount + StakeAmount ELSE vault[j].amount
    BY <1>5
  <2>4. Cardinality(PlacesOf(inserted', OfVault(j))) = IF j = e.to THEN c + 1 ELSE c
    BY <1>2, <1>4, <2>1
  <2>5. StakeAmount * (c + 1) = StakeAmount * c + StakeAmount
    BY <2>2
  <2> QED  BY <2>2, <2>3, <2>4, <2>5
<1>9. ASSUME NEW n \in Node
      PROVE  Cardinality(PlacesOf(inserted', OfNode(n))) =
               Cardinality(PlacesOf(inserted, OfNode(n))) + (IF n = e.node THEN 1 ELSE 0)
  BY <1>2, <1>4
<1>10. ASSUME KeysOnFile PROVE NodesStakeLON'
  <2> SUFFICES ASSUME NEW i \in DOMAIN inserted', inserted'[i].node # Other
               PROVE  /\ inserted'[i].to = inserted'[i].key
                      /\ vault'[inserted'[i].key].token = "LON"
    BY DEF NodesStakeLON
  <2>1. \/ i \in DOMAIN inserted /\ inserted'[i] = inserted[i]
        \/ inserted'[i] = e
    BY <1>1
  <2>2. CASE inserted'[i] = e
    BY <1>5, <2>2
  <2>3. CASE i \in DOMAIN inserted /\ inserted'[i] = inserted[i]
    <3>1. PICK j \in Key : j = inserted[i].key
      BY <1>10, <2>3 DEF KeysOnFile
    <3>2. inserted[i].to = j /\ vault[j].token = "LON"
      BY <2>3, <3>1 DEF Staked, NodesStakeLON
    <3>3. j = e.to => token = "LON"
      BY <3>2 DEF CanReceive, NoToken
    <3>4. vault'[j].token = "LON"
      BY <1>5, <3>2, <3>3
    <3> QED  BY <2>3, <3>1, <3>2, <3>4
  <2> QED  BY <2>1, <2>2, <2>3
<1> QED  BY <1>7, <1>8, <1>9, <1>10

(* Entries stay, and the new one is there too. *)
LEMMA InsertKeepsEntries ==
  ASSUME TypeOK, NEW e \in Entry, NEW token, Insert(e, token)
  PROVE  /\ \A n : HasEntry(n) => HasEntry(n)'
         /\ \A j : HasKey(j) => HasKey(j)'
         /\ \E i \in DOMAIN inserted' : inserted'[i].node = e.node
         /\ \A i \in DOMAIN inserted' :
              \/ i \in DOMAIN inserted /\ inserted'[i] = inserted[i]
              \/ inserted'[i] = e
<1>1. inserted \in Seq(Entry) /\ inserted' = Append(inserted, e)
  BY DEF TypeOK, Insert
<1>2. PICK m \in Nat : m = Len(inserted)
  BY <1>1
<1>3. /\ DOMAIN inserted = 1 .. m /\ DOMAIN inserted' = 1 .. m + 1 /\ inserted'[m + 1] = e
      /\ \A i \in 1 .. m : inserted'[i] = inserted[i]
  BY <1>1, <1>2
<1> QED  BY <1>3 DEF HasEntry, HasKey

(* initialize, on an account that has no entries yet. *)
LEMMA InitializeKeeps ==
  ASSUME IInv, Initialize
  PROVE  IInv'
<1>1. inserted = <<>> /\ inserted' = inserted /\ Len(inserted) = 0 /\ DOMAIN inserted = {}
  BY DEF IInv, Listing, Initialize
<1>2. /\ mtree' = NewTree /\ registered' = EmptyRegister /\ initialized' = TRUE
      /\ UNCHANGED <<funds, nonce, vault, mempool, process, others>>
  BY DEF Initialize
<1>3. Listing'
  <2>1. TreeRight(mtree', Listed') /\ mtree'.next_index = 0
    BY <1>2, NewTreeEmpty, NothingListedNext
  <2>2. \A i \in 0 .. Capacity - 1 : registered'[i] = ZeroLeaf
    BY <1>2 DEF EmptyRegister
  <2>3. initialized'
    BY <1>2
  <2> QED  BY <1>1, <2>1, <2>2, <2>3 DEF Listing
<1>4. TypeOK'
  <2>1. TypeOK
    BY DEF IInv
  <2>2. mtree'.next_index \in 0 .. Capacity
    BY <1>2, NewTreeEmpty, CapacityPositive
  <2>3. registered' \in [0 .. Capacity - 1 -> {ZeroLeaf} \cup {Leaf(k) : k \in Key}]
    <3>1. EmptyRegister \in [0 .. Capacity - 1 -> {ZeroLeaf} \cup {Leaf(k) : k \in Key}]
      BY DEF EmptyRegister
    <3> QED  BY <1>2, <3>1
  <2>4. initialized' \in BOOLEAN
    BY <1>2
  <2> QED  BY <1>1, <1>2, <2>1, <2>2, <2>3, <2>4 DEF TypeOK, process
<1>5. Staked' /\ KeysHeld' /\ KeysOnFile' /\ RunsOnEntry'
  BY <1>1, <1>2 DEF IInv, Staked, NodesStakeLON, KeysHeld, KeysOnFile, RunsOnEntry, HasEntry,
                    HasKey, process
<1> QED  BY <1>3, <1>4, <1>5 DEF IInv

LEMMA OtherRegistersKeeps ==
  ASSUME IInv, OtherRegisters
  PROVE  IInv'
<1>1. TypeOK /\ Listing /\ Staked /\ KeysHeld /\ KeysOnFile /\ RunsOnEntry
  BY DEF IInv
<1>2. /\ initialized /\ ~IsFull(mtree)
      /\ UNCHANGED <<funds, nonce, mempool, key_file, key, phase, read_nonce, restarts>>
  BY DEF OtherRegisters
<1>3. PICK k \in Key \cup {ZeroKey}, to \in Key \cup {NoVault}, token \in Token :
        /\ keys_made' = (IF k <= keys_made THEN keys_made ELSE k)
        /\ CanReceive(to, token)
        /\ Insert([node |-> Other, key |-> k, to |-> to], token)
  BY DEF OtherRegisters
<1>4. keys_made' \in Key \cup {0} /\ others' \in 0 .. MaxOthers
  BY <1>1, <1>3, RegisterAssumption DEF OtherRegisters, TypeOK, ZeroKey
<1>5. PICK e \in Entry : e = [node |-> Other, key |-> k, to |-> to]
  BY DEF Entry
<1>6. Insert(e, token) /\ CanReceive(e.to, token) /\ e.node = Other
  BY <1>3, <1>5
<1>7. /\ mtree'.next_index \in 0 .. Capacity
      /\ registered' \in [0 .. Capacity - 1 -> {ZeroLeaf} \cup {Leaf(j) : j \in Key}]
      /\ inserted' \in Seq(Entry)
      /\ Listing'
  BY <1>1, <1>2, <1>6, InsertLists
<1>8. /\ vault' \in [Key -> Holding]
      /\ \A j \in Key :
           vault'[j].amount = StakeAmount * Cardinality(PlacesOf(inserted', OfVault(j)))
      /\ \A n \in Node :
           Cardinality(PlacesOf(inserted', OfNode(n))) =
             Cardinality(PlacesOf(inserted, OfNode(n))) + (IF n = Other THEN 1 ELSE 0)
      /\ NodesStakeLON'
  BY <1>1, <1>6, InsertStakes
<1>9. Staked'
  <2>1. \A n \in Node : Cardinality(PlacesOf(inserted, OfNode(n))) \in Nat
    BY <1>1, PlacesFinite DEF TypeOK
  <2>2. \A n \in Node : n # Other
    BY RegisterAssumption
  <2>3. \A n \in Node : Cardinality(PlacesOf(inserted', OfNode(n))) =
                        Cardinality(PlacesOf(inserted, OfNode(n)))
    BY <1>8, <2>1, <2>2
  <2> QED  BY <1>1, <1>2, <1>8, <2>3 DEF Staked
<1>10. TypeOK'
  <2>1. initialized' \in BOOLEAN
    BY <1>1, <1>6 DEF Insert, TypeOK
  <2> QED  BY <1>1, <1>2, <1>4, <1>7, <1>8, <2>1 DEF TypeOK
<1>11. /\ \A n : HasEntry(n) => HasEntry(n)'
       /\ \A j : HasKey(j) => HasKey(j)'
       /\ \A i \in DOMAIN inserted' :
            \/ i \in DOMAIN inserted /\ inserted'[i] = inserted[i]
            \/ inserted'[i] = e
  BY <1>1, <1>6, InsertKeepsEntries
<1>12. KeysHeld' /\ RunsOnEntry'
  BY <1>1, <1>2, <1>11 DEF KeysHeld, RunsOnEntry
<1>13. KeysOnFile'
  BY <1>1, <1>2, <1>6, <1>11 DEF KeysOnFile
<1> QED  BY <1>7, <1>9, <1>10, <1>12, <1>13 DEF IInv

(* A transaction that succeeds pays for its entry and uses up its nonce. *)
LEMMA RegisterKeeps ==
  ASSUME IInv, NEW tx \in mempool, Register(tx), CanRegister(tx),
         mempool' = mempool \ {tx}, UNCHANGED <<process, others>>
  PROVE  IInv'
<1>1. TypeOK /\ Listing /\ Staked /\ KeysHeld /\ KeysOnFile /\ RunsOnEntry
  BY DEF IInv
<1>2. /\ initialized /\ ~IsFull(mtree)
      /\ funds[tx.node] >= StakeAmount
      /\ Insert(EntryOf(tx), "LON") /\ CanReceive(tx.key, "LON")
      /\ funds' = [funds EXCEPT ![tx.node] = @ - StakeAmount]
      /\ nonce' = [nonce EXCEPT ![tx.node] = @ + 1]
  BY DEF CanRegister, Register
<1>3. /\ mempool' \subseteq mempool
      /\ UNCHANGED <<key_file, key, phase, read_nonce, keys_made, restarts, others>>
  BY DEF process
<1>4. /\ tx.node \in Node /\ tx.node # Other /\ tx.key \in Key
  BY <1>1, RegisterAssumption DEF TypeOK, Tx
<1>5. PICK e \in Entry : e = EntryOf(tx)
  BY <1>4 DEF Entry, EntryOf
<1>6. /\ e.node = tx.node /\ e.key = tx.key /\ e.to = tx.key
       /\ Insert(e, "LON") /\ CanReceive(e.to, "LON") /\ "LON" \in Token
  BY <1>2, <1>5 DEF EntryOf, Token
<1>7. /\ mtree'.next_index \in 0 .. Capacity
      /\ registered' \in [0 .. Capacity - 1 -> {ZeroLeaf} \cup {Leaf(j) : j \in Key}]
      /\ inserted' \in Seq(Entry)
      /\ Listing'
  BY <1>1, <1>2, <1>6, InsertLists
<1>8. /\ vault' \in [Key -> Holding]
      /\ \A j \in Key :
           vault'[j].amount = StakeAmount * Cardinality(PlacesOf(inserted', OfVault(j)))
      /\ \A n \in Node :
           Cardinality(PlacesOf(inserted', OfNode(n))) =
             Cardinality(PlacesOf(inserted, OfNode(n))) + (IF n = tx.node THEN 1 ELSE 0)
      /\ NodesStakeLON'
  BY <1>1, <1>4, <1>6, InsertStakes
<1>9. ASSUME NEW n \in Node
      PROVE  funds'[n] = InitialFunds[n]
                           - StakeAmount * Cardinality(PlacesOf(inserted', OfNode(n)))
  <2>1. PICK c \in Nat : c = Cardinality(PlacesOf(inserted, OfNode(n)))
    BY <1>1, PlacesFinite DEF TypeOK
  <2>2. /\ funds[n] = InitialFunds[n] - StakeAmount * c
        /\ StakeAmount \in Nat /\ InitialFunds[n] \in Nat
    BY <1>1, <2>1, RegisterAssumption DEF Staked
  <2>3. funds'[n] = IF n = tx.node THEN funds[n] - StakeAmount ELSE funds[n]
    BY <1>1, <1>2 DEF TypeOK
  <2>4. Cardinality(PlacesOf(inserted', OfNode(n))) = IF n = tx.node THEN c + 1 ELSE c
    BY <1>8, <2>1
  <2>5. StakeAmount * (c + 1) = StakeAmount * c + StakeAmount /\ StakeAmount * c \in Nat
    BY <2>2
  <2> QED  BY <2>2, <2>3, <2>4, <2>5
<1>10. Staked'
  BY <1>8, <1>9 DEF Staked
<1>11. TypeOK'
  <2>1. initialized' \in BOOLEAN
    BY <1>1, <1>6 DEF Insert, TypeOK
  <2>2. funds' \in [Node -> Nat] /\ nonce' \in [Node -> Nat]
    <3>1. funds[tx.node] - StakeAmount \in Nat /\ nonce[tx.node] + 1 \in Nat
      BY <1>1, <1>2, <1>4, RegisterAssumption DEF TypeOK
    <3> QED  BY <1>1, <1>2, <3>1 DEF TypeOK
  <2>3. mempool' \subseteq Tx
    BY <1>1, <1>3 DEF TypeOK
  <2> QED  BY <1>1, <1>3, <1>7, <1>8, <2>1, <2>2, <2>3 DEF TypeOK
<1>12. /\ \A n : HasEntry(n) => HasEntry(n)'
       /\ \A j : HasKey(j) => HasKey(j)'
       /\ \E i \in DOMAIN inserted' : inserted'[i].node = tx.node
       /\ \A i \in DOMAIN inserted' :
            \/ i \in DOMAIN inserted /\ inserted'[i] = inserted[i]
            \/ inserted'[i] = e
  BY <1>1, <1>6, InsertKeepsEntries
<1>13. KeysHeld'
  BY <1>1, <1>3 DEF KeysHeld
<1>14. RunsOnEntry'
  <2>1. HasEntry(tx.node)'
    BY <1>12 DEF HasEntry
  <2>2. \A n \in Node : n # tx.node => nonce'[n] = nonce[n]
    BY <1>1, <1>2 DEF TypeOK
  <2> QED  BY <1>1, <1>3, <1>12, <2>1, <2>2 DEF RunsOnEntry
<1>15. KeysOnFile'
  BY <1>1, <1>3, <1>4, <1>12, <1>6 DEF KeysOnFile
<1> QED  BY <1>7, <1>10, <1>11, <1>13, <1>14, <1>15 DEF IInv

LEMMA ExecuteKeeps ==
  ASSUME IInv, NEW tx \in mempool, Execute(tx)
  PROVE  IInv'
<1>1. CASE CanRegister(tx)
  BY <1>1, RegisterKeeps DEF Execute
<1>2. CASE ~CanRegister(tx)
  <2>1. UNCHANGED ledger /\ UNCHANGED <<process, others>> /\ mempool' \subseteq mempool
    BY <1>2 DEF Execute
  <2>2. TypeOK'
    BY <2>1 DEF IInv, TypeOK, ledger, account, process
  <2>3. Listing' /\ Staked'
    BY <2>1 DEF IInv, Listing, Listed, Staked, NodesStakeLON, ledger, account
  <2>4. KeysHeld' /\ KeysOnFile' /\ RunsOnEntry'
    BY <2>1 DEF IInv, KeysHeld, KeysOnFile, RunsOnEntry, HasEntry, HasKey, ledger, account, process
  <2> QED  BY <2>2, <2>3, <2>4 DEF IInv
<1> QED  BY <1>1, <1>2

-----------------------------------------------------------------------------
(* The start of a node.                                                    *)

LEMMA EntriesTyped ==
  ASSUME TypeOK
  PROVE  \A i \in DOMAIN inserted :
           inserted[i].key \in Key \cup {ZeroKey} /\ inserted[i].node \in Node \cup {Other}
<1>1. inserted \in Seq(Entry)
  BY DEF TypeOK
<1>2. \A i \in DOMAIN inserted : inserted[i] \in Entry
  BY <1>1
<1> QED  BY <1>2 DEF Entry

(* A start reads the ledger only. *)
LEMMA LedgerKept ==
  ASSUME IInv, UNCHANGED ledger
  PROVE  Listing' /\ Staked'
BY DEF IInv, Listing, Listed, Staked, NodesStakeLON, ledger, account

LEMMA LoadKeyKeeps ==
  ASSUME IInv, NEW n \in Node, LoadKey(n)
  PROVE  TypeOK' /\ KeysHeld' /\ KeysOnFile' /\ RunsOnEntry'
<1>1. /\ key_file[n] \in Key /\ phase[n] = "stopped"
      /\ phase' = [phase EXCEPT ![n] = "fetching"]
      /\ key' = [key EXCEPT ![n] = key_file[n]]
      /\ UNCHANGED <<ledger, mempool, others, key_file, read_nonce, keys_made, restarts>>
  BY DEF LoadKey, Goes
<1>2. TypeOK'
  BY <1>1 DEF IInv, TypeOK, Phase, ledger, account
<1>3. KeysHeld'
  BY <1>1 DEF IInv, TypeOK, KeysHeld
<1>4. KeysOnFile' /\ RunsOnEntry'
  BY <1>1 DEF IInv, TypeOK, KeysOnFile, RunsOnEntry, HasEntry, HasKey, ledger
<1> QED  BY <1>2, <1>3, <1>4

LEMMA CreateKeyKeeps ==
  ASSUME IInv, NEW n \in Node, CreateKey(n)
  PROVE  TypeOK' /\ KeysHeld' /\ KeysOnFile' /\ RunsOnEntry'
<1>1. /\ key_file[n] = NoKey /\ phase[n] = "stopped"
      /\ phase' = [phase EXCEPT ![n] = "writing"]
      /\ key' = [key EXCEPT ![n] = keys_made']
      /\ UNCHANGED <<ledger, mempool, others, key_file, read_nonce, restarts>>
  BY DEF CreateKey, Goes
<1>2. keys_made' \in Key
  BY RegisterAssumption DEF CreateKey, IInv, TypeOK, Key
<1>3. TypeOK'
  BY <1>1, <1>2 DEF IInv, TypeOK, Phase, ledger, account
<1>4. KeysHeld'
  BY <1>1, <1>2 DEF IInv, TypeOK, KeysHeld
<1>5. KeysOnFile' /\ RunsOnEntry'
  BY <1>1 DEF IInv, TypeOK, KeysOnFile, RunsOnEntry, HasEntry, HasKey, ledger
<1> QED  BY <1>3, <1>4, <1>5

(* The file was empty until now, so nothing was submitted from it. *)
LEMMA KeyWrittenKeeps ==
  ASSUME IInv, NEW n \in Node, KeyWritten(n)
  PROVE  TypeOK' /\ KeysHeld' /\ KeysOnFile' /\ RunsOnEntry'
<1>1. /\ phase[n] = "writing"
      /\ phase' = [phase EXCEPT ![n] = "fetching"]
      /\ key_file' = [key_file EXCEPT ![n] = key[n]]
      /\ UNCHANGED <<ledger, mempool, others, key, read_nonce, keys_made, restarts>>
  BY DEF KeyWritten, Goes
<1>2. key[n] \in Key /\ key_file[n] \notin Key
  BY <1>1 DEF IInv, KeysHeld, Key, NoKey
<1>3. TypeOK'
  BY <1>1, <1>2 DEF IInv, TypeOK, Phase, ledger, account
<1>4. KeysHeld'
  BY <1>1, <1>2 DEF IInv, TypeOK, KeysHeld
<1>5. KeysOnFile'
  <2>1. \A tx \in mempool : tx.key \in Key /\ tx.node \in Node
    BY DEF IInv, TypeOK, Tx
  <2>2. \A i \in DOMAIN inserted :
          inserted[i].key \in Key \cup {ZeroKey} /\ inserted[i].node \in Node \cup {Other}
    BY EntriesTyped DEF IInv
  <2> QED  BY <1>1, <1>2, <2>1, <2>2 DEF IInv, TypeOK, KeysOnFile, ledger
<1>6. RunsOnEntry'
  BY <1>1 DEF IInv, TypeOK, RunsOnEntry, HasEntry, HasKey, ledger
<1> QED  BY <1>3, <1>4, <1>5, <1>6

(* A leaf of the array that is not zero is an entry. *)
LEMMA RegisteredMeaning ==
  ASSUME TypeOK, Listing, NEW k \in Key
  PROVE  IsRegistered(k) <=> HasKey(k)
<1>1. DOMAIN registered = 0 .. Capacity - 1 /\ Capacity \in Nat
  BY CapacityPositive DEF TypeOK
<1>2. PICK m \in 0 .. Capacity : m = mtree.next_index
  BY DEF TypeOK
<1>3. /\ DOMAIN inserted = 1 .. m
      /\ \A i \in 1 .. m : registered[i - 1] = Leaf(inserted[i].key)
      /\ \A i \in m .. Capacity - 1 : registered[i] = ZeroLeaf
  BY <1>2 DEF TypeOK, Listing
<1>4. Leaf(k) # ZeroLeaf /\ \A j : Leaf(j) = Leaf(k) => j = k
  BY DEF Leaf, ZeroLeaf, Key
<1>5. ASSUME IsRegistered(k) PROVE HasKey(k)
  <2>1. PICK i \in 0 .. Capacity - 1 : registered[i] = Leaf(k)
    BY <1>1, <1>5 DEF IsRegistered
  <2>2. i < m
    BY <1>2, <1>3, <1>4, <2>1, <1>1
  <2>3. PICK j \in 1 .. m : j - 1 = i
    <3>1. i + 1 \in 1 .. m /\ i + 1 - 1 = i
      BY <1>2, <2>2
    <3> QED  BY <3>1
  <2> QED  BY <1>3, <1>4, <2>1, <2>3 DEF HasKey
<1>6. ASSUME HasKey(k) PROVE IsRegistered(k)
  <2>1. PICK i \in 1 .. m : inserted[i].key = k
    BY <1>3, <1>6 DEF HasKey
  <2>2. i - 1 \in 0 .. Capacity - 1
    BY <1>1, <1>2
  <2> QED  BY <1>1, <1>3, <2>1, <2>2 DEF IsRegistered
<1> QED  BY <1>5, <1>6

(* The node finds its key in the register, or goes on without. *)
LEMMA FetchRegisterKeeps ==
  ASSUME IInv, NEW n \in Node, FetchRegister(n)
  PROVE  TypeOK' /\ KeysHeld' /\ KeysOnFile' /\ RunsOnEntry'
<1>1. PICK to \in {"running", "signing"} :
        /\ phase' = [phase EXCEPT ![n] = to]
        /\ to = "running" => IsRegistered(key[n])
  BY DEF FetchRegister, Goes
<1>2. /\ phase[n] = "fetching"
      /\ UNCHANGED <<ledger, mempool, others, key_file, key, read_nonce, keys_made, restarts>>
  BY DEF FetchRegister, Goes
<1>3. key[n] \in Key
  BY <1>2 DEF IInv, KeysHeld
<1>4. to = "running" => HasKey(key[n])
  BY <1>1, <1>3, RegisteredMeaning DEF IInv
<1>5. TypeOK'
  BY <1>1, <1>2 DEF IInv, TypeOK, Phase, ledger, account
<1>6. KeysHeld' /\ KeysOnFile'
  BY <1>1, <1>2 DEF IInv, TypeOK, KeysHeld, KeysOnFile, ledger
<1>7. RunsOnEntry'
  BY <1>1, <1>2, <1>4 DEF IInv, TypeOK, RunsOnEntry, HasEntry, HasKey, ledger
<1> QED  BY <1>5, <1>6, <1>7

LEMMA GetNonceKeeps ==
  ASSUME IInv, NEW n \in Node, GetNonce(n)
  PROVE  TypeOK' /\ KeysHeld' /\ KeysOnFile' /\ RunsOnEntry'
<1>1. /\ phase[n] = "signing"
      /\ phase' = [phase EXCEPT ![n] = "submitting"]
      /\ read_nonce' = [read_nonce EXCEPT ![n] = nonce[n]]
      /\ UNCHANGED <<ledger, mempool, others, key_file, key, keys_made, restarts>>
  BY DEF GetNonce, Goes
<1>2. TypeOK'
  BY <1>1 DEF IInv, TypeOK, Phase, ledger, account
<1>3. KeysHeld' /\ KeysOnFile'
  BY <1>1 DEF IInv, TypeOK, KeysHeld, KeysOnFile, ledger
<1>4. RunsOnEntry'
  BY <1>1 DEF IInv, TypeOK, RunsOnEntry, HasEntry, HasKey, ledger
<1> QED  BY <1>2, <1>3, <1>4

LEMMA SendTransactionKeeps ==
  ASSUME IInv, NEW n \in Node, SendTransaction(n)
  PROVE  TypeOK' /\ KeysHeld' /\ KeysOnFile' /\ RunsOnEntry'
<1> DEFINE tx == [node |-> n, key |-> key[n], nonce |-> read_nonce[n]]
<1>1. /\ phase[n] = "submitting"
      /\ phase' = [phase EXCEPT ![n] = "polling"]
      /\ mempool' = mempool \cup {tx}
      /\ UNCHANGED <<ledger, others, key_file, key, read_nonce, keys_made, restarts>>
  BY DEF SendTransaction, Goes
<1>2. tx \in Tx /\ key_file[tx.node] = tx.key
  BY <1>1 DEF IInv, TypeOK, Tx, KeysHeld
<1> HIDE DEF tx
<1>3. TypeOK'
  BY <1>1, <1>2 DEF IInv, TypeOK, Phase, ledger, account
<1>4. KeysHeld' /\ KeysOnFile'
  BY <1>1, <1>2 DEF IInv, TypeOK, KeysHeld, KeysOnFile, ledger
<1>5. RunsOnEntry'
  BY <1>1 DEF IInv, TypeOK, RunsOnEntry, HasEntry, HasKey, ledger
<1> QED  BY <1>3, <1>4, <1>5

(* The nonce has moved, so the account has an entry, and its entries have  *)
(* the key of the file.                                                    *)
LEMMA ConfirmedKeeps ==
  ASSUME IInv, NEW n \in Node, Confirmed(n)
  PROVE  TypeOK' /\ KeysHeld' /\ KeysOnFile' /\ RunsOnEntry'
<1>1. /\ phase[n] = "polling"
      /\ nonce[n] > read_nonce[n]
      /\ phase' = [phase EXCEPT ![n] = "running"]
      /\ UNCHANGED <<ledger, mempool, others, key_file, key, read_nonce, keys_made, restarts>>
  BY DEF Confirmed, Goes
<1>2. HasKey(key[n])
  <2>1. nonce[n] > 0
    BY <1>1 DEF IInv, TypeOK
  <2>2. PICK i \in DOMAIN inserted : inserted[i].node = n
    BY <2>1 DEF IInv, RunsOnEntry, HasEntry
  <2>3. key_file[n] = inserted[i].key
    BY <2>2, RegisterAssumption DEF IInv, KeysOnFile
  <2>4. key_file[n] = key[n]
    BY <1>1 DEF IInv, KeysHeld
  <2> QED  BY <2>3, <2>4 DEF HasKey
<1>3. TypeOK'
  BY <1>1 DEF IInv, TypeOK, Phase, ledger, account
<1>4. KeysHeld' /\ KeysOnFile'
  BY <1>1 DEF IInv, TypeOK, KeysHeld, KeysOnFile, ledger
<1>5. RunsOnEntry'
  BY <1>1, <1>2 DEF IInv, TypeOK, RunsOnEntry, HasEntry, HasKey, ledger
<1> QED  BY <1>3, <1>4, <1>5

(* Only a file that held no key is torn. *)
LEMMA ExitKeeps ==
  ASSUME IInv, NEW n \in Node, Exit(n)
  PROVE  TypeOK' /\ KeysHeld' /\ KeysOnFile' /\ RunsOnEntry'
<1>1. /\ phase' = [phase EXCEPT ![n] = "stopped"]
      /\ key' = [key EXCEPT ![n] = NoKey]
      /\ restarts' = [restarts EXCEPT ![n] = @ + 1]
      /\ UNCHANGED <<ledger, mempool, others, read_nonce, keys_made>>
  BY DEF Exit
<1>2. \/ key_file' = key_file
      \/ key_file[n] \notin Key /\ key_file' = [key_file EXCEPT ![n] = TornFile]
  BY DEF Exit, IInv, KeysHeld, Key, NoKey
<1>3. TypeOK'
  <2>1. restarts' \in [Node -> Nat] /\ \A m \in Node : restarts'[m] <= MaxRestarts[m]
    <3>1. /\ restarts \in [Node -> Nat] /\ \A m \in Node : restarts[m] <= MaxRestarts[m]
          /\ restarts[n] < MaxRestarts[n] /\ restarts' = [restarts EXCEPT ![n] = @ + 1]
      BY DEF Exit, IInv, TypeOK
    <3>2. restarts[n] \in Nat /\ MaxRestarts[n] \in Nat
      BY <3>1, RegisterAssumption
    <3> QED  BY <3>1, <3>2
  <2>2. key_file' \in [Node -> Key \cup {NoKey, TornFile}]
    BY <1>2 DEF IInv, TypeOK
  <2> QED  BY <1>1, <2>1, <2>2 DEF IInv, TypeOK, Phase, ledger, account
<1>4. KeysHeld'
  BY <1>1, <1>2 DEF IInv, TypeOK, KeysHeld
<1>5. KeysOnFile'
  <2>1. \A tx \in mempool : tx.key \in Key /\ tx.node \in Node
    BY DEF IInv, TypeOK, Tx
  <2>2. \A i \in DOMAIN inserted :
          inserted[i].key \in Key \cup {ZeroKey} /\ inserted[i].node \in Node \cup {Other}
    BY EntriesTyped DEF IInv
  <2> QED  BY <1>1, <1>2, <2>1, <2>2 DEF IInv, TypeOK, KeysOnFile, ledger
<1>6. RunsOnEntry'
  BY <1>1 DEF IInv, TypeOK, RunsOnEntry, HasEntry, HasKey, ledger
<1> QED  BY <1>3, <1>4, <1>5, <1>6

LEMMA StartKeeps ==
  ASSUME IInv, NEW n \in Node, Startup(n) \/ Exit(n)
  PROVE  IInv'
<1>1. UNCHANGED ledger
  BY DEF Startup, LoadKey, CreateKey, KeyWritten, FetchRegister, GetNonce, SendTransaction,
         Confirmed, Exit
<1>2. TypeOK' /\ KeysHeld' /\ KeysOnFile' /\ RunsOnEntry'
  BY LoadKeyKeeps, CreateKeyKeeps, KeyWrittenKeeps, FetchRegisterKeeps, GetNonceKeeps,
     SendTransactionKeeps, ConfirmedKeeps, ExitKeeps
  DEF Startup
<1> QED  BY <1>1, <1>2, LedgerKept DEF IInv

-----------------------------------------------------------------------------
LEMMA StepKeeps ==
  ASSUME IInv, [Next]_vars
  PROVE  IInv'
<1>1. CASE UNCHANGED vars
  <2>1. UNCHANGED <<ledger, mempool, process, others>>
    BY <1>1 DEF vars
  <2>2. TypeOK' /\ KeysHeld' /\ KeysOnFile' /\ RunsOnEntry'
    BY <2>1 DEF IInv, TypeOK, KeysHeld, KeysOnFile, RunsOnEntry, HasEntry, HasKey,
                ledger, account, process
  <2> QED  BY <2>1, <2>2, LedgerKept DEF IInv
<1>2. CASE Next
  BY <1>2, InitializeKeeps, OtherRegistersKeeps, ExecuteKeeps, StartKeeps DEF Next
<1> QED  BY <1>1, <1>2

LEMMA Invariance == Spec => []IInv
BY InitInv, StepKeeps, PTL DEF Spec

(* Every account, file and process holds what it should, and the tree and  *)
(* the array stay within their capacity.                                   *)
THEOREM TypeCorrect == Spec => []TypeOK
<1>1. IInv => TypeOK
  BY DEF IInv
<1> QED  BY <1>1, Invariance, PTL

(* No node pays for nothing: whatever accounts, keys and tokens others     *)
(* register with, each payment of a node made one entry, and it stands in  *)
(* LON in the vault of that entry's key, apart from any other token.       *)
THEOREM StakesAlwaysStand == Spec => []StakesOfNodesStand
<1>1. IInv => StakesOfNodesStand
  BY StakedMeaning DEF IInv, TypeOK
<1> QED  BY <1>1, Invariance, PTL

(* A node runs as an oracle of the register, under the key of its file,    *)
(* and that file still holds the key of every stake it paid, whatever step *)
(* it was stopped at.                                                      *)
THEOREM IdentityKept == Spec => []KeepsItsIdentity
<1>1. IInv => KeepsItsIdentity
  <2> SUFFICES ASSUME IInv PROVE KeepsItsIdentity
    OBVIOUS
  <2>1. ASSUME NEW n \in Node, phase[n] = "running"
        PROVE  IsRegistered(key[n]) /\ key_file[n] = key[n]
    <3>1. key[n] \in Key /\ key_file[n] = key[n]
      BY <2>1 DEF IInv, KeysHeld
    <3>2. HasKey(key[n])
      BY <2>1 DEF IInv, RunsOnEntry
    <3> QED  BY <3>1, <3>2, RegisteredMeaning DEF IInv
  <2>2. \A i \in DOMAIN inserted :
          inserted[i].node # Other => key_file[inserted[i].node] = inserted[i].key
    BY DEF IInv, KeysOnFile
  <2> QED  BY <2>1, <2>2 DEF KeepsItsIdentity
<1> QED  BY <1>1, Invariance, PTL

(* The array that the indexers read and the tree agree on the oracles, for *)
(* a tree of any depth and any number of registrations: the root is that   *)
(* of the full tree over the array, and the frontier is fit for the next.  *)
THEOREM TreeMatchesArray == Spec => []ArrayMatchesTree
<1>1. IInv => ArrayMatchesTree
  <2> SUFFICES ASSUME IInv PROVE ArrayMatchesTree
    OBVIOUS
  <2>1. DOMAIN inserted = 1 .. mtree.next_index
    BY DEF IInv, TypeOK, Listing
  <2>2. ArrayListsEntries
    BY <2>1 DEF IInv, Listing, ArrayListsEntries, Listed
  <2> QED  BY <2>2 DEF IInv, Listing, TreeRight, ArrayMatchesTree
<1> QED  BY <1>1, Invariance, PTL
=============================================================================
