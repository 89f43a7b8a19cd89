--------------------------- MODULE OracleRegister ---------------------------
(***************************************************************************)
(* The oracle_register program and the nodes that register with it:        *)
(*   oracle_register/methods/guest/src/bin/oracle_register.rs,             *)
(*   oracle_register_client/src/oracle_register_client.rs,                 *)
(*   oracle_node/sequencer/src/register_contract.rs and main.rs.           *)
(*                                                                         *)
(* A starting node loads or makes its key, reads the register and, if its  *)
(* key is not there, reads its nonce, submits a register transaction and   *)
(* polls for it.  Each of these is a call of its own; the transaction is   *)
(* executed in between at any time; the node may be restarted at any point.*)
(*                                                                         *)
(* Besides the nodes anyone may register, with the command line: which key *)
(* is entered, which account receives the stake and of which token it is   *)
(* are the caller's choice; the program relates none of them to another.   *)
(***************************************************************************)
EXTENDS OracleMerkleTree, FiniteSets

CONSTANTS Node,            \* oracle nodes, each with its funding account
          StakeAmount,     \* LON_STAKE_AMOUNT
          InitialFunds,    \* node -> tokens of its funding account at the start
          MaxRestarts,     \* bound: node -> how often it is restarted
          MaxOthers,       \* bound: registrations with the command line
          MaxKeys          \* bound: keys drawn

NoKey    == 0
ZeroKey  == 0       \* [0; 32], which a caller may enter
NoVault  == 0       \* receiver: an account that is not the vault of a key drawn
Other    == "other"
TornFile == -1      \* a file that exists but is shorter than a key

ASSUME RegisterAssumption ==
  /\ Other \notin Node
  /\ StakeAmount \in Nat /\ InitialFunds \in [Node -> Nat]
  /\ MaxRestarts \in [Node -> Nat] /\ MaxOthers \in Nat /\ MaxKeys \in Nat

VARIABLES
  initialized, mtree, registered,  \* the register account
  funds,              \* node -> tokens of its funding account
  nonce,              \* node -> nonce of its funding account
  vault,              \* key -> what was staked into the vault account of the key
  mempool,            \* submitted register transactions
  key_file,           \* node -> what is at the path of its key file
  key,                \* node -> the key the process holds
  phase,              \* node -> how far its start is
  read_nonce,         \* node -> the nonce it signs with
  keys_made,          \* keys drawn so far, which number them
  others,             \* registrations with the command line so far
  restarts,
  inserted            \* history: who entered which key with whose vault, in order

account == <<initialized, mtree, registered>>
ledger  == <<account, funds, nonce, vault, inserted>>
process == <<key_file, key, phase, read_nonce, keys_made, restarts>>
vars == <<ledger, mempool, process, others>>

Key == 1 .. MaxKeys

Token   == {"LON", "another"}   \* tokens of the token program
NoToken == "none"
Holding == [token : Token \cup {NoToken}, amount : Nat]
Entry   == [node : Node \cup {Other}, key : Key \cup {ZeroKey}, to : Key \cup {NoVault}]

Leaf(k) == <<k>>
Phase   == {"stopped", "writing", "fetching", "signing", "submitting", "polling", "running"}
Tx      == [node : Node, key : Key, nonce : Nat]

EmptyRegister == [i \in 0 .. Capacity - 1 |-> ZeroLeaf]

Init ==
  /\ initialized = FALSE /\ mtree = NewTree /\ registered = EmptyRegister
  /\ funds = InitialFunds
  /\ nonce = [n \in Node |-> 0]
  /\ vault = [k \in Key |-> [token |-> NoToken, amount |-> 0]]
  /\ mempool = {}
  /\ key_file = [n \in Node |-> NoKey] /\ key = [n \in Node |-> NoKey]
  /\ phase = [n \in Node |-> "stopped"]
  /\ read_nonce = [n \in Node |-> 0]
  /\ keys_made = 0 /\ others = 0
  /\ restarts = [n \in Node |-> 0]
  /\ inserted = <<>>
-----------------------------------------------------------------------------
(* The program.                                                            *)

(* initialize: the account is created with an empty tree, once. *)
Initialize ==
  /\ ~initialized
  /\ initialized' = TRUE
  /\ mtree' = NewTree /\ registered' = EmptyRegister
  /\ UNCHANGED <<funds, nonce, vault, inserted, mempool, process, others>>

(* register: insert the key, record it at its index, and have the token    *)
(* program move the stake to the receiver, whichever account that is.  The *)
(* ledger applies all of a transaction or nothing of it.                   *)
Insert(e, token) ==
  LET tree == InsertOracle(mtree, Leaf(e.key))
  IN  /\ mtree' = tree
      /\ registered' = [registered EXCEPT ![tree.next_index - 1] = Leaf(e.key)]
      /\ vault' = [k \in Key |->
                     IF k = e.to
                       THEN [token |-> token, amount |-> vault[k].amount + StakeAmount]
                       ELSE vault[k]]
      /\ inserted' = Append(inserted, e)
      /\ UNCHANGED initialized

(* The token program: a holding is of one token, that of the first         *)
(* transfer to it.                                                         *)
CanReceive(to, token) == to \in Key => vault[to].token \in {NoToken, token}

(* A node stakes LON into the vault of its key. *)
EntryOf(tx) == [node |-> tx.node, key |-> tx.key, to |-> tx.key]

Register(tx) ==
  /\ Insert(EntryOf(tx), "LON")
  /\ funds' = [funds EXCEPT ![tx.node] = @ - StakeAmount]
  /\ nonce' = [nonce EXCEPT ![tx.node] = @ + 1]

CanRegister(tx) ==
  /\ initialized /\ ~IsFull(mtree)
  /\ funds[tx.node] >= StakeAmount /\ CanReceive(tx.key, "LON")

(* Mutant: the register is saved before the transfer fails. *)
Execute_NotAtomic(tx) ==
  /\ tx \in mempool /\ tx.nonce = nonce[tx.node]
  /\ mempool' = mempool \ {tx}
  /\ \/ CanRegister(tx) /\ Register(tx)
     \/ /\ ~CanRegister(tx)
        /\ IF initialized /\ ~IsFull(mtree)
             THEN /\ mtree' = InsertOracle(mtree, Leaf(tx.key))
                  /\ registered' = [registered EXCEPT ![mtree.next_index] = Leaf(tx.key)]
                  /\ inserted' = Append(inserted, EntryOf(tx))
             ELSE UNCHANGED <<mtree, registered, inserted>>
        /\ UNCHANGED <<initialized, funds, nonce, vault>>
  /\ UNCHANGED <<process, others>>

(* The ledger takes a transaction of the account's nonce from its mempool. *)
(* One that fails is dropped.                                              *)
Execute(tx) ==
  /\ tx \in mempool /\ tx.nonce = nonce[tx.node]
  /\ mempool' = mempool \ {tx}
  /\ IF CanRegister(tx) THEN Register(tx) ELSE UNCHANGED ledger
  /\ UNCHANGED <<process, others>>

(* `spel register`: someone pays a stake from an account of their own and  *)
(* enters a key: the zero key, one that exists, be it a node's or in the   *)
(* register already, or a new one of their own.  The receiver is the vault *)
(* of any existing key, or another account, of which nothing is kept.      *)
OtherRegisters ==
  /\ initialized /\ ~IsFull(mtree) /\ others < MaxOthers
  /\ others' = others + 1
  /\ \E k \in Key \cup {ZeroKey}, to \in Key \cup {NoVault}, token \in Token :
       /\ k <= keys_made + 1 /\ keys_made' = (IF k <= keys_made THEN keys_made ELSE k)
       /\ to <= keys_made' /\ CanReceive(to, token)
       /\ Insert([node |-> Other, key |-> k, to |-> to], token)
  /\ UNCHANGED <<funds, nonce, mempool, key_file, key, phase, read_nonce, restarts>>
-----------------------------------------------------------------------------
(* The start of a node: load_or_create_signing_key, sequencer_register.    *)

Goes(n, from, to) == phase[n] = from /\ phase' = [phase EXCEPT ![n] = to]

LoadKey(n) ==
  /\ key_file[n] \in Key     \* of a torn file the process panics
  /\ Goes(n, "stopped", "fetching")
  /\ key' = [key EXCEPT ![n] = key_file[n]]
  /\ UNCHANGED <<ledger, mempool, others, key_file, read_nonce, keys_made, restarts>>

(* Mutant: whether the file exists is not asked. *)
CreateKey_Always(n) ==
  /\ keys_made < MaxKeys
  /\ Goes(n, "stopped", "writing")
  /\ keys_made' = keys_made + 1
  /\ key' = [key EXCEPT ![n] = keys_made']
  /\ UNCHANGED <<ledger, mempool, others, key_file, read_nonce, restarts>>

CreateKey(n) ==
  /\ key_file[n] = NoKey /\ keys_made < MaxKeys
  /\ Goes(n, "stopped", "writing")
  /\ keys_made' = keys_made + 1
  /\ key' = [key EXCEPT ![n] = keys_made']
  /\ UNCHANGED <<ledger, mempool, others, key_file, read_nonce, restarts>>

KeyWritten(n) ==
  /\ Goes(n, "writing", "fetching")
  /\ key_file' = [key_file EXCEPT ![n] = key[n]]
  /\ UNCHANGED <<ledger, mempool, others, key, read_nonce, keys_made, restarts>>

IsRegistered(k) == \E i \in DOMAIN registered : registered[i] = Leaf(k)

FetchRegister(n) ==
  /\ initialized
  /\ \/ IsRegistered(key[n]) /\ Goes(n, "fetching", "running")
     \/ ~IsRegistered(key[n]) /\ Goes(n, "fetching", "signing")
  /\ UNCHANGED <<ledger, mempool, others, key_file, key, read_nonce, keys_made, restarts>>

(* Mutant: the transaction is signed with the nonce after the next. *)
GetNonce_OffByOne(n) ==
  /\ Goes(n, "signing", "submitting")
  /\ read_nonce' = [read_nonce EXCEPT ![n] = nonce[n] + 1]
  /\ UNCHANGED <<ledger, mempool, others, key_file, key, keys_made, restarts>>

GetNonce(n) ==
  /\ Goes(n, "signing", "submitting")
  /\ read_nonce' = [read_nonce EXCEPT ![n] = nonce[n]]
  /\ UNCHANGED <<ledger, mempool, others, key_file, key, keys_made, restarts>>

SendTransaction(n) ==
  /\ Goes(n, "submitting", "polling")
  /\ mempool' = mempool \cup {[node |-> n, key |-> key[n], nonce |-> read_nonce[n]]}
  /\ UNCHANGED <<ledger, others, key_file, key, read_nonce, keys_made, restarts>>

(* poll_tx finds the transaction in a block. *)
Confirmed(n) ==
  /\ nonce[n] > read_nonce[n]
  /\ Goes(n, "polling", "running")
  /\ UNCHANGED <<ledger, mempool, others, key_file, key, read_nonce, keys_made, restarts>>

(* A call fails, the poll gives up, or the process is stopped or crashes,  *)
(* also within fs::write, which may leave the key file empty or partial.   *)
Exit(n) ==
  /\ phase[n] # "stopped" /\ restarts[n] < MaxRestarts[n]
  /\ phase' = [phase EXCEPT ![n] = "stopped"]
  /\ key' = [key EXCEPT ![n] = NoKey]
  /\ restarts' = [restarts EXCEPT ![n] = @ + 1]
  /\ \/ UNCHANGED key_file
     \/ phase[n] = "writing" /\ key_file' = [key_file EXCEPT ![n] = TornFile]
  /\ UNCHANGED <<ledger, mempool, others, read_nonce, keys_made>>

Startup(n) == \/ LoadKey(n) \/ CreateKey(n) \/ KeyWritten(n) \/ FetchRegister(n)
              \/ GetNonce(n) \/ SendTransaction(n) \/ Confirmed(n)

Next == \/ Initialize \/ OtherRegisters
        \/ \E tx \in mempool : Execute(tx)
        \/ \E n \in Node : Startup(n) \/ Exit(n)

Spec == Init /\ [][Next]_vars

(* The register is set up once, calls return, and the ledger includes what *)
(* it may include; that a node is stopped again is not assumed.            *)
Fairness ==
  /\ WF_vars(Initialize)
  /\ \A n \in Node : /\ WF_vars(Startup(n))
                     /\ WF_vars(\E tx \in mempool : tx.node = n /\ Execute(tx))

FairSpec == Spec /\ Fairness
-----------------------------------------------------------------------------
(* Properties *)

TypeOK ==
  /\ initialized \in BOOLEAN
  /\ mtree.next_index \in 0 .. Capacity
  /\ registered \in [0 .. Capacity - 1 -> {ZeroLeaf} \cup {Leaf(k) : k \in Key}]
  /\ funds \in [Node -> Nat] /\ nonce \in [Node -> Nat] /\ vault \in [Key -> Holding]
  /\ mempool \subseteq Tx
  /\ key_file \in [Node -> Key \cup {NoKey, TornFile}]
  /\ key \in [Node -> Key \cup {NoKey}]
  /\ phase \in [Node -> Phase]
  /\ read_nonce \in [Node -> Nat]
  /\ keys_made \in Key \cup {0} /\ others \in 0 .. MaxOthers
  /\ restarts \in [Node -> Nat] /\ \A n \in Node : restarts[n] <= MaxRestarts[n]
  /\ inserted \in Seq(Entry)

Listed == [i \in 1 .. mtree.next_index |-> registered[i - 1]]

(* The array lists the oracles in the order of their registration, up to   *)
(* the tree's next index, and is empty from there on.                      *)
ArrayListsEntries ==
  /\ Listed = [i \in DOMAIN inserted |-> Leaf(inserted[i].key)]
  /\ \A i \in mtree.next_index .. Capacity - 1 : registered[i] = ZeroLeaf

(* The array the indexers read and the tree membership is proved against   *)
(* list the same oracles at the same indices, in the order of registration,*)
(* up to a full register: the root insert_oracle computes from its         *)
(* frontier is that of the tree built from the whole array at once, and    *)
(* the frontier is fit for the next insertion.                             *)
ArrayMatchesTree ==
  /\ mtree.current_root = ReferenceRoot(Listed)
  /\ FrontierHolds(mtree, Listed)
  /\ ArrayListsEntries

Entries(P(_)) == Cardinality({i \in DOMAIN inserted : P(inserted[i])})

(* What a node pays is staked: one stake for each of its entries, and that *)
(* stands in LON in the vault of the entry's key, whatever others enter    *)
(* and stake in between, and when the register is full or the funds run    *)
(* out.  A vault has what the entries staked in it and nothing else.       *)
StakesOfNodesStand ==
  /\ \A n \in Node : funds[n] = InitialFunds[n] - StakeAmount * Entries(LAMBDA e : e.node = n)
  /\ \A k \in Key  : vault[k].amount = StakeAmount * Entries(LAMBDA e : e.to = k)
  /\ \A i \in DOMAIN inserted :
       inserted[i].node # Other => /\ inserted[i].to = inserted[i].key
                                   /\ vault[inserted[i].key].token = "LON"

(* A node that starts its work is in the register, under the key that it   *)
(* will find again: whatever step it is stopped at, it comes back under    *)
(* the key of every entry it paid for.                                     *)
KeepsItsIdentity ==
  /\ \A n \in Node : phase[n] = "running" => IsRegistered(key[n]) /\ key_file[n] = key[n]
  /\ \A i \in DOMAIN inserted :
       inserted[i].node # Other => key_file[inserted[i].node] = inserted[i].key

(* A node that can pay gets to run, unless the register is full, it was    *)
(* stopped while it wrote its key file, after which it cannot start, or    *)
(* its vault has been made a holding of another token than LON.            *)
NodeGetsToRun ==
  \A n \in Node :
    <>(\/ phase[n] = "running"
       \/ key_file[n] = TornFile
       \/ IsFull(mtree) \/ funds[n] < StakeAmount
       \/ ~CanReceive(key_file[n], "LON"))

(* "Register (or check it is already registered)": a key is registered,    *)
(* and its stake paid, once.                                               *)
RegisteredOnce == \A k \in Key : Entries(LAMBDA e : e.key = k) <= 1
=============================================================================
