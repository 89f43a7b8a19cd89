-------------------------- MODULE OracleMerkleTree --------------------------
(***************************************************************************)
(* The incremental Merkle tree of oracle_register_core/src/imt.rs, which   *)
(* oracle_register_client/src/imt.rs repeats: a fixed depth, the frontier  *)
(* of filled left subtrees, and the root recomputed at every insertion.    *)
(* A hash is the pair of what it hashes, so that different contents have   *)
(* different hashes; a leaf is a one-element tuple.                        *)
(***************************************************************************)
EXTENDS Integers, Sequences

CONSTANT TreeDepth      \* TREE_DEPTH

ASSUME TreeDepthAssumption == TreeDepth \in Nat \ {0}

Levels == 0 .. TreeDepth - 1

(* 1 << k, by doubling. *)
PowerOfTwo[k \in 0 .. TreeDepth] == IF k = 0 THEN 1 ELSE 2 * PowerOfTwo[k - 1]

Capacity == PowerOfTwo[TreeDepth]

ZeroLeaf == <<0>>

hash_nodes(left, right) == <<left, right>>

(* Roots of the empty subtrees, one level at a time. *)
ZeroHash[level \in 0 .. TreeDepth] ==
  IF level = 0 THEN ZeroLeaf ELSE hash_nodes(ZeroHash[level - 1], ZeroHash[level - 1])

(* Mutant: each level's zero is hashed before it is stored. *)
NewTree_HashedFirst ==
  [ filled_subtrees |-> [level \in Levels |-> ZeroLeaf],
    zero_hashes     |-> [level \in Levels |-> ZeroHash[level + 1]],
    current_root    |-> ZeroHash[TreeDepth],
    next_index      |-> 0 ]

NewTree == [ filled_subtrees |-> [level \in Levels |-> ZeroLeaf],
             zero_hashes     |-> [level \in Levels |-> ZeroHash[level]],
             current_root    |-> ZeroHash[TreeDepth],
             next_index      |-> 0 ]

(* The nodes above a leaf, by level: index /= 2. *)
Above(index) ==
  LET at[level \in 0 .. TreeDepth] == IF level = 0 THEN index ELSE at[level - 1] \div 2
  IN  at

IsLeft(index, level) == Above(index)[level] % 2 = 0

(* Mutant: one leaf more than the tree has places. *)
IsFull_OffByOne(tree) == tree.next_index > Capacity

IsFull(tree) == tree.next_index >= Capacity

(* A left child is hashed with an empty subtree, a right child with what   *)
(* the frontier holds on its left.                                         *)
Parent(tree, level, node) ==
  IF IsLeft(tree.next_index, level) THEN hash_nodes(node, tree.zero_hashes[level])
                                    ELSE hash_nodes(tree.filled_subtrees[level], node)

(* The hashes on the way from the new leaf to the root.  The code's outer  *)
(* loop goes up to the first left child, its inner loop on from there.     *)
Path(tree, leaf) ==
  LET path[level \in 0 .. TreeDepth] ==
        IF level = 0 THEN leaf ELSE Parent(tree, level - 1, path[level - 1])
  IN  path

(* insert_oracle of a tree that is not full: the first left child is kept  *)
(* in the frontier.  The last leaf of the tree has no such left child.     *)
InsertOracle(tree, leaf) ==
  LET lefts == {level \in Levels : IsLeft(tree.next_index, level)}
      first == {level \in lefts : \A other \in lefts : level <= other}
  IN  [ tree EXCEPT
          !.filled_subtrees = [level \in Levels |->
             IF level \in first THEN Path(tree, leaf)[level]
                                  ELSE tree.filled_subtrees[level]],
          !.current_root = Path(tree, leaf)[TreeDepth],
          !.next_index = @ + 1 ]

(* The full tree that holds these leaves first and zeroes after them, row  *)
(* by row: compute_reference_root of the module's tests.                   *)
Row(level) == 0 .. PowerOfTwo[TreeDepth - level] - 1

Leaves(leaves) == [i \in Row(0) |-> IF i < Len(leaves) THEN leaves[i + 1] ELSE ZeroLeaf]

Parents(row, level) == [i \in Row(level) |-> hash_nodes(row[2 * i], row[2 * i + 1])]

Rows(leaves) ==
  LET row[level \in 0 .. TreeDepth] ==
        IF level = 0 THEN Leaves(leaves) ELSE Parents(row[level - 1], level)
  IN  row

ReferenceRoot(leaves) == Rows(leaves)[TreeDepth][0]

(* What makes the next insertion right: wherever its path is a right       *)
(* child, the frontier holds the root of the complete subtree on its left. *)
FrontierHolds(tree, leaves) ==
  \A level \in Levels :
    ~IsLeft(tree.next_index, level) =>
       tree.filled_subtrees[level] = Rows(leaves)[level][Above(tree.next_index)[level] - 1]
=============================================================================
