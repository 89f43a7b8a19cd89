----------------------- MODULE OracleMerkleTree_proofs -----------------------
(***************************************************************************)
(* The incremental tree computes the root of the full tree, for every      *)
(* depth and any leaves.  Nothing is used of hash_nodes but that it is a   *)
(* function of the two nodes.                                              *)
(***************************************************************************)
EXTENDS OracleMerkleTree, WellFoundedInduction, TLAPS

-----------------------------------------------------------------------------
(* Induction over the levels of the tree: a set that is not all of them    *)
(* would miss a least one.                                                 *)
LEMMA LevelInduction ==
  ASSUME NEW N \in Nat, NEW S, 0 \in S, \A n \in 0 .. N - 1 : n \in S => n + 1 \in S
  PROVE  \A n \in 0 .. N : n \in S
<1> DEFINE R == OpToRel(<, Nat)
           T == (0 .. N) \ S
<1>1. IsWellFoundedOn(R, Nat)
  BY NatLessThanWellFounded, Zenon
<1>2. \A x, y \in Nat : x < y => <<x, y>> \in R
  BY Zenon DEF OpToRel
<1> HIDE DEF R
<1>3. ASSUME T # {} PROVE FALSE
  <2>1. \E x \in T : \A y \in T : ~(<<y, x>> \in R)
    <3>1. T \subseteq Nat
      OBVIOUS
    <3> HIDE DEF T
    <3> QED  BY <1>1, <1>3, <3>1, WFMin
  <2>2. PICK x \in T : \A y \in T : ~(<<y, x>> \in R)
    BY <2>1
  <2>3. PICK y \in 0 .. N - 1 : y + 1 = x
    <3>1. x \in 0 .. N /\ x # 0
      OBVIOUS
    <3>2. x - 1 \in 0 .. N - 1 /\ x - 1 + 1 = x
      BY <3>1
    <3> QED  BY <3>2
  <2>4. y \in T /\ y < x /\ x \in Nat /\ y \in Nat
    BY <2>3
  <2> QED  BY <1>2, <2>2, <2>4
<1> QED  BY <1>3

-----------------------------------------------------------------------------
(* The recursive functions of the tree are what their definitions say: by  *)
(* induction there is a function that satisfies each up to every level.    *)

LEMMA PowerSteps ==
  /\ PowerOfTwo[0] = 1
  /\ \A level \in Levels : PowerOfTwo[level + 1] = 2 * PowerOfTwo[level]
<1> DEFINE Value(g, level) == IF level = 0 THEN 1 ELSE 2 * g[level - 1]
           S == {n \in 0 .. TreeDepth : \E g : g = [level \in 0 .. n |-> Value(g, level)]}
<1>1. 0 \in S
  <2> DEFINE h == [level \in 0 .. 0 |-> 1]
  <2>1. h = [level \in 0 .. 0 |-> Value(h, level)]
    OBVIOUS
  <2> HIDE DEF h
  <2> QED  BY <2>1, TreeDepthAssumption
<1>2. ASSUME NEW n \in 0 .. TreeDepth - 1, n \in S
      PROVE  n + 1 \in S
  <2>1. PICK g : g = [level \in 0 .. n |-> Value(g, level)]
    BY <1>2
  <2> DEFINE h == [level \in 0 .. n + 1 |->
                     IF level = n + 1 THEN 2 * g[n] ELSE g[level]]
  <2>2. ASSUME NEW level \in 0 .. n + 1
        PROVE  h[level] = Value(h, level)
    <3>1. CASE level = n + 1
      BY <3>1
    <3>2. CASE level \in 0 .. n
      BY <2>1, <3>2
    <3> QED  BY <3>1, <3>2
  <2>3. h = [level \in 0 .. n + 1 |-> Value(h, level)]
    BY <2>2
  <2> HIDE DEF h
  <2> QED  BY <2>3, TreeDepthAssumption
<1>3. TreeDepth \in S
  <2> HIDE DEF S
  <2>1. \A n \in 0 .. TreeDepth : n \in S
    BY <1>1, <1>2, LevelInduction, TreeDepthAssumption
  <2> QED  BY <2>1, TreeDepthAssumption
<1>4. PowerOfTwo = [level \in 0 .. TreeDepth |-> Value(PowerOfTwo, level)]
  BY <1>3 DEF PowerOfTwo
<1>5. PowerOfTwo[0] = 1
  BY <1>4, TreeDepthAssumption
<1>6. ASSUME NEW level \in Levels
      PROVE  PowerOfTwo[level + 1] = 2 * PowerOfTwo[level]
  <2>1. PICK next \in 0 .. TreeDepth : next = level + 1 /\ next # 0 /\ next - 1 = level
    BY TreeDepthAssumption DEF Levels
  <2>2. PowerOfTwo[next] = 2 * PowerOfTwo[next - 1]
    BY <1>4, <2>1
  <2> QED  BY <2>1, <2>2
<1> QED  BY <1>5, <1>6

LEMMA ZeroHashSteps ==
  /\ ZeroHash[0] = ZeroLeaf
  /\ \A level \in Levels : ZeroHash[level + 1] = hash_nodes(ZeroHash[level], ZeroHash[level])
<1> DEFINE Value(g, level) == IF level = 0 THEN ZeroLeaf ELSE hash_nodes(g[level - 1], g[level - 1])
           S == {n \in 0 .. TreeDepth : \E g : g = [level \in 0 .. n |-> Value(g, level)]}
<1>1. 0 \in S
  <2> DEFINE h == [level \in 0 .. 0 |-> ZeroLeaf]
  <2>1. h = [level \in 0 .. 0 |-> Value(h, level)]
    OBVIOUS
  <2> HIDE DEF h
  <2> QED  BY <2>1, TreeDepthAssumption
<1>2. ASSUME NEW n \in 0 .. TreeDepth - 1, n \in S
      PROVE  n + 1 \in S
  <2>1. PICK g : g = [level \in 0 .. n |-> Value(g, level)]
    BY <1>2
  <2> DEFINE h == [level \in 0 .. n + 1 |->
                     IF level = n + 1 THEN hash_nodes(g[n], g[n]) ELSE g[level]]
  <2>2. ASSUME NEW level \in 0 .. n + 1
        PROVE  h[level] = Value(h, level)
    <3>1. CASE level = n + 1
      BY <3>1
    <3>2. CASE level \in 0 .. n
      BY <2>1, <3>2
    <3> QED  BY <3>1, <3>2
  <2>3. h = [level \in 0 .. n + 1 |-> Value(h, level)]
    BY <2>2
  <2> HIDE DEF h
  <2> QED  BY <2>3, TreeDepthAssumption
<1>3. TreeDepth \in S
  <2> HIDE DEF S
  <2>1. \A n \in 0 .. TreeDepth : n \in S
    BY <1>1, <1>2, LevelInduction, TreeDepthAssumption
  <2> QED  BY <2>1, TreeDepthAssumption
<1>4. ZeroHash = [level \in 0 .. TreeDepth |-> Value(ZeroHash, level)]
  BY <1>3 DEF ZeroHash
<1>5. ZeroHash[0] = ZeroLeaf
  BY <1>4, TreeDepthAssumption
<1>6. ASSUME NEW level \in Levels
      PROVE  ZeroHash[level + 1] = hash_nodes(ZeroHash[level], ZeroHash[level])
  <2>1. PICK next \in 0 .. TreeDepth : next = level + 1 /\ next # 0 /\ next - 1 = level
    BY TreeDepthAssumption DEF Levels
  <2>2. ZeroHash[next] = hash_nodes(ZeroHash[next - 1], ZeroHash[next - 1])
    BY <1>4, <2>1
  <2> QED  BY <2>1, <2>2
<1> QED  BY <1>5, <1>6

LEMMA AboveSteps ==
  ASSUME NEW index
  PROVE  /\ Above(index)[0] = index
         /\ \A level \in Levels : Above(index)[level + 1] = Above(index)[level] \div 2
<1> DEFINE Value(g, level) == IF level = 0 THEN index ELSE g[level - 1] \div 2
           S == {n \in 0 .. TreeDepth : \E g : g = [level \in 0 .. n |-> Value(g, level)]}
<1>1. 0 \in S
  <2> DEFINE h == [level \in 0 .. 0 |-> index]
  <2>1. h = [level \in 0 .. 0 |-> Value(h, level)]
    OBVIOUS
  <2> HIDE DEF h
  <2> QED  BY <2>1, TreeDepthAssumption
<1>2. ASSUME NEW n \in 0 .. TreeDepth - 1, n \in S
      PROVE  n + 1 \in S
  <2>1. PICK g : g = [level \in 0 .. n |-> Value(g, level)]
    BY <1>2
  <2> DEFINE h == [level \in 0 .. n + 1 |->
                     IF level = n + 1 THEN g[n] \div 2 ELSE g[level]]
  <2>2. ASSUME NEW level \in 0 .. n + 1
        PROVE  h[level] = Value(h, level)
    <3>1. CASE level = n + 1
      BY <3>1
    <3>2. CASE level \in 0 .. n
      BY <2>1, <3>2
    <3> QED  BY <3>1, <3>2
  <2>3. h = [level \in 0 .. n + 1 |-> Value(h, level)]
    BY <2>2
  <2> HIDE DEF h
  <2> QED  BY <2>3, TreeDepthAssumption
<1>3. TreeDepth \in S
  <2> HIDE DEF S
  <2>1. \A n \in 0 .. TreeDepth : n \in S
    BY <1>1, <1>2, LevelInduction, TreeDepthAssumption
  <2> QED  BY <2>1, TreeDepthAssumption
<1>4. Above(index) = [level \in 0 .. TreeDepth |-> Value(Above(index), level)]
  BY <1>3 DEF Above
<1>5. Above(index)[0] = index
  BY <1>4, TreeDepthAssumption
<1>6. ASSUME NEW level \in Levels
      PROVE  Above(index)[level + 1] = Above(index)[level] \div 2
  <2>1. PICK next \in 0 .. TreeDepth : next = level + 1 /\ next # 0 /\ next - 1 = level
    BY TreeDepthAssumption DEF Levels
  <2>2. Above(index)[next] = Above(index)[next - 1] \div 2
    BY <1>4, <2>1
  <2> QED  BY <2>1, <2>2
<1> QED  BY <1>5, <1>6

LEMMA PathSteps ==
  ASSUME NEW tree, NEW leaf
  PROVE  /\ Path(tree, leaf)[0] = leaf
         /\ \A level \in Levels : Path(tree, leaf)[level + 1] = Parent(tree, level, Path(tree, leaf)[level])
<1> DEFINE Value(g, level) == IF level = 0 THEN leaf ELSE Parent(tree, level - 1, g[level - 1])
           S == {n \in 0 .. TreeDepth : \E g : g = [level \in 0 .. n |-> Value(g, level)]}
<1>1. 0 \in S
  <2> DEFINE h == [level \in 0 .. 0 |-> leaf]
  <2>1. h = [level \in 0 .. 0 |-> Value(h, level)]
    OBVIOUS
  <2> HIDE DEF h
  <2> QED  BY <2>1, TreeDepthAssumption
<1>2. ASSUME NEW n \in 0 .. TreeDepth - 1, n \in S
      PROVE  n + 1 \in S
  <2>1. PICK g : g = [level \in 0 .. n |-> Value(g, level)]
    BY <1>2
  <2> DEFINE h == [level \in 0 .. n + 1 |->
                     IF level = n + 1 THEN Parent(tree, n, g[n]) ELSE g[level]]
  <2>2. ASSUME NEW level \in 0 .. n + 1
        PROVE  h[level] = Value(h, level)
    <3>1. CASE level = n + 1
      BY <3>1
    <3>2. CASE level \in 0 .. n
      BY <2>1, <3>2
    <3> QED  BY <3>1, <3>2
  <2>3. h = [level \in 0 .. n + 1 |-> Value(h, level)]
    BY <2>2
  <2> HIDE DEF h
  <2> QED  BY <2>3, TreeDepthAssumption
<1>3. TreeDepth \in S
  <2> HIDE DEF S
  <2>1. \A n \in 0 .. TreeDepth : n \in S
    BY <1>1, <1>2, LevelInduction, TreeDepthAssumption
  <2> QED  BY <2>1, TreeDepthAssumption
<1>4. Path(tree, leaf) = [level \in 0 .. TreeDepth |-> Value(Path(tree, leaf), level)]
  BY <1>3 DEF Path
<1>5. Path(tree, leaf)[0] = leaf
  BY <1>4, TreeDepthAssumption
<1>6. ASSUME NEW level \in Levels
      PROVE  Path(tree, leaf)[level + 1] = Parent(tree, level, Path(tree, leaf)[level])
  <2>1. PICK next \in 0 .. TreeDepth : next = level + 1 /\ next # 0 /\ next - 1 = level
    BY TreeDepthAssumption DEF Levels
  <2>2. Path(tree, leaf)[next] = Parent(tree, next - 1, Path(tree, leaf)[next - 1])
    BY <1>4, <2>1
  <2> QED  BY <2>1, <2>2
<1> QED  BY <1>5, <1>6

LEMMA RowsSteps ==
  ASSUME NEW leaves
  PROVE  /\ Rows(leaves)[0] = Leaves(leaves)
         /\ \A level \in Levels : Rows(leaves)[level + 1] = Parents(Rows(leaves)[level], level + 1)
<1> DEFINE Value(g, level) == IF level = 0 THEN Leaves(leaves) ELSE Parents(g[level - 1], level)
           S == {n \in 0 .. TreeDepth : \E g : g = [level \in 0 .. n |-> Value(g, level)]}
<1>1. 0 \in S
  <2> DEFINE h == [level \in 0 .. 0 |-> Leaves(leaves)]
  <2>1. h = [level \in 0 .. 0 |-> Value(h, level)]
    OBVIOUS
  <2> HIDE DEF h
  <2> QED  BY <2>1, TreeDepthAssumption
<1>2. ASSUME NEW n \in 0 .. TreeDepth - 1, n \in S
      PROVE  n + 1 \in S
  <2>1. PICK g : g = [level \in 0 .. n |-> Value(g, level)]
    BY <1>2
  <2> DEFINE h == [level \in 0 .. n + 1 |->
                     IF level = n + 1 THEN Parents(g[n], n + 1) ELSE g[level]]
  <2>2. ASSUME NEW level \in 0 .. n + 1
        PROVE  h[level] = Value(h, level)
    <3>1. CASE level = n + 1
      BY <3>1
    <3>2. CASE level \in 0 .. n
      BY <2>1, <3>2
    <3> QED  BY <3>1, <3>2
  <2>3. h = [level \in 0 .. n + 1 |-> Value(h, level)]
    BY <2>2
  <2> HIDE DEF h
  <2> QED  BY <2>3, TreeDepthAssumption
<1>3. TreeDepth \in S
  <2> HIDE DEF S
  <2>1. \A n \in 0 .. TreeDepth : n \in S
    BY <1>1, <1>2, LevelInduction, TreeDepthAssumption
  <2> QED  BY <2>1, TreeDepthAssumption
<1>4. Rows(leaves) = [level \in 0 .. TreeDepth |-> Value(Rows(leaves), level)]
  BY <1>3 DEF Rows
<1>5. Rows(leaves)[0] = Leaves(leaves)
  BY <1>4, TreeDepthAssumption
<1>6. ASSUME NEW level \in Levels
      PROVE  Rows(leaves)[level + 1] = Parents(Rows(leaves)[level], level + 1)
  <2>1. PICK next \in 0 .. TreeDepth : next = level + 1 /\ next # 0 /\ next - 1 = level
    BY TreeDepthAssumption DEF Levels
  <2>2. Rows(leaves)[next] = Parents(Rows(leaves)[next - 1], next)
    BY <1>4, <2>1
  <2> QED  BY <2>1, <2>2
<1> QED  BY <1>5, <1>6

-----------------------------------------------------------------------------
(* The same, level by level, and the shape of the rows.                    *)

LEMMA Powers ==
  /\ PowerOfTwo[0] = 1
  /\ \A k \in 0 .. TreeDepth : PowerOfTwo[k] \in Nat \ {0}
  /\ \A k \in Levels : PowerOfTwo[k + 1] = 2 * PowerOfTwo[k]
<1>1. PowerOfTwo[0] = 1
  BY PowerSteps
<1>2. \A k \in Levels : PowerOfTwo[k + 1] = 2 * PowerOfTwo[k]
  BY PowerSteps
<1>3. \A k \in 0 .. TreeDepth : PowerOfTwo[k] \in Nat \ {0}
  <2> DEFINE S == {k \in 0 .. TreeDepth : PowerOfTwo[k] \in Nat \ {0}}
  <2>1. 0 \in S
    BY <1>1, TreeDepthAssumption
  <2>2. ASSUME NEW k \in 0 .. TreeDepth - 1, k \in S
        PROVE  k + 1 \in S
    <3>1. PowerOfTwo[k + 1] = 2 * PowerOfTwo[k] /\ PowerOfTwo[k] \in Nat \ {0}
      BY <1>2, <2>2 DEF Levels
    <3>2. k + 1 \in 0 .. TreeDepth
      BY TreeDepthAssumption
    <3> QED  BY <3>1, <3>2
  <2>3. \A k \in 0 .. TreeDepth : k \in S
    <3> HIDE DEF S
    <3> QED  BY <2>1, <2>2, LevelInduction, TreeDepthAssumption
  <2> QED  BY <2>3
<1> QED  BY <1>1, <1>2, <1>3

LEMMA CapacityPositive == Capacity \in Nat \ {0}
BY Powers, TreeDepthAssumption DEF Capacity

(* Every row is half as wide as the one below; the last has one node. *)
LEMMA RowWidths ==
  /\ Row(0) = 0 .. Capacity - 1
  /\ Row(TreeDepth) = {0}
  /\ \A level \in 0 .. TreeDepth : Row(level) \subseteq Nat
  /\ \A level \in Levels :
       /\ \A i \in Row(level) : i \div 2 \in Row(level + 1)
       /\ \A i \in Row(level + 1) : 2 * i \in Row(level) /\ 2 * i + 1 \in Row(level)
<1>1. Row(0) = 0 .. Capacity - 1
  BY TreeDepthAssumption DEF Row, Capacity
<1>2. Row(TreeDepth) = {0}
  <2>1. TreeDepth - TreeDepth = 0
    BY TreeDepthAssumption
  <2> QED  BY <2>1, Powers DEF Row
<1>3. ASSUME NEW level \in Levels
      PROVE  /\ \A i \in Row(level) : i \div 2 \in Row(level + 1)
             /\ \A i \in Row(level + 1) : 2 * i \in Row(level) /\ 2 * i + 1 \in Row(level)
  <2>1. PICK k \in Levels : k = TreeDepth - (level + 1) /\ k + 1 = TreeDepth - level
    <3>1. TreeDepth - (level + 1) \in Levels /\ TreeDepth - (level + 1) + 1 = TreeDepth - level
      BY TreeDepthAssumption DEF Levels
    <3> QED  BY <3>1
  <2>2. PICK w \in Nat : w = PowerOfTwo[k]
    BY Powers, TreeDepthAssumption DEF Levels
  <2>3. PowerOfTwo[k + 1] = 2 * w
    BY <2>2, Powers
  <2>4. Row(level) = 0 .. 2 * w - 1 /\ Row(level + 1) = 0 .. w - 1
    BY <2>1, <2>2, <2>3 DEF Row
  <2>5. \A i \in 0 .. 2 * w - 1 : i \div 2 \in 0 .. w - 1
    OBVIOUS
  <2>6. \A i \in 0 .. w - 1 : 2 * i \in 0 .. 2 * w - 1 /\ 2 * i + 1 \in 0 .. 2 * w - 1
    OBVIOUS
  <2> QED  BY <2>4, <2>5, <2>6
<1> QED  BY <1>1, <1>2, <1>3 DEF Row

LEMMA AboveTyped ==
  ASSUME NEW index \in Nat
  PROVE  \A level \in 0 .. TreeDepth : Above(index)[level] \in Nat
<1> DEFINE S == {level \in 0 .. TreeDepth : Above(index)[level] \in Nat}
<1>1. 0 \in S
  BY AboveSteps, TreeDepthAssumption
<1>2. ASSUME NEW level \in 0 .. TreeDepth - 1, level \in S
      PROVE  level + 1 \in S
  <2>1. PICK a \in Nat : a = Above(index)[level]
    BY <1>2
  <2>2. Above(index)[level + 1] = a \div 2 /\ a \div 2 \in Nat
    BY AboveSteps, <2>1 DEF Levels
  <2>3. level + 1 \in 0 .. TreeDepth
    BY TreeDepthAssumption
  <2> QED  BY <2>2, <2>3
<1>3. \A level \in 0 .. TreeDepth : level \in S
  <2> HIDE DEF S
  <2> QED  BY <1>1, <1>2, LevelInduction, TreeDepthAssumption
<1> QED  BY <1>3

(* The path of a leaf of the tree stays in the tree, up to its root. *)
LEMMA AboveInRow ==
  ASSUME NEW index \in 0 .. Capacity - 1
  PROVE  /\ \A level \in 0 .. TreeDepth : Above(index)[level] \in Row(level)
         /\ Above(index)[TreeDepth] = 0
<1>1. index \in Nat
  OBVIOUS
<1> DEFINE S == {level \in 0 .. TreeDepth : Above(index)[level] \in Row(level)}
<1>2. 0 \in S
  <2>1. Above(index)[0] = index
    BY AboveSteps
  <2>2. index \in Row(0)
    BY RowWidths
  <2> QED  BY <2>1, <2>2, TreeDepthAssumption
<1>3. ASSUME NEW level \in 0 .. TreeDepth - 1, level \in S
      PROVE  level + 1 \in S
  <2>1. level \in Levels /\ level + 1 \in 0 .. TreeDepth
    BY TreeDepthAssumption DEF Levels
  <2>2. Above(index)[level] \in Row(level)
    BY <1>3
  <2> QED  BY <1>1, <2>1, <2>2, AboveSteps, RowWidths
<1>4. \A level \in 0 .. TreeDepth : level \in S
  <2> HIDE DEF S
  <2> QED  BY <1>2, <1>3, LevelInduction, TreeDepthAssumption
<1> QED  BY <1>4, RowWidths, TreeDepthAssumption

-----------------------------------------------------------------------------
(* One leaf more.                                                          *)

RowsAt(leaves, level, i) == Rows(leaves)[level][i]

LEMMA NodesOfRows ==
  ASSUME NEW leaves
  PROVE  /\ \A i \in Row(0) :
              RowsAt(leaves, 0, i) = IF i < Len(leaves) THEN leaves[i + 1] ELSE ZeroLeaf
         /\ \A level \in Levels : \A i \in Row(level + 1) :
              RowsAt(leaves, level + 1, i) =
                hash_nodes(RowsAt(leaves, level, 2 * i), RowsAt(leaves, level, 2 * i + 1))
<1>1. Rows(leaves)[0] = Leaves(leaves)
  BY RowsSteps
<1>2. \A level \in Levels : Rows(leaves)[level + 1] = Parents(Rows(leaves)[level], level + 1)
  BY RowsSteps
<1> QED  BY <1>1, <1>2 DEF RowsAt, Leaves, Parents

(* Only the nodes above the new leaf change. *)
LEMMA OthersKept ==
  ASSUME NEW Hash, NEW leaves \in Seq(Hash), NEW leaf \in Hash, Len(leaves) \in Row(0)
  PROVE  \A level \in 0 .. TreeDepth : \A i \in Row(level) :
           i # Above(Len(leaves))[level] =>
             RowsAt(Append(leaves, leaf), level, i) = RowsAt(leaves, level, i)
<1> DEFINE more == Append(leaves, leaf)
<1>1. PICK n \in Nat : n = Len(leaves)
  OBVIOUS
<1> DEFINE Kept(level) == \A i \in Row(level) :
                            i # Above(n)[level] => RowsAt(more, level, i) = RowsAt(leaves, level, i)
           S == {level \in 0 .. TreeDepth : Kept(level)}
<1>2. Len(more) = n + 1 /\ \A i \in 0 .. n - 1 : more[i + 1] = leaves[i + 1]
  BY <1>1
<1> HIDE DEF more
<1>3. 0 \in S
  <2> SUFFICES ASSUME NEW i \in Row(0), i # n
               PROVE  RowsAt(more, 0, i) = RowsAt(leaves, 0, i)
    BY AboveSteps, TreeDepthAssumption
  <2>1. i \in Nat
    BY RowWidths, TreeDepthAssumption
  <2>2. /\ RowsAt(more, 0, i) = IF i < n + 1 THEN more[i + 1] ELSE ZeroLeaf
        /\ RowsAt(leaves, 0, i) = IF i < n THEN leaves[i + 1] ELSE ZeroLeaf
    BY <1>1, <1>2, NodesOfRows
  <2> QED  BY <1>2, <2>1, <2>2
<1>4. ASSUME NEW level \in 0 .. TreeDepth - 1, level \in S
      PROVE  level + 1 \in S
  <2>1. level \in Levels /\ level + 1 \in 0 .. TreeDepth
    BY TreeDepthAssumption DEF Levels
  <2>2. PICK a \in Nat : a = Above(n)[level]
    BY AboveTyped, TreeDepthAssumption
  <2>3. Above(n)[level + 1] = a \div 2
    BY <2>1, <2>2, AboveSteps
  <2> SUFFICES ASSUME NEW i \in Row(level + 1), i # a \div 2
               PROVE  RowsAt(more, level + 1, i) = RowsAt(leaves, level + 1, i)
    BY <2>1, <2>3
  <2>4. i \in Nat /\ 2 * i \in Row(level) /\ 2 * i + 1 \in Row(level)
    BY <2>1, RowWidths
  <2>5. 2 * i # a /\ 2 * i + 1 # a
    BY <2>2, <2>4
  <2>6. /\ RowsAt(more, level, 2 * i) = RowsAt(leaves, level, 2 * i)
        /\ RowsAt(more, level, 2 * i + 1) = RowsAt(leaves, level, 2 * i + 1)
    BY <1>4, <2>2, <2>4, <2>5
  <2> QED  BY <2>1, <2>6, NodesOfRows
<1>5. \A level \in 0 .. TreeDepth : level \in S
  <2> HIDE DEF S
  <2> QED  BY <1>3, <1>4, LevelInduction, TreeDepthAssumption
<1> QED  BY <1>1, <1>5 DEF more

(* Right of the nodes above the last leaf all is empty. *)
LEMMA EmptyOnTheRight ==
  ASSUME NEW leaves, NEW n \in Nat, Len(leaves) \in Nat, Len(leaves) <= n + 1
  PROVE  \A level \in 0 .. TreeDepth : \A i \in Row(level) :
           i > Above(n)[level] => RowsAt(leaves, level, i) = ZeroHash[level]
<1> DEFINE Empty(level) == \A i \in Row(level) :
                             i > Above(n)[level] => RowsAt(leaves, level, i) = ZeroHash[level]
           S == {level \in 0 .. TreeDepth : Empty(level)}
<1>1. 0 \in S
  <2> SUFFICES ASSUME NEW i \in Row(0), i > n
               PROVE  RowsAt(leaves, 0, i) = ZeroLeaf
    BY AboveSteps, ZeroHashSteps, TreeDepthAssumption
  <2>1. i \in Nat
    BY RowWidths, TreeDepthAssumption
  <2>2. ~(i < Len(leaves))
    BY <2>1
  <2> QED  BY <2>2, NodesOfRows
<1>2. ASSUME NEW level \in 0 .. TreeDepth - 1, level \in S
      PROVE  level + 1 \in S
  <2>1. level \in Levels /\ level + 1 \in 0 .. TreeDepth
    BY TreeDepthAssumption DEF Levels
  <2>2. PICK a \in Nat : a = Above(n)[level]
    BY AboveTyped, TreeDepthAssumption
  <2>3. Above(n)[level + 1] = a \div 2
    BY <2>1, <2>2, AboveSteps
  <2> SUFFICES ASSUME NEW i \in Row(level + 1), i > a \div 2
               PROVE  RowsAt(leaves, level + 1, i) = ZeroHash[level + 1]
    BY <2>1, <2>3
  <2>4. i \in Nat /\ 2 * i \in Row(level) /\ 2 * i + 1 \in Row(level)
    BY <2>1, RowWidths
  <2>5. 2 * i > a /\ 2 * i + 1 > a
    BY <2>2, <2>4
  <2>6. /\ RowsAt(leaves, level, 2 * i) = ZeroHash[level]
        /\ RowsAt(leaves, level, 2 * i + 1) = ZeroHash[level]
    BY <1>2, <2>2, <2>4, <2>5
  <2> QED  BY <2>1, <2>6, NodesOfRows, ZeroHashSteps
<1>3. \A level \in 0 .. TreeDepth : level \in S
  <2> HIDE DEF S
  <2> QED  BY <1>1, <1>2, LevelInduction, TreeDepthAssumption
<1> QED  BY <1>3

(* An odd number is one more than twice its half, and so on. *)
LEMMA Parity ==
  ASSUME NEW a \in Nat
  PROVE  /\ a % 2 = 0 => a = 2 * (a \div 2) /\ (a + 1) \div 2 = a \div 2 /\ (a + 1) % 2 # 0
         /\ a % 2 # 0 => a = 2 * (a \div 2) + 1 /\ (a + 1) \div 2 = a \div 2 + 1 /\ (a + 1) % 2 = 0
         /\ a \div 2 \in Nat
OBVIOUS

(* The frontier and the empty subtrees are all the path needs: it hashes   *)
(* what the full tree has above the new leaf.                              *)
LEMMA PathInTree ==
  ASSUME NEW tree, NEW Hash, NEW leaves \in Seq(Hash), NEW leaf \in Hash,
         Len(leaves) \in Row(0), tree.next_index = Len(leaves),
         \A level \in Levels : tree.zero_hashes[level] = ZeroHash[level],
         FrontierHolds(tree, leaves)
  PROVE  \A level \in 0 .. TreeDepth :
           Path(tree, leaf)[level] =
             RowsAt(Append(leaves, leaf), level, Above(Len(leaves))[level])
<1> DEFINE more == Append(leaves, leaf)
<1>1. PICK n \in Nat : n = Len(leaves)
  OBVIOUS
<1> DEFINE OnPath(level) == Path(tree, leaf)[level] = RowsAt(more, level, Above(n)[level])
           S == {level \in 0 .. TreeDepth : OnPath(level)}
<1>2. Len(more) = n + 1 /\ more[n + 1] = leaf
  BY <1>1
<1>3. \A level \in 0 .. TreeDepth : \A i \in Row(level) :
        i # Above(n)[level] => RowsAt(more, level, i) = RowsAt(leaves, level, i)
  BY <1>1, OthersKept
<1> HIDE DEF more
<1>4. \A level \in 0 .. TreeDepth : \A i \in Row(level) :
        i > Above(n)[level] => RowsAt(more, level, i) = ZeroHash[level]
  <2>1. Len(more) \in Nat /\ Len(more) <= n + 1
    BY <1>2
  <2> QED  BY <2>1, EmptyOnTheRight
<1>5. n \in 0 .. Capacity - 1 /\ n \in Row(0)
  BY <1>1, RowWidths
<1>6. 0 \in S
  <2>1. RowsAt(more, 0, n) = leaf
    BY <1>2, <1>5, NodesOfRows
  <2> QED  BY <2>1, PathSteps, AboveSteps, TreeDepthAssumption
<1>7. ASSUME NEW level \in 0 .. TreeDepth - 1, level \in S
      PROVE  level + 1 \in S
  <2>1. level \in Levels /\ level \in 0 .. TreeDepth /\ level + 1 \in 0 .. TreeDepth
    BY TreeDepthAssumption DEF Levels
  <2>2. PICK a \in Nat : a = Above(n)[level]
    BY AboveTyped, TreeDepthAssumption
  <2>3. PICK b \in Nat : b = a \div 2
    BY Parity
  <2>4. Above(n)[level + 1] = b /\ b \in Row(level + 1)
    <3>1. Above(n)[level + 1] = b
      BY <2>1, <2>2, <2>3, AboveSteps
    <3> QED  BY <1>5, <2>1, <3>1, AboveInRow
  <2>5. 2 * b \in Row(level) /\ 2 * b + 1 \in Row(level)
    BY <2>1, <2>4, RowWidths
  <2>6. RowsAt(more, level + 1, b) = hash_nodes(RowsAt(more, level, 2 * b), RowsAt(more, level, 2 * b + 1))
    BY <2>1, <2>4, NodesOfRows
  <2>7. Path(tree, leaf)[level] = RowsAt(more, level, a)
    BY <1>7, <2>2
  <2>8. Path(tree, leaf)[level + 1] = Parent(tree, level, RowsAt(more, level, a))
    BY <2>1, <2>7, PathSteps
  <2>9. CASE a % 2 = 0
    <3>1. a = 2 * b /\ 2 * b + 1 > a
      BY <2>3, <2>9, Parity
    <3>2. RowsAt(more, level, 2 * b + 1) = ZeroHash[level]
      BY <1>4, <2>1, <2>2, <2>5, <3>1
    <3>3. Parent(tree, level, RowsAt(more, level, a)) = hash_nodes(RowsAt(more, level, a), ZeroHash[level])
      BY <1>1, <2>1, <2>2, <2>9 DEF Parent, IsLeft
    <3>4. Path(tree, leaf)[level + 1] = RowsAt(more, level + 1, b)
      BY <2>6, <2>8, <3>1, <3>2, <3>3
    <3> QED  BY <2>1, <2>4, <3>4
  <2>10. CASE a % 2 # 0
    <3>1. a = 2 * b + 1 /\ a - 1 = 2 * b /\ 2 * b # a
      BY <2>3, <2>10, Parity
    <3>2. tree.filled_subtrees[level] = RowsAt(leaves, level, a - 1)
      BY <1>1, <2>1, <2>2, <2>10 DEF FrontierHolds, IsLeft, RowsAt
    <3>3. RowsAt(more, level, 2 * b) = RowsAt(leaves, level, 2 * b)
      BY <1>3, <2>1, <2>2, <2>5, <3>1
    <3>4. Parent(tree, level, RowsAt(more, level, a)) =
            hash_nodes(RowsAt(leaves, level, a - 1), RowsAt(more, level, a))
      BY <1>1, <2>1, <2>2, <2>10, <3>2 DEF Parent, IsLeft
    <3>5. Path(tree, leaf)[level + 1] = RowsAt(more, level + 1, b)
      BY <2>6, <2>8, <3>1, <3>3, <3>4
    <3> QED  BY <2>1, <2>4, <3>5
  <2> QED  BY <2>9, <2>10
<1>8. \A level \in 0 .. TreeDepth : level \in S
  <2> HIDE DEF S
  <2> QED  BY <1>6, <1>7, LevelInduction, TreeDepthAssumption
<1> QED  BY <1>1, <1>8 DEF more

(* The next index carries: it turns right children into left children up   *)
(* to the first left child, and leaves all above that alone.               *)
LEMMA Carries ==
  ASSUME NEW n \in Nat
  PROVE  \A level \in 0 .. TreeDepth :
           Above(n + 1)[level] =
             Above(n)[level] +
               (IF \A lower \in 0 .. level - 1 : ~IsLeft(n, lower) THEN 1 ELSE 0)
<1> DEFINE AllRight(level) == \A lower \in 0 .. level - 1 : ~IsLeft(n, lower)
           Carry(level) == Above(n + 1)[level] = Above(n)[level] + (IF AllRight(level) THEN 1 ELSE 0)
           S == {level \in 0 .. TreeDepth : Carry(level)}
<1>1. 0 \in S
  BY AboveSteps, TreeDepthAssumption
<1>2. ASSUME NEW level \in 0 .. TreeDepth - 1, level \in S
      PROVE  level + 1 \in S
  <2>1. level \in Levels /\ level + 1 \in 0 .. TreeDepth
    BY TreeDepthAssumption DEF Levels
  <2>2. PICK a \in Nat : a = Above(n)[level]
    BY AboveTyped, TreeDepthAssumption
  <2>3. Above(n)[level + 1] = a \div 2 /\ Above(n + 1)[level + 1] = Above(n + 1)[level] \div 2
    BY <2>1, <2>2, AboveSteps
  <2>4. Above(n + 1)[level] = IF AllRight(level) THEN a + 1 ELSE a
    BY <1>2, <2>2
  <2>5. AllRight(level + 1) <=> AllRight(level) /\ a % 2 # 0
    BY <2>2 DEF IsLeft
  <2> HIDE DEF AllRight
  <2>6. Above(n + 1)[level + 1] = Above(n)[level + 1] + (IF AllRight(level + 1) THEN 1 ELSE 0)
    BY <2>3, <2>4, <2>5, Parity
  <2> QED  BY <2>1, <2>6
<1>3. \A level \in 0 .. TreeDepth : level \in S
  <2> HIDE DEF S
  <2> QED  BY <1>1, <1>2, LevelInduction, TreeDepthAssumption
<1> QED  BY <1>3

-----------------------------------------------------------------------------
(* The tree is right.                                                      *)

TreeShape(tree) ==
  tree = [ filled_subtrees |-> tree.filled_subtrees,
           zero_hashes     |-> tree.zero_hashes,
           current_root    |-> tree.current_root,
           next_index      |-> tree.next_index ]

(* The tree is that of these leaves, and fit for the next one. *)
TreeRight(tree, leaves) ==
  /\ TreeShape(tree)
  /\ \A level \in Levels : tree.zero_hashes[level] = ZeroHash[level]
  /\ tree.next_index = Len(leaves)
  /\ tree.current_root = ReferenceRoot(leaves)
  /\ FrontierHolds(tree, leaves)

(* An empty tree, of which every node is a left child above index 0. *)
THEOREM NewTreeRight == TreeRight(NewTree, <<>>)
<1>1. \A level \in 0 .. TreeDepth : Above(0)[level] = 0
  <2> DEFINE S == {level \in 0 .. TreeDepth : Above(0)[level] = 0}
  <2>1. 0 \in S
    BY AboveSteps, TreeDepthAssumption
  <2>2. ASSUME NEW level \in 0 .. TreeDepth - 1, level \in S
        PROVE  level + 1 \in S
    <3>1. Above(0)[level + 1] = Above(0)[level] \div 2
      BY AboveSteps DEF Levels
    <3> QED  BY <2>2, <3>1, TreeDepthAssumption
  <2>3. \A level \in 0 .. TreeDepth : level \in S
    <3> HIDE DEF S
    <3> QED  BY <2>1, <2>2, LevelInduction, TreeDepthAssumption
  <2> QED  BY <2>3
<1>2. FrontierHolds(NewTree, <<>>)
  <2>1. \A level \in Levels : IsLeft(0, level)
    BY <1>1, TreeDepthAssumption DEF IsLeft, Levels
  <2> QED  BY <2>1 DEF FrontierHolds, NewTree
<1>3. NewTree.current_root = ReferenceRoot(<<>>)
  <2> DEFINE S == {level \in 0 .. TreeDepth :
                     \A i \in Row(level) : RowsAt(<<>>, level, i) = ZeroHash[level]}
  <2>1. 0 \in S
    <3>1. \A i \in Row(0) : i \in Nat /\ ~(i < Len(<<>>))
      BY RowWidths, TreeDepthAssumption
    <3>2. \A i \in Row(0) : RowsAt(<<>>, 0, i) = ZeroLeaf
      BY <3>1, NodesOfRows
    <3> QED  BY <3>2, ZeroHashSteps, TreeDepthAssumption
  <2>2. ASSUME NEW level \in 0 .. TreeDepth - 1, level \in S
        PROVE  level + 1 \in S
    <3>1. level \in Levels /\ level + 1 \in 0 .. TreeDepth
      BY TreeDepthAssumption DEF Levels
    <3>2. ASSUME NEW i \in Row(level + 1)
          PROVE  RowsAt(<<>>, level + 1, i) = ZeroHash[level + 1]
      <4>1. 2 * i \in Row(level) /\ 2 * i + 1 \in Row(level)
        BY <3>1, RowWidths
      <4>2. /\ RowsAt(<<>>, level, 2 * i) = ZeroHash[level]
            /\ RowsAt(<<>>, level, 2 * i + 1) = ZeroHash[level]
        BY <2>2, <4>1
      <4> QED  BY <3>1, <4>2, NodesOfRows, ZeroHashSteps
    <3> QED  BY <3>1, <3>2
  <2>3. \A level \in 0 .. TreeDepth : level \in S
    <3> HIDE DEF S
    <3> QED  BY <2>1, <2>2, LevelInduction, TreeDepthAssumption
  <2>4. RowsAt(<<>>, TreeDepth, 0) = ZeroHash[TreeDepth]
    BY <2>3, RowWidths, TreeDepthAssumption
  <2> QED  BY <2>4 DEF RowsAt, ReferenceRoot, NewTree
<1>4. TreeShape(NewTree) /\ NewTree.next_index = Len(<<>>)
  BY DEF NewTree, TreeShape
<1>5. \A level \in Levels : NewTree.zero_hashes[level] = ZeroHash[level]
  BY DEF NewTree
<1> QED  BY <1>2, <1>3, <1>4, <1>5 DEF TreeRight

(* insert_oracle, on a tree of any depth that is right and not full. *)
LEMMA Inserted ==
  ASSUME NEW tree, TreeShape(tree), NEW leaf
  PROVE  LET new == InsertOracle(tree, leaf) IN
         /\ TreeShape(new)
         /\ new.next_index = tree.next_index + 1
         /\ new.zero_hashes = tree.zero_hashes
         /\ new.current_root = Path(tree, leaf)[TreeDepth]
         /\ \A level \in Levels :
              new.filled_subtrees[level] =
                IF /\ IsLeft(tree.next_index, level)
                   /\ \A other \in Levels : IsLeft(tree.next_index, other) => level <= other
                THEN Path(tree, leaf)[level] ELSE tree.filled_subtrees[level]
<1> DEFINE n     == tree.next_index
           lefts == {level \in Levels : IsLeft(n, level)}
           first == {level \in lefts : \A other \in lefts : level <= other}
           kept  == [level \in Levels |->
                       IF level \in first THEN Path(tree, leaf)[level]
                       ELSE tree.filled_subtrees[level]]
<1>1. InsertOracle(tree, leaf) =
        [ filled_subtrees |-> kept,
          zero_hashes     |-> tree.zero_hashes,
          current_root    |-> Path(tree, leaf)[TreeDepth],
          next_index      |-> n + 1 ]
  <2>1. InsertOracle(tree, leaf) =
          [ tree EXCEPT !.filled_subtrees = kept,
                        !.current_root = Path(tree, leaf)[TreeDepth],
                        !.next_index = @ + 1 ]
    BY DEF InsertOracle
  <2> HIDE DEF kept
  <2> QED  BY <2>1 DEF TreeShape
<1>2. \A level \in Levels :
        level \in first <=> /\ IsLeft(n, level)
                           /\ \A other \in Levels : IsLeft(n, other) => level <= other
  OBVIOUS
<1>3. \A level \in Levels :
        kept[level] = IF level \in first THEN Path(tree, leaf)[level]
                      ELSE tree.filled_subtrees[level]
  OBVIOUS
<1> HIDE DEF first, kept
<1> QED  BY <1>1, <1>2, <1>3 DEF TreeShape

(* For any depth: if the tree is that of the leaves registered so far, then *)
(* after an insertion its root is that of the full tree over one leaf more, *)
(* and its frontier holds what the insertion after it will need.            *)
THEOREM InsertRight ==
  ASSUME NEW tree, NEW Hash, NEW leaves \in Seq(Hash), NEW leaf \in Hash,
         TreeRight(tree, leaves), ~IsFull(tree)
  PROVE  TreeRight(InsertOracle(tree, leaf), Append(leaves, leaf))
<1> DEFINE more == Append(leaves, leaf)
           new  == InsertOracle(tree, leaf)
<1>1. PICK n \in Nat : n = Len(leaves) /\ n = tree.next_index
  BY DEF TreeRight
<1>2. n \in 0 .. Capacity - 1 /\ n \in Row(0)
  BY <1>1, CapacityPositive, RowWidths DEF IsFull
<1>3. Len(more) = n + 1
  <2>1. Len(more) = Len(leaves) + 1
    OBVIOUS
  <2> QED  BY <1>1, <2>1
<1>4. \A level \in 0 .. TreeDepth : Path(tree, leaf)[level] = RowsAt(more, level, Above(n)[level])
  BY <1>1, <1>2, PathInTree DEF TreeRight
<1>5. \A level \in 0 .. TreeDepth : \A i \in Row(level) :
        i # Above(n)[level] => RowsAt(more, level, i) = RowsAt(leaves, level, i)
  BY <1>1, <1>2, OthersKept
<1>6. /\ TreeShape(new)
      /\ new.next_index = n + 1
      /\ new.zero_hashes = tree.zero_hashes
      /\ new.current_root = Path(tree, leaf)[TreeDepth]
  BY <1>1, Inserted DEF TreeRight
<1>7. ASSUME NEW level \in Levels
      PROVE  new.filled_subtrees[level] =
               IF IsLeft(n, level) /\ \A other \in Levels : IsLeft(n, other) => level <= other
               THEN Path(tree, leaf)[level] ELSE tree.filled_subtrees[level]
  BY <1>1, Inserted DEF TreeRight
<1> HIDE DEF more, new
<1>8. new.current_root = ReferenceRoot(more)
  <2>1. Above(n)[TreeDepth] = 0
    BY <1>2, AboveInRow
  <2> QED  BY <1>4, <1>6, <2>1, TreeDepthAssumption DEF RowsAt, ReferenceRoot
<1>9. FrontierHolds(new, more)
  <2> SUFFICES ASSUME NEW level \in Levels, ~IsLeft(n + 1, level)
               PROVE  new.filled_subtrees[level] = RowsAt(more, level, Above(n + 1)[level] - 1)
    BY <1>6 DEF FrontierHolds, RowsAt
  <2>1. level \in 0 .. TreeDepth
    BY TreeDepthAssumption DEF Levels
  <2>2. PICK a \in Nat : a = Above(n)[level]
    BY <2>1, AboveTyped
  <2>3. Above(n + 1)[level] % 2 # 0
    BY DEF IsLeft
  <2>4. IsLeft(n, level) <=> a % 2 = 0
    BY <2>2 DEF IsLeft
  <2>5. CASE \A lower \in 0 .. level - 1 : ~IsLeft(n, lower)
    <3>1. Above(n + 1)[level] = a + 1
      BY <2>1, <2>2, <2>5, Carries
    <3>2. IsLeft(n, level)
      BY <2>3, <2>4, <3>1, Parity
    <3>3. \A other \in Levels : IsLeft(n, other) => level <= other
      BY <2>5, TreeDepthAssumption DEF Levels
    <3>4. new.filled_subtrees[level] = RowsAt(more, level, a)
      BY <1>4, <1>7, <2>1, <2>2, <3>2, <3>3
    <3> QED  BY <3>1, <3>4
  <2>6. CASE ~\A lower \in 0 .. level - 1 : ~IsLeft(n, lower)
    <3>1. Above(n + 1)[level] = a
      <4> DEFINE AllRight == \A lower \in 0 .. level - 1 : ~IsLeft(n, lower)
      <4>1. Above(n + 1)[level] = Above(n)[level] + (IF AllRight THEN 1 ELSE 0)
        BY <2>1, Carries
      <4>2. ~AllRight
        BY <2>6
      <4> HIDE DEF AllRight
      <4> QED  BY <2>2, <4>1, <4>2
    <3>2. ~IsLeft(n, level) /\ a % 2 # 0
      BY <2>3, <2>4, <3>1
    <3>3. new.filled_subtrees[level] = RowsAt(leaves, level, a - 1)
      BY <1>1, <1>7, <2>2, <3>2 DEF TreeRight, FrontierHolds, RowsAt
    <3>4. a - 1 \in Row(level) /\ a - 1 # a
      <4>1. PICK b \in Nat : b = a \div 2
        BY Parity
      <4>2. a - 1 = 2 * b /\ a - 1 # a
        BY <3>2, <4>1, Parity
      <4>3. b \in Row(level + 1)
        BY <1>2, <2>1, <2>2, <4>1, AboveInRow, RowWidths
      <4> QED  BY <4>2, <4>3, RowWidths
    <3>5. RowsAt(more, level, a - 1) = RowsAt(leaves, level, a - 1)
      BY <1>5, <2>1, <2>2, <3>4
    <3> QED  BY <3>1, <3>3, <3>5
  <2> QED  BY <2>5, <2>6
<1>10. \A level \in Levels : new.zero_hashes[level] = ZeroHash[level]
  BY <1>6 DEF TreeRight
<1>11. TreeRight(new, more)
  BY <1>3, <1>6, <1>8, <1>9, <1>10 DEF TreeRight
<1> QED  BY <1>11 DEF new, more

=============================================================================
