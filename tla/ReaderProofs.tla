---------------------------- MODULE ReaderProofs ----------------------------
(***************************************************************************)
(* Theorems about the readers of the pool's log and the trees they build.  *)
(*                                                                         *)
(* MerkleInsertion: the pool and the SDK insert a leaf in the same way and *)
(* every path either of them builds leads to the root of the tree.         *)
(* RootLogRecovery: what a client recovers is a path of one fork, and      *)
(* under a finality policy a path of the canonical chain; wrong hints hide *)
(* no note, and every answer moves the recovery on.                        *)
(* Indexer: what it serves is a path of one fork, and without              *)
(* reorganisations its root is the pool's and nothing is missing.          *)
(*                                                                         *)
(* The tree is compared with the complete tree of its leaves (Node): the   *)
(* loops of both programs are folds over the levels, unfolded with         *)
(* FoldInduction, and agree with it level by level.                        *)
(***************************************************************************)
EXTENDS RootLogRecovery, MerkleInsertion, Indexer, FiniteInduction

Doubled(c, value, k) == 2 * value
ZeroAbove(c, below, k) == HashPair(below, below)
NodesOnTop(c, below, k) == PairsOf(below)

Powers == INSTANCE FoldInduction WITH Op <- Doubled
Zeros == INSTANCE FoldInduction WITH Op <- ZeroAbove
Trees == INSTANCE FoldInduction WITH Op <- NodesOnTop

PoolLevel(c, s, level) == InsertMerkleLevel(s, level)

PoolFold == INSTANCE FoldInduction WITH Op <- PoolLevel
SdkFold == INSTANCE FoldInduction WITH Op <- InsertLevelByBit
UpFold == INSTANCE FoldInduction WITH Op <- HashUp
RangeFold == INSTANCE FoldInduction WITH Op <- NodesAbove
ClimbOn(c, s, level) == Climb(s, level)
ClimbFold == INSTANCE FoldInduction WITH Op <- ClimbOn

LEMMA FoldsInduct == \A n \in Nat :
    /\ Powers!Inducts(n)
    /\ Zeros!Inducts(n)
    /\ Trees!Inducts(n)
    /\ PoolFold!Inducts(n)
    /\ SdkFold!Inducts(n)
    /\ UpFold!Inducts(n)
    /\ RangeFold!Inducts(n)
    /\ ClimbFold!Inducts(n)
BY NoBadNumber DEF Powers!Inducts, Zeros!Inducts, Trees!Inducts,
   PoolFold!Inducts, SdkFold!Inducts, UpFold!Inducts, RangeFold!Inducts,
   ClimbFold!Inducts

-----------------------------------------------------------------------------
(* Powers of two, empty subtrees and nodes are what their equations say.   *)
LEMMA PowerSteps ==
    /\ PowerOf2[0] = 1
    /\ \A k \in 1..MERKLE_TREE_DEPTH : PowerOf2[k] = 2 * PowerOf2[k - 1]
<1>1. \E g : Powers!Recurs(g, 0, 1, MERKLE_TREE_DEPTH)
    BY DepthAssumption, Powers!RecursionExists, FoldsInduct
<1>2. PowerOf2 = CHOOSE g : Powers!Recurs(g, 0, 1, MERKLE_TREE_DEPTH)
    BY DEF PowerOf2, Powers!Recurs, Doubled
<1>3. Powers!Recurs(PowerOf2, 0, 1, MERKLE_TREE_DEPTH)
    BY <1>1, <1>2
<1> QED BY <1>3, DepthAssumption DEF Powers!Recurs, Doubled

LEMMA ZeroSteps ==
    /\ ZeroHash[0] = ZERO
    /\ \A k \in 1..MERKLE_TREE_DEPTH : ZeroHash[k] = HashPair(ZeroHash[k - 1], ZeroHash[k - 1])
<1>1. \E g : Zeros!Recurs(g, 0, ZERO, MERKLE_TREE_DEPTH)
    BY DepthAssumption, Zeros!RecursionExists, FoldsInduct
<1>2. ZeroHash = CHOOSE g : Zeros!Recurs(g, 0, ZERO, MERKLE_TREE_DEPTH)
    BY DEF ZeroHash, Zeros!Recurs, ZeroAbove
<1>3. Zeros!Recurs(ZeroHash, 0, ZERO, MERKLE_TREE_DEPTH)
    BY <1>1, <1>2
<1> QED BY <1>3, DepthAssumption DEF Zeros!Recurs, ZeroAbove

Bottom(leafAt) == [p \in Nat |-> NodeAt(leafAt, p, ZERO)]
Nodes(leafAt) == CHOOSE g : Trees!Recurs(g, 0, Bottom(leafAt), MERKLE_TREE_DEPTH)

(* The node at position p of level k in the complete tree.                 *)
Node(leafAt, k, p) == Nodes(leafAt)[k][p]

LEMMA NodeSteps ==
    ASSUME NEW leafAt
    PROVE  /\ \A p \in Nat : Node(leafAt, 0, p) = NodeAt(leafAt, p, ZERO)
           /\ \A k \in 1..MERKLE_TREE_DEPTH, p \in Nat :
                 Node(leafAt, k, p) = HashPair(Node(leafAt, k - 1, 2 * p), Node(leafAt, k - 1, 2 * p + 1))
           /\ TreeRoot(leafAt) = Node(leafAt, MERKLE_TREE_DEPTH, 0)
<1> DEFINE g == Nodes(leafAt)
<1>1. \E h : Trees!Recurs(h, 0, Bottom(leafAt), MERKLE_TREE_DEPTH)
    BY DepthAssumption, Trees!RecursionExists, FoldsInduct
<1>2. Trees!Recurs(g, 0, Bottom(leafAt), MERKLE_TREE_DEPTH)
    BY <1>1 DEF Nodes
<1>3. TreeRoot(leafAt) = g[MERKLE_TREE_DEPTH][0]
    BY DEF TreeRoot, Nodes, Bottom, Trees!Recurs, NodesOnTop
<1> HIDE DEF g
<1>4. g[0] = Bottom(leafAt) /\ \A k \in 1..MERKLE_TREE_DEPTH : g[k] = PairsOf(g[k - 1])
    BY <1>2, DepthAssumption DEF Trees!Recurs, NodesOnTop
<1>5. \A p \in Nat : g[0][p] = NodeAt(leafAt, p, ZERO)
    BY <1>4 DEF Bottom
<1>6. \A k \in 1..MERKLE_TREE_DEPTH, p \in Nat : g[k][p] = HashPair(g[k - 1][2 * p], g[k - 1][2 * p + 1])
    BY <1>4 DEF PairsOf
<1> QED BY <1>3, <1>5, <1>6 DEF Node, g

LEMMA LeafNode == ASSUME NEW L, NEW p \in Nat PROVE Node(L, 0, p) = NodeAt(L, p, ZERO)
BY NodeSteps

LEMMA InnerNode ==
    ASSUME NEW L, NEW k \in 0..(MERKLE_TREE_DEPTH - 1), NEW p \in Nat
    PROVE  Node(L, k + 1, p) = HashPair(Node(L, k, 2 * p), Node(L, k, 2 * p + 1))
<1>1. k + 1 \in 1..MERKLE_TREE_DEPTH /\ (k + 1) - 1 = k
    BY DepthAssumption
<1>2. Node(L, k + 1, p) = HashPair(Node(L, (k + 1) - 1, 2 * p), Node(L, (k + 1) - 1, 2 * p + 1))
    BY <1>1, NodeSteps
<1> QED BY <1>1, <1>2

-----------------------------------------------------------------------------
(* The position of leaf i's ancestor on level k.                           *)
Above(i, k) == i \div PowerOf2[k]

LEMMA PowerPositive == \A k \in 0..MERKLE_TREE_DEPTH : PowerOf2[k] \in Nat \ {0}
<1> DEFINE Bad == {k \in 0..MERKLE_TREE_DEPTH : PowerOf2[k] \notin Nat \ {0}}
<1>1. 0 \notin Bad
    BY PowerSteps
<1>2. ASSUME NEW k \in 0..(MERKLE_TREE_DEPTH - 1), k \notin Bad PROVE k + 1 \notin Bad
  <2>1. k \in 0..MERKLE_TREE_DEPTH /\ k + 1 \in 1..MERKLE_TREE_DEPTH /\ (k + 1) - 1 = k
      BY DepthAssumption
  <2>2. PowerOf2[k] \in Nat \ {0} /\ PowerOf2[k + 1] = 2 * PowerOf2[k]
      BY <1>2, <2>1, PowerSteps
  <2> QED BY <2>2
<1>3. Bad \in SUBSET (0..MERKLE_TREE_DEPTH) /\ MERKLE_TREE_DEPTH \in Nat
    BY DepthAssumption
<1> HIDE DEF Bad
<1>4. Bad = {}
    BY <1>1, <1>2, <1>3, NoBadNumber
<1> QED BY <1>4 DEF Bad

LEMMA HalfOfQuotient ==
    ASSUME NEW n \in Nat, NEW x \in Nat \ {0}
    PROVE  n \div (2 * x) = (n \div x) \div 2
OBVIOUS

LEMMA QuotientRange ==
    ASSUME NEW n \in Nat, NEW x \in Nat \ {0}, NEW p \in Nat
    PROVE  /\ n \div x \in Nat
           /\ n \div x = p <=> (p * x <= n /\ n < (p + 1) * x)
OBVIOUS

LEMMA AboveSteps ==
    ASSUME NEW i \in Nat
    PROVE  /\ Above(i, 0) = i
           /\ \A k \in 0..MERKLE_TREE_DEPTH : Above(i, k) \in Nat
           /\ \A k \in 1..MERKLE_TREE_DEPTH : Above(i, k) = Above(i, k - 1) \div 2
           /\ i < Capacity => Above(i, MERKLE_TREE_DEPTH) = 0
           /\ \A k \in 0..MERKLE_TREE_DEPTH, p \in Nat :
                 Above(i, k) = p <=> (p * PowerOf2[k] <= i /\ i < (p + 1) * PowerOf2[k])
<1>1. Above(i, 0) = i
    BY PowerSteps DEF Above
<1>2. \A k \in 0..MERKLE_TREE_DEPTH : Above(i, k) \in Nat
    BY PowerPositive, QuotientRange DEF Above
<1>3. ASSUME NEW k \in 1..MERKLE_TREE_DEPTH PROVE Above(i, k) = Above(i, k - 1) \div 2
  <2>1. PowerOf2[k] = 2 * PowerOf2[k - 1] /\ PowerOf2[k - 1] \in Nat \ {0}
      BY PowerSteps, PowerPositive, DepthAssumption
  <2> QED BY <2>1, HalfOfQuotient DEF Above
<1>4. ASSUME NEW k \in 0..MERKLE_TREE_DEPTH, NEW p \in Nat
      PROVE  Above(i, k) = p <=> (p * PowerOf2[k] <= i /\ i < (p + 1) * PowerOf2[k])
    BY PowerPositive, QuotientRange DEF Above
<1>5. ASSUME i < Capacity PROVE Above(i, MERKLE_TREE_DEPTH) = 0
  <2>1. MERKLE_TREE_DEPTH \in 0..MERKLE_TREE_DEPTH /\ PowerOf2[MERKLE_TREE_DEPTH] \in Nat
      BY DepthAssumption, PowerPositive
  <2>2. 0 * PowerOf2[MERKLE_TREE_DEPTH] <= i /\ i < (0 + 1) * PowerOf2[MERKLE_TREE_DEPTH]
      BY <1>5, <2>1 DEF Capacity
  <2> QED BY <1>4, <2>1, <2>2
<1> QED BY <1>1, <1>2, <1>3, <1>4, <1>5

(* The leaves under a node are those under its two children.               *)
LEMMA ChildLeaves ==
    ASSUME NEW k \in 1..MERKLE_TREE_DEPTH, NEW p \in Nat, NEW i \in Nat
    PROVE  Above(i, k) = p <=> Above(i, k - 1) \in {2 * p, 2 * p + 1}
<1>1. Above(i, k) = Above(i, k - 1) \div 2
    BY AboveSteps
<1>2. Above(i, k - 1) \in Nat
    BY AboveSteps, DepthAssumption
<1> QED BY <1>1, <1>2

(* A node depends on the leaves under it only.                             *)
LEMMA NodeLocal ==
    ASSUME NEW L, NEW M, NEW k \in 0..MERKLE_TREE_DEPTH, NEW p \in Nat,
           \A i \in Nat : Above(i, k) = p => NodeAt(L, i, ZERO) = NodeAt(M, i, ZERO)
    PROVE  Node(L, k, p) = Node(M, k, p)
<1> DEFINE Same(j, q) == \A i \in Nat : Above(i, j) = q => NodeAt(L, i, ZERO) = NodeAt(M, i, ZERO)
           Bad == {j \in 0..MERKLE_TREE_DEPTH :
                      \E q \in Nat : Same(j, q) /\ Node(L, j, q) # Node(M, j, q)}
<1>1. 0 \notin Bad
  <2> SUFFICES ASSUME NEW q \in Nat, Same(0, q) PROVE Node(L, 0, q) = Node(M, 0, q)
      OBVIOUS
  <2>1. Above(q, 0) = q
      BY AboveSteps
  <2> QED BY <2>1, LeafNode
<1>2. ASSUME NEW j \in 0..(MERKLE_TREE_DEPTH - 1), j \notin Bad PROVE j + 1 \notin Bad
  <2> SUFFICES ASSUME NEW q \in Nat, Same(j + 1, q) PROVE Node(L, j + 1, q) = Node(M, j + 1, q)
      OBVIOUS
  <2>1. /\ j \in 0..MERKLE_TREE_DEPTH /\ j + 1 \in 1..MERKLE_TREE_DEPTH /\ (j + 1) - 1 = j
        /\ 2 * q \in Nat /\ 2 * q + 1 \in Nat
      BY DepthAssumption
  <2>2. Same(j, 2 * q) /\ Same(j, 2 * q + 1)
      BY <2>1, ChildLeaves
  <2>3. Node(L, j, 2 * q) = Node(M, j, 2 * q) /\ Node(L, j, 2 * q + 1) = Node(M, j, 2 * q + 1)
      BY <1>2, <2>1, <2>2
  <2> QED BY <2>3, InnerNode
<1>3. Bad \in SUBSET (0..MERKLE_TREE_DEPTH) /\ MERKLE_TREE_DEPTH \in Nat
    BY DepthAssumption
<1> HIDE DEF Bad
<1>4. Bad = {}
    BY <1>1, <1>2, <1>3, NoBadNumber
<1> QED BY <1>4 DEF Bad

(* A node without a leaf under it is the hash of an empty subtree.         *)
LEMMA NodeEmpty ==
    ASSUME NEW L, NEW k \in 0..MERKLE_TREE_DEPTH, NEW p \in Nat,
           \A i \in Nat : Above(i, k) = p => NodeAt(L, i, ZERO) = ZERO
    PROVE  Node(L, k, p) = ZeroHash[k]
<1> DEFINE Empty(j, q) == \A i \in Nat : Above(i, j) = q => NodeAt(L, i, ZERO) = ZERO
           Bad == {j \in 0..MERKLE_TREE_DEPTH :
                      \E q \in Nat : Empty(j, q) /\ Node(L, j, q) # ZeroHash[j]}
<1>1. 0 \notin Bad
  <2> SUFFICES ASSUME NEW q \in Nat, Empty(0, q) PROVE Node(L, 0, q) = ZeroHash[0]
      OBVIOUS
  <2>1. Above(q, 0) = q
      BY AboveSteps
  <2> QED BY <2>1, LeafNode, ZeroSteps
<1>2. ASSUME NEW j \in 0..(MERKLE_TREE_DEPTH - 1), j \notin Bad PROVE j + 1 \notin Bad
  <2> SUFFICES ASSUME NEW q \in Nat, Empty(j + 1, q) PROVE Node(L, j + 1, q) = ZeroHash[j + 1]
      OBVIOUS
  <2>1. /\ j \in 0..MERKLE_TREE_DEPTH /\ j + 1 \in 1..MERKLE_TREE_DEPTH /\ (j + 1) - 1 = j
        /\ 2 * q \in Nat /\ 2 * q + 1 \in Nat
      BY DepthAssumption
  <2>2. Empty(j, 2 * q) /\ Empty(j, 2 * q + 1)
      BY <2>1, ChildLeaves
  <2>3. Node(L, j, 2 * q) = ZeroHash[j] /\ Node(L, j, 2 * q + 1) = ZeroHash[j]
      BY <1>2, <2>1, <2>2
  <2>4. ZeroHash[j + 1] = HashPair(ZeroHash[j], ZeroHash[j])
      BY <2>1, ZeroSteps
  <2> QED BY <2>3, <2>4, InnerNode
<1>3. Bad \in SUBSET (0..MERKLE_TREE_DEPTH) /\ MERKLE_TREE_DEPTH \in Nat
    BY DepthAssumption
<1> HIDE DEF Bad
<1>4. Bad = {}
    BY <1>1, <1>2, <1>3, NoBadNumber
<1> QED BY <1>4 DEF Bad

(* A node determines the leaves under it.                                  *)
LEMMA NodeInjective ==
    ASSUME NEW L, NEW M, NEW k \in 0..MERKLE_TREE_DEPTH, NEW p \in Nat,
           Node(L, k, p) = Node(M, k, p), NEW i \in Nat, Above(i, k) = p
    PROVE  NodeAt(L, i, ZERO) = NodeAt(M, i, ZERO)
<1> DEFINE Same(j, q) == \A n \in Nat : Above(n, j) = q => NodeAt(L, n, ZERO) = NodeAt(M, n, ZERO)
           Bad == {j \in 0..MERKLE_TREE_DEPTH :
                      \E q \in Nat : Node(L, j, q) = Node(M, j, q) /\ ~Same(j, q)}
<1>1. 0 \notin Bad
  <2> SUFFICES ASSUME NEW q \in Nat, Node(L, 0, q) = Node(M, 0, q) PROVE Same(0, q)
      OBVIOUS
  <2>1. \A n \in Nat : Above(n, 0) = n
      BY AboveSteps
  <2> QED BY <2>1, LeafNode
<1>2. ASSUME NEW j \in 0..(MERKLE_TREE_DEPTH - 1), j \notin Bad PROVE j + 1 \notin Bad
  <2> SUFFICES ASSUME NEW q \in Nat, Node(L, j + 1, q) = Node(M, j + 1, q) PROVE Same(j + 1, q)
      OBVIOUS
  <2>1. /\ j \in 0..MERKLE_TREE_DEPTH /\ j + 1 \in 1..MERKLE_TREE_DEPTH /\ (j + 1) - 1 = j
        /\ 2 * q \in Nat /\ 2 * q + 1 \in Nat
      BY DepthAssumption
  <2>2. Node(L, j, 2 * q) = Node(M, j, 2 * q) /\ Node(L, j, 2 * q + 1) = Node(M, j, 2 * q + 1)
    <3>1. /\ Node(L, j + 1, q) = <<Node(L, j, 2 * q), Node(L, j, 2 * q + 1)>>
          /\ Node(M, j + 1, q) = <<Node(M, j, 2 * q), Node(M, j, 2 * q + 1)>>
        BY InnerNode DEF HashPair
    <3> QED BY <3>1
  <2>3. Same(j, 2 * q) /\ Same(j, 2 * q + 1)
      BY <1>2, <2>1, <2>2
  <2> QED BY <2>1, <2>3, ChildLeaves
<1>3. Bad \in SUBSET (0..MERKLE_TREE_DEPTH) /\ MERKLE_TREE_DEPTH \in Nat
    BY DepthAssumption
<1> HIDE DEF Bad
<1>4. Bad = {}
    BY <1>1, <1>2, <1>3, NoBadNumber
<1> QED BY <1>4 DEF Bad

-----------------------------------------------------------------------------
(* Insertion of one leaf.                                                  *)

LEMMA QuotientOrder ==
    ASSUME NEW i \in Nat, NEW n \in Nat, NEW x \in Nat \ {0}, i <= n
    PROVE  i \div x <= n \div x
<1>1. i \div x \in Nat /\ (i \div x) * x <= i
    BY QuotientRange
<1>2. n \div x \in Nat /\ n < ((n \div x) + 1) * x
    BY QuotientRange
<1> DEFINE a == i \div x
           b == n \div x
<1>3. a \in Nat /\ b \in Nat /\ a * x < (b + 1) * x
    BY <1>1, <1>2
<1> HIDE DEF a, b
<1>4. a < b + 1
    BY <1>3
<1>5. a <= b
    BY <1>3, <1>4
<1> QED BY <1>5 DEF a, b

LEMMA NextQuotient ==
    ASSUME NEW n \in Nat, NEW x \in Nat \ {0}
    PROVE  (n + 1) \div x \in {n \div x, (n \div x) + 1}
<1> DEFINE a == n \div x
           b == (n + 1) \div x
<1>1. a \in Nat /\ b \in Nat /\ a * x <= n /\ n < (a + 1) * x /\ b * x <= n + 1 /\ n + 1 < (b + 1) * x
  <2>1. a \in Nat /\ a * x <= n /\ n < (a + 1) * x
      BY QuotientRange
  <2>2. n + 1 \in Nat
      OBVIOUS
  <2>3. b \in Nat /\ b * x <= n + 1 /\ n + 1 < (b + 1) * x
      BY <2>2, QuotientRange
  <2> QED BY <2>1, <2>3
<1> HIDE DEF a, b
<1>2. a < b + 1 /\ b * x <= (a + 1) * x
    BY <1>1
<1>3. b <= a + 1
    BY <1>1, <1>2
<1>4. b \in {a, a + 1}
    BY <1>1, <1>2, <1>3
<1> QED BY <1>4 DEF a, b

LEMMA AboveOrder ==
    ASSUME NEW i \in Nat, NEW n \in Nat, NEW k \in 0..MERKLE_TREE_DEPTH
    PROVE  /\ i <= n => Above(i, k) <= Above(n, k)
           /\ Above(n + 1, k) \in {Above(n, k), Above(n, k) + 1}
<1>1. PowerOf2[k] \in Nat \ {0}
    BY PowerPositive
<1>2. i <= n => i \div PowerOf2[k] <= n \div PowerOf2[k]
    BY <1>1, QuotientOrder
<1>3. (n + 1) \div PowerOf2[k] \in {n \div PowerOf2[k], (n \div PowerOf2[k]) + 1}
    BY <1>1, NextQuotient
<1> QED BY <1>2, <1>3 DEF Above

(* M has one leaf more than L, the one at position n, the first free one.  *)
OneMore(L, M, n) ==
    /\ \A i \in Nat : i < n => NodeAt(M, i, ZERO) = NodeAt(L, i, ZERO)
    /\ \A i \in Nat : i > n => NodeAt(M, i, ZERO) = ZERO

(* The filled subtrees are the roots of the complete subtrees that the     *)
(* next leaf, at position n, has on its left.                              *)
FilledFor(filled, L, n) ==
    /\ DOMAIN filled = 0..(MERKLE_TREE_DEPTH - 1)
    /\ \A k \in 0..(MERKLE_TREE_DEPTH - 1) :
          Above(n, k) % 2 = 1 => filled[k] = Node(L, k, Above(n, k) - 1)

(* What insertion has got to when it has done k levels.                    *)
Inserted(current, fresh, filled, M, n, k) ==
    /\ current = Node(M, k, Above(n, k))
    /\ DOMAIN fresh = 0..(MERKLE_TREE_DEPTH - 1)
    /\ \A j \in 0..(MERKLE_TREE_DEPTH - 1) :
          fresh[j] = IF j < k /\ Above(n, j) % 2 = 0 THEN Node(M, j, Above(n, j)) ELSE filled[j]

LEMMA InsertedLevel ==
    ASSUME NEW L, NEW M, NEW n \in Nat, OneMore(L, M, n), NEW filled, FilledFor(filled, L, n),
           NEW k \in 0..(MERKLE_TREE_DEPTH - 1), NEW current, NEW fresh,
           Inserted(current, fresh, filled, M, n, k)
    PROVE  /\ Above(n, k) % 2 = 0 =>
                 Inserted(HashPair(current, ZeroHash[k]), [fresh EXCEPT ![k] = current],
                          filled, M, n, k + 1)
           /\ Above(n, k) % 2 # 0 =>
                 Inserted(HashPair(fresh[k], current), fresh, filled, M, n, k + 1)
<1> DEFINE a == Above(n, k)
           b == Above(n, k + 1)
<1>1. /\ k \in 0..MERKLE_TREE_DEPTH /\ k + 1 \in 1..MERKLE_TREE_DEPTH /\ (k + 1) - 1 = k
      /\ k + 1 \in 0..MERKLE_TREE_DEPTH
    BY DepthAssumption
<1>2. a \in Nat /\ b \in Nat /\ b = a \div 2
  <2>1. b = Above(n, (k + 1) - 1) \div 2
      BY <1>1, AboveSteps
  <2> QED BY <1>1, <2>1, AboveSteps
<1>3. a % 2 = 0 => a = 2 * b
    BY <1>2
<1>4. a % 2 # 0 => a = 2 * b + 1 /\ a % 2 = 1 /\ a - 1 = 2 * b /\ a - 1 \in Nat
    BY <1>2
<1>5. Node(M, k + 1, b) = HashPair(Node(M, k, 2 * b), Node(M, k, 2 * b + 1))
    BY <1>2, InnerNode
<1>6. ASSUME NEW i \in Nat, Above(i, k) = a + 1 PROVE NodeAt(M, i, ZERO) = ZERO
  <2>1. ~(i <= n)
      BY <1>1, <1>2, <1>6, AboveOrder
  <2> QED BY <2>1 DEF OneMore
<1>7. Node(M, k, a + 1) = ZeroHash[k]
  <2>1. a + 1 \in Nat
      BY <1>2
  <2> QED BY <1>1, <1>6, <2>1, NodeEmpty
<1>8. ASSUME a % 2 # 0 PROVE filled[k] = Node(M, k, a - 1)
  <2>1. ASSUME NEW i \in Nat, Above(i, k) = a - 1
        PROVE  NodeAt(L, i, ZERO) = NodeAt(M, i, ZERO)
    <3>1. ~(n <= i)
        BY <1>1, <1>2, <2>1, AboveOrder
    <3> QED BY <3>1 DEF OneMore
  <2>2. Node(L, k, a - 1) = Node(M, k, a - 1)
      BY <1>1, <1>4, <1>8, <2>1, NodeLocal
  <2>3. filled[k] = Node(L, k, a - 1)
      BY <1>4, <1>8 DEF FilledFor
  <2> QED BY <2>2, <2>3
<1>9. /\ current = Node(M, k, a)
      /\ DOMAIN fresh = 0..(MERKLE_TREE_DEPTH - 1)
      /\ \A j \in 0..(MERKLE_TREE_DEPTH - 1) :
            fresh[j] = IF j < k /\ Above(n, j) % 2 = 0 THEN Node(M, j, Above(n, j)) ELSE filled[j]
    BY DEF Inserted
<1>10. fresh[k] = filled[k]
    BY <1>9
<1>11. CASE a % 2 = 0
  <2>1. HashPair(current, ZeroHash[k]) = Node(M, k + 1, b)
      BY <1>3, <1>5, <1>7, <1>9, <1>11
  <2> DEFINE new == [fresh EXCEPT ![k] = current]
  <2>2. DOMAIN new = 0..(MERKLE_TREE_DEPTH - 1)
      BY <1>9
  <2>3. ASSUME NEW j \in 0..(MERKLE_TREE_DEPTH - 1)
        PROVE  new[j] = IF j < k + 1 /\ Above(n, j) % 2 = 0 THEN Node(M, j, Above(n, j)) ELSE filled[j]
    <3>1. new[j] = IF j = k THEN current ELSE fresh[j]
        BY <1>9
    <3> HIDE DEF new
    <3>2. CASE j = k
        BY <1>9, <1>11, <3>1, <3>2
    <3>3. CASE j # k
      <4>1. j < k + 1 <=> j < k
          BY <3>3
      <4> QED BY <1>9, <3>1, <3>3, <4>1
    <3> QED BY <3>2, <3>3
  <2> HIDE DEF new
  <2>4. Inserted(HashPair(current, ZeroHash[k]), new, filled, M, n, k + 1)
      BY <2>1, <2>2, <2>3 DEF Inserted
  <2> QED BY <1>11, <2>4 DEF new
<1>12. CASE a % 2 # 0
  <2>1. HashPair(fresh[k], current) = Node(M, k + 1, b)
      BY <1>4, <1>5, <1>8, <1>9, <1>10, <1>12
  <2>2. ASSUME NEW j \in 0..(MERKLE_TREE_DEPTH - 1)
        PROVE  fresh[j] = IF j < k + 1 /\ Above(n, j) % 2 = 0 THEN Node(M, j, Above(n, j)) ELSE filled[j]
    <3>1. CASE j = k
        BY <1>10, <1>12, <3>1
    <3>2. CASE j # k
      <4>1. j < k + 1 <=> j < k
          BY <3>2
      <4> QED BY <1>9, <4>1
    <3> QED BY <3>1, <3>2
  <2>3. Inserted(HashPair(fresh[k], current), fresh, filled, M, n, k + 1)
      BY <1>9, <2>1, <2>2 DEF Inserted
  <2> QED BY <1>12, <2>3
<1> QED BY <1>11, <1>12

LEMMA InsertedAll ==
    ASSUME NEW L, NEW M, NEW n \in Nat, n < Capacity, OneMore(L, M, n),
           NEW filled, FilledFor(filled, L, n), NEW current, NEW fresh,
           Inserted(current, fresh, filled, M, n, MERKLE_TREE_DEPTH)
    PROVE  current = TreeRoot(M) /\ FilledFor(fresh, M, n + 1)
<1>1. current = TreeRoot(M)
  <2>1. Above(n, MERKLE_TREE_DEPTH) = 0
      BY AboveSteps
  <2> QED BY <2>1, NodeSteps DEF Inserted
<1>2. ASSUME NEW k \in 0..(MERKLE_TREE_DEPTH - 1), Above(n + 1, k) % 2 = 1
      PROVE  fresh[k] = Node(M, k, Above(n + 1, k) - 1)
  <2> DEFINE a == Above(n, k)
             b == Above(n + 1, k)
  <2>1. k \in 0..MERKLE_TREE_DEPTH /\ k < MERKLE_TREE_DEPTH
      BY DepthAssumption
  <2>2. a \in Nat /\ b \in Nat /\ b \in {a, a + 1} /\ b % 2 = 1
      BY <1>2, <2>1, AboveSteps, AboveOrder
  <2>3. fresh[k] = IF a % 2 = 0 THEN Node(M, k, a) ELSE filled[k]
      BY <2>1 DEF Inserted
  <2>4. CASE b = a
    <3>1. filled[k] = Node(L, k, a - 1) /\ a - 1 \in Nat
        BY <2>2, <2>4 DEF FilledFor
    <3>2. ASSUME NEW i \in Nat, Above(i, k) = a - 1
          PROVE  NodeAt(L, i, ZERO) = NodeAt(M, i, ZERO)
      <4>1. ~(n <= i)
          BY <2>1, <2>2, <3>2, AboveOrder
      <4> QED BY <4>1 DEF OneMore
    <3>3. Node(L, k, a - 1) = Node(M, k, a - 1)
        BY <2>1, <3>1, <3>2, NodeLocal
    <3> QED BY <2>2, <2>3, <2>4, <3>1, <3>3
  <2>5. CASE b = a + 1
    <3>1. a % 2 = 0 /\ b - 1 = a
        BY <2>2, <2>5
    <3> QED BY <2>3, <3>1
  <2> QED BY <2>2, <2>4, <2>5
<1>3. DOMAIN fresh = 0..(MERKLE_TREE_DEPTH - 1)
    BY DEF Inserted
<1> QED BY <1>1, <1>2, <1>3 DEF FilledFor

LEMMA LevelsSteps ==
    /\ DOMAIN Levels = 1..MERKLE_TREE_DEPTH
    /\ \A k \in 1..MERKLE_TREE_DEPTH : Levels[k] = k - 1
BY DEF Levels

(* The pool's insertion computes the root of the tree with the new leaf    *)
(* and the filled subtrees for the next one.                               *)
LEMMA PoolInserts ==
    ASSUME NEW L, NEW M, NEW n \in Nat, n < Capacity, OneMore(L, M, n),
           NEW filled, FilledFor(filled, L, n), NEW leaf, leaf = NodeAt(M, n, ZERO)
    PROVE  /\ InsertMerkleLeaf(leaf, n, filled).current = TreeRoot(M)
           /\ FilledFor(InsertMerkleLeaf(leaf, n, filled).filled, M, n + 1)
<1> DEFINE v == [current |-> leaf, index |-> n, filled |-> filled]
<1>1. MERKLE_TREE_DEPTH \in Nat /\ DOMAIN Levels = 1..MERKLE_TREE_DEPTH
    BY DepthAssumption, LevelsSteps
<1> HIDE DEF v
<1>2. PICK st : /\ PoolFold!Passes(st, 0, v, Levels, MERKLE_TREE_DEPTH)
                /\ PoolFold!Folded(0, v, Levels) = st[MERKLE_TREE_DEPTH]
    BY <1>1, PoolFold!FoldPasses, FoldsInduct
<1>3. InsertMerkleLeaf(leaf, n, filled) = PoolFold!Folded(0, v, Levels)
    BY DEF InsertMerkleLeaf, FoldLeft, MapThenFoldSet, PoolFold!Folded, PoolFold!Unfolds, Max, PoolFold!Largest, PoolLevel, v
<1>4. InsertMerkleLeaf(leaf, n, filled) = st[MERKLE_TREE_DEPTH]
    BY <1>2, <1>3
<1>5. /\ st[0] = v
      /\ \A k \in 1..MERKLE_TREE_DEPTH : st[k] = InsertMerkleLevel(st[k - 1], k - 1)
    BY <1>2, LevelsSteps DEF PoolFold!Passes, PoolLevel
<1> DEFINE Good(k) == /\ st[k].index = Above(n, k)
                      /\ Inserted(st[k].current, st[k].filled, filled, M, n, k)
           Bad == {k \in 0..MERKLE_TREE_DEPTH : ~Good(k)}
<1>6. 0 \notin Bad
  <2>1. Node(M, 0, n) = leaf /\ Above(n, 0) = n
      BY LeafNode, AboveSteps
  <2>2. \A j \in 0..(MERKLE_TREE_DEPTH - 1) : ~(j < 0)
      BY DepthAssumption
  <2>3. Inserted(leaf, filled, filled, M, n, 0)
      BY <2>1, <2>2 DEF Inserted, FilledFor
  <2>4. st[0].current = leaf /\ st[0].index = n /\ st[0].filled = filled
      BY <1>5 DEF v
  <2> QED BY <2>1, <2>3, <2>4
<1>7. ASSUME NEW k \in 0..(MERKLE_TREE_DEPTH - 1), k \notin Bad PROVE k + 1 \notin Bad
  <2>1. k \in 0..MERKLE_TREE_DEPTH /\ k + 1 \in 1..MERKLE_TREE_DEPTH /\ (k + 1) - 1 = k
      BY DepthAssumption
  <2>2. /\ st[k].index = Above(n, k) /\ Inserted(st[k].current, st[k].filled, filled, M, n, k)
        /\ st[k + 1] = InsertMerkleLevel(st[k], k)
      BY <1>5, <1>7, <2>1
  <2>3. Above(n, k + 1) = Above(n, k) \div 2
      BY <2>1, AboveSteps
  <2>4. CASE Above(n, k) % 2 = 0
    <3>1. Inserted(HashPair(st[k].current, ZeroHash[k]), [st[k].filled EXCEPT ![k] = st[k].current],
                   filled, M, n, k + 1)
        BY <2>2, <2>4, InsertedLevel
    <3>2. /\ st[k + 1].current = HashPair(st[k].current, ZeroHash[k])
          /\ st[k + 1].index = st[k].index \div 2
          /\ st[k + 1].filled = [st[k].filled EXCEPT ![k] = st[k].current]
        BY <2>2, <2>4 DEF InsertMerkleLevel
    <3> QED BY <2>2, <2>3, <3>1, <3>2
  <2>5. CASE Above(n, k) % 2 # 0
    <3>1. Inserted(HashPair(st[k].filled[k], st[k].current), st[k].filled, filled, M, n, k + 1)
        BY <2>2, <2>5, InsertedLevel
    <3>2. /\ st[k + 1].current = HashPair(st[k].filled[k], st[k].current)
          /\ st[k + 1].index = st[k].index \div 2
          /\ st[k + 1].filled = st[k].filled
        BY <2>2, <2>5 DEF InsertMerkleLevel
    <3> QED BY <2>2, <2>3, <3>1, <3>2
  <2> QED BY <2>4, <2>5
<1>8. Bad \in SUBSET (0..MERKLE_TREE_DEPTH) /\ MERKLE_TREE_DEPTH \in 0..MERKLE_TREE_DEPTH
    BY DepthAssumption
<1> HIDE DEF Bad
<1>9. Bad = {}
    BY <1>6, <1>7, <1>8, DepthAssumption, NoBadNumber
<1>10. Good(MERKLE_TREE_DEPTH)
    BY <1>8, <1>9 DEF Bad
<1> QED BY <1>4, <1>10, InsertedAll

(* So does the SDK's.                                                      *)
LEMMA SdkInserts ==
    ASSUME NEW L, NEW M, NEW n \in Nat, n < Capacity, OneMore(L, M, n),
           NEW filled, FilledFor(filled, L, n), NEW leaf, leaf = NodeAt(M, n, ZERO)
    PROVE  /\ InsertLeafAndComputeRoot(leaf, n, filled).current = TreeRoot(M)
           /\ FilledFor(InsertLeafAndComputeRoot(leaf, n, filled).filled, M, n + 1)
<1> DEFINE v == [current |-> leaf, filled |-> filled]
<1>1. MERKLE_TREE_DEPTH \in Nat /\ DOMAIN Levels = 1..MERKLE_TREE_DEPTH
    BY DepthAssumption, LevelsSteps
<1> HIDE DEF v
<1>2. PICK st : /\ SdkFold!Passes(st, n, v, Levels, MERKLE_TREE_DEPTH)
                /\ SdkFold!Folded(n, v, Levels) = st[MERKLE_TREE_DEPTH]
    BY <1>1, SdkFold!FoldPasses, FoldsInduct
<1>3. InsertLeafAndComputeRoot(leaf, n, filled) = SdkFold!Folded(n, v, Levels)
    BY DEF InsertLeafAndComputeRoot, FoldLeft, MapThenFoldSet, SdkFold!Folded, SdkFold!Unfolds, Max, SdkFold!Largest, PoolLevel, v
<1>4. InsertLeafAndComputeRoot(leaf, n, filled) = st[MERKLE_TREE_DEPTH]
    BY <1>2, <1>3
<1>5. /\ st[0] = v
      /\ \A k \in 1..MERKLE_TREE_DEPTH : st[k] = InsertLevelByBit(n, st[k - 1], k - 1)
    BY <1>2, LevelsSteps DEF SdkFold!Passes
<1> DEFINE Good(k) == /\ st[k] = [current |-> st[k].current, filled |-> st[k].filled]
                      /\ Inserted(st[k].current, st[k].filled, filled, M, n, k)
           Bad == {k \in 0..MERKLE_TREE_DEPTH : ~Good(k)}
<1>6. 0 \notin Bad
  <2>1. Node(M, 0, n) = leaf /\ Above(n, 0) = n
      BY LeafNode, AboveSteps
  <2>2. \A j \in 0..(MERKLE_TREE_DEPTH - 1) : ~(j < 0)
      BY DepthAssumption
  <2>3. Inserted(leaf, filled, filled, M, n, 0)
      BY <2>1, <2>2 DEF Inserted, FilledFor
  <2>4. st[0] = [current |-> leaf, filled |-> filled]
      BY <1>5 DEF v
  <2> QED BY <2>1, <2>3, <2>4
<1>7. ASSUME NEW k \in 0..(MERKLE_TREE_DEPTH - 1), k \notin Bad PROVE k + 1 \notin Bad
  <2>1. k \in 0..MERKLE_TREE_DEPTH /\ k + 1 \in 1..MERKLE_TREE_DEPTH /\ (k + 1) - 1 = k
      BY DepthAssumption
  <2>2. /\ st[k] = [current |-> st[k].current, filled |-> st[k].filled]
        /\ Inserted(st[k].current, st[k].filled, filled, M, n, k)
        /\ st[k + 1] = InsertLevelByBit(n, st[k], k)
      BY <1>5, <1>7, <2>1
  <2>3. CASE Above(n, k) % 2 = 0
    <3>1. Inserted(HashPair(st[k].current, ZeroHash[k]), [st[k].filled EXCEPT ![k] = st[k].current],
                   filled, M, n, k + 1)
        BY <2>2, <2>3, InsertedLevel
    <3>2. st[k + 1] = [current |-> HashPair(st[k].current, ZeroHash[k]),
                       filled |-> [st[k].filled EXCEPT ![k] = st[k].current]]
        BY <2>2, <2>3 DEF InsertLevelByBit, Above
    <3> QED BY <3>1, <3>2
  <2>4. CASE Above(n, k) % 2 # 0
    <3>1. Inserted(HashPair(st[k].filled[k], st[k].current), st[k].filled, filled, M, n, k + 1)
        BY <2>2, <2>4, InsertedLevel
    <3>2. st[k + 1] = [current |-> HashPair(st[k].filled[k], st[k].current), filled |-> st[k].filled]
        BY <2>2, <2>4 DEF InsertLevelByBit, Above
    <3> QED BY <3>1, <3>2
  <2> QED BY <2>3, <2>4
<1>8. Bad \in SUBSET (0..MERKLE_TREE_DEPTH) /\ MERKLE_TREE_DEPTH \in 0..MERKLE_TREE_DEPTH
    BY DepthAssumption
<1> HIDE DEF Bad
<1>9. Bad = {}
    BY <1>6, <1>7, <1>8, DepthAssumption, NoBadNumber
<1>10. Good(MERKLE_TREE_DEPTH)
    BY <1>8, <1>9 DEF Bad
<1> QED BY <1>4, <1>10, InsertedAll
-----------------------------------------------------------------------------
(* The path of the leaf at position n of the complete tree.                *)
PathOf(L, n) ==
    [commitment |-> NodeAt(L, n, ZERO),
     leafIndex |-> n,
     root |-> TreeRoot(L),
     pathElements |-> [k \in 1..MERKLE_TREE_DEPTH |-> Node(L, k - 1, Sibling(Above(n, k - 1)))],
     pathIndices |-> [k \in 1..MERKLE_TREE_DEPTH |-> Above(n, k - 1) % 2]]

LEMMA SiblingSteps ==
    ASSUME NEW n \in Nat
    PROVE  /\ Sibling(n) \in Nat
           /\ n % 2 = 0 => n = 2 * (n \div 2) /\ Sibling(n) = 2 * (n \div 2) + 1
           /\ n % 2 # 0 => n = 2 * (n \div 2) + 1 /\ Sibling(n) = 2 * (n \div 2)
BY DEF Sibling

(* It verifies.                                                            *)
LEMMA TreePathVerifies ==
    ASSUME NEW L, NEW n \in Nat, n < Capacity
    PROVE  VerifyMerklePath(PathOf(L, n))
<1> DEFINE made == PathOf(L, n)
<1>1. MERKLE_TREE_DEPTH \in Nat /\ DOMAIN Levels = 1..MERKLE_TREE_DEPTH
    BY DepthAssumption, LevelsSteps
<1>2. /\ made.commitment = NodeAt(L, n, ZERO) /\ made.root = TreeRoot(L)
      /\ \A k \in 1..MERKLE_TREE_DEPTH :
            /\ made.pathElements[k] = Node(L, k - 1, Sibling(Above(n, k - 1)))
            /\ made.pathIndices[k] = Above(n, k - 1) % 2
    BY DEF PathOf
<1> HIDE DEF made
<1>3. PICK st : /\ UpFold!Passes(st, made, made.commitment, Levels, MERKLE_TREE_DEPTH)
                /\ UpFold!Folded(made, made.commitment, Levels) = st[MERKLE_TREE_DEPTH]
    BY <1>1, UpFold!FoldPasses, FoldsInduct
<1>4. VerifyMerklePath(made) <=> UpFold!Folded(made, made.commitment, Levels) = made.root
    BY DEF VerifyMerklePath, FoldLeft, MapThenFoldSet, UpFold!Folded, UpFold!Unfolds, Max, UpFold!Largest
<1>5. /\ st[0] = made.commitment
      /\ \A k \in 1..MERKLE_TREE_DEPTH : st[k] = HashUp(made, st[k - 1], k - 1)
    BY <1>3, LevelsSteps DEF UpFold!Passes
<1> DEFINE Bad == {k \in 0..MERKLE_TREE_DEPTH : st[k] # Node(L, k, Above(n, k))}
<1>6. 0 \notin Bad
  <2>1. Above(n, 0) = n /\ Node(L, 0, n) = NodeAt(L, n, ZERO)
      BY AboveSteps, LeafNode
  <2> QED BY <1>2, <1>5, <2>1
<1>7. ASSUME NEW k \in 0..(MERKLE_TREE_DEPTH - 1), k \notin Bad PROVE k + 1 \notin Bad
  <2> DEFINE a == Above(n, k)
             b == Above(n, k + 1)
  <2>1. k \in 0..MERKLE_TREE_DEPTH /\ k + 1 \in 1..MERKLE_TREE_DEPTH /\ (k + 1) - 1 = k
        /\ k + 1 \in 0..MERKLE_TREE_DEPTH
      BY DepthAssumption
  <2>2. a \in Nat /\ b \in Nat /\ b = a \div 2
    <3>1. b = Above(n, (k + 1) - 1) \div 2
        BY <2>1, AboveSteps
    <3> QED BY <2>1, <3>1, AboveSteps
  <2>3. st[k] = Node(L, k, a) /\ st[k + 1] = HashUp(made, st[k], k)
      BY <1>5, <1>7, <2>1
  <2>4. made.pathElements[k + 1] = Node(L, k, Sibling(a)) /\ made.pathIndices[k + 1] = a % 2
      BY <1>2, <2>1
  <2>5. Node(L, k + 1, b) = HashPair(Node(L, k, 2 * b), Node(L, k, 2 * b + 1))
      BY <2>2, InnerNode
  <2>6. CASE a % 2 = 0
    <3>1. a = 2 * b /\ Sibling(a) = 2 * b + 1
        BY <2>2, <2>6, SiblingSteps
    <3> QED BY <2>3, <2>4, <2>5, <2>6, <3>1 DEF HashUp
  <2>7. CASE a % 2 # 0
    <3>1. a = 2 * b + 1 /\ Sibling(a) = 2 * b
        BY <2>2, <2>7, SiblingSteps
    <3> QED BY <2>3, <2>4, <2>5, <2>7, <3>1 DEF HashUp
  <2> QED BY <2>6, <2>7
<1>8. Bad \in SUBSET (0..MERKLE_TREE_DEPTH) /\ MERKLE_TREE_DEPTH \in 0..MERKLE_TREE_DEPTH
    BY DepthAssumption
<1> HIDE DEF Bad
<1>9. Bad = {}
    BY <1>6, <1>7, <1>8, DepthAssumption, NoBadNumber
<1>10. st[MERKLE_TREE_DEPTH] = Node(L, MERKLE_TREE_DEPTH, Above(n, MERKLE_TREE_DEPTH))
    BY <1>8, <1>9 DEF Bad
<1>11. Above(n, MERKLE_TREE_DEPTH) = 0 /\ TreeRoot(L) = Node(L, MERKLE_TREE_DEPTH, 0)
    BY AboveSteps, NodeSteps
<1>12. VerifyMerklePath(made)
    BY <1>2, <1>3, <1>4, <1>10, <1>11
<1> QED BY <1>12 DEF made

(* The indexer's path, over any partial map from positions to leaves.      *)
LEMMA IndexedPathIs ==
    ASSUME NEW L, DOMAIN L \subseteq Nat, NEW n \in DOMAIN L
    PROVE  IndexedPath(L, n) = PathOf(L, n)
<1> DEFINE N == CHOOSE g : RangeFold!Recurs(g, L, Bottom(L), MERKLE_TREE_DEPTH)
<1>1. RangeFold!Recurs(N, L, Bottom(L), MERKLE_TREE_DEPTH)
    BY DepthAssumption, RangeFold!RecursionExists, FoldsInduct
<1>2. IndexedPath(L, n) =
        [commitment |-> L[n], leafIndex |-> n, root |-> N[MERKLE_TREE_DEPTH][0],
         pathElements |-> [k \in 1..MERKLE_TREE_DEPTH |-> N[k - 1][Sibling(n \div PowerOf2[k - 1])]],
         pathIndices |-> [k \in 1..MERKLE_TREE_DEPTH |-> (n \div PowerOf2[k - 1]) % 2]]
    BY DEF IndexedPath, RangeFold!Recurs, Bottom
<1> HIDE DEF N
<1>3. N[0] = Bottom(L) /\ \A k \in 1..MERKLE_TREE_DEPTH : N[k] = NodesAbove(L, N[k - 1], k)
    BY <1>1, DepthAssumption DEF RangeFold!Recurs
<1> DEFINE Bad == {k \in 0..MERKLE_TREE_DEPTH : ~\A p \in Nat : N[k][p] = Node(L, k, p)}
<1>4. 0 \notin Bad
    BY <1>3, LeafNode DEF Bottom
<1>5. ASSUME NEW k \in 0..(MERKLE_TREE_DEPTH - 1), k \notin Bad PROVE k + 1 \notin Bad
  <2>1. k \in 0..MERKLE_TREE_DEPTH /\ k + 1 \in 1..MERKLE_TREE_DEPTH /\ (k + 1) - 1 = k
        /\ k + 1 \in 0..MERKLE_TREE_DEPTH
      BY DepthAssumption
  <2> SUFFICES ASSUME NEW p \in Nat PROVE N[k + 1][p] = Node(L, k + 1, p)
      OBVIOUS
  <2>2. N[k + 1] = NodesAbove(L, N[k], k + 1)
      BY <1>3, <2>1
  <2> DEFINE Inside == HasLeafInRange(DOMAIN L, p * PowerOf2[k + 1], (p + 1) * PowerOf2[k + 1])
  <2>3. N[k + 1][p] = IF ~Inside THEN ZeroHash[k + 1] ELSE HashPair(N[k][2 * p], N[k][2 * p + 1])
      BY <2>2 DEF NodesAbove
  <2>4. CASE Inside
    <3>1. 2 * p \in Nat /\ 2 * p + 1 \in Nat
        OBVIOUS
    <3>2. N[k][2 * p] = Node(L, k, 2 * p) /\ N[k][2 * p + 1] = Node(L, k, 2 * p + 1)
        BY <1>5, <2>1, <3>1
    <3> HIDE DEF Inside
    <3> QED BY <2>3, <2>4, <3>2, InnerNode
  <2>5. CASE ~Inside
    <3>1. ASSUME NEW i \in Nat, Above(i, k + 1) = p PROVE NodeAt(L, i, ZERO) = ZERO
      <4>1. p * PowerOf2[k + 1] <= i /\ i < (p + 1) * PowerOf2[k + 1]
          BY <2>1, <3>1, AboveSteps
      <4>2. PowerOf2[k + 1] \in Nat
          BY <2>1, PowerPositive
      <4>3. i \notin DOMAIN L
          BY <2>5, <4>1, <4>2 DEF HasLeafInRange
      <4> QED BY <4>3 DEF NodeAt
    <3>2. Node(L, k + 1, p) = ZeroHash[k + 1]
        BY <2>1, <3>1, NodeEmpty
    <3> HIDE DEF Inside
    <3> QED BY <2>3, <2>5, <3>2
  <2> QED BY <2>4, <2>5
<1>6. Bad \in SUBSET (0..MERKLE_TREE_DEPTH) /\ MERKLE_TREE_DEPTH \in 0..MERKLE_TREE_DEPTH
    BY DepthAssumption
<1> HIDE DEF Bad
<1>7. Bad = {}
    BY <1>4, <1>5, <1>6, DepthAssumption, NoBadNumber
<1>8. \A k \in 0..MERKLE_TREE_DEPTH, p \in Nat : N[k][p] = Node(L, k, p)
    BY <1>7 DEF Bad
<1>9. N[MERKLE_TREE_DEPTH][0] = TreeRoot(L)
    BY <1>6, <1>8, NodeSteps
<1>10. ASSUME NEW k \in 1..MERKLE_TREE_DEPTH
       PROVE  /\ N[k - 1][Sibling(n \div PowerOf2[k - 1])] = Node(L, k - 1, Sibling(Above(n, k - 1)))
              /\ (n \div PowerOf2[k - 1]) % 2 = Above(n, k - 1) % 2
  <2>1. k - 1 \in 0..MERKLE_TREE_DEPTH /\ n \in Nat
      BY DepthAssumption
  <2>2. Sibling(Above(n, k - 1)) \in Nat
      BY <2>1, AboveSteps, SiblingSteps
  <2> QED BY <1>8, <2>1, <2>2 DEF Above
<1>11. L[n] = NodeAt(L, n, ZERO)
    BY DEF NodeAt
<1> QED BY <1>2, <1>9, <1>10, <1>11 DEF PathOf

LEMMA AppendSteps ==
    ASSUME NEW k \in Nat, NEW F(_)
    PROVE  Append([j \in 1..k |-> F(j)], F(k + 1)) = [j \in 1..(k + 1) |-> F(j)]
<1> DEFINE s == [j \in 1..k |-> F(j)]
           S == {F(j) : j \in 1..(k + 1)}
<1>1. s \in Seq(S) /\ Len(s) = k /\ F(k + 1) \in S
    OBVIOUS
<1>2. \A j \in 1..k : s[j] = F(j)
    OBVIOUS
<1> HIDE DEF s, S
<1>3. Append(s, F(k + 1)) = [j \in 1..(k + 1) |-> IF j = k + 1 THEN F(k + 1) ELSE s[j]]
    BY <1>1
<1>4. \A j \in 1..(k + 1) : (IF j = k + 1 THEN F(k + 1) ELSE s[j]) = F(j)
    BY <1>2
<1> QED BY <1>3, <1>4 DEF s

(* The leaves of a sequence at their positions from 0.                     *)
Shifted(seq) == [i \in 0..(Len(seq) - 1) |-> seq[i + 1]]

(* The layers that the SDK and the browser build hold the nodes above some *)
(* leaf; an absent position is an empty subtree.                           *)
LayerOf(layer, L, k) ==
    /\ DOMAIN layer = {Above(i, k) : i \in DOMAIN L}
    /\ \A p \in Nat : NodeAt(layer, p, ZeroHash[k]) = Node(L, k, p)

LEMMA LayerSteps ==
    ASSUME NEW L, DOMAIN L \subseteq Nat, NEW k \in 0..(MERKLE_TREE_DEPTH - 1), NEW layer,
           LayerOf(layer, L, k)
    PROVE  LayerOf(BuildNextSparseMerkleLayer(layer, ZeroHash[k]), L, k + 1)
<1> DEFINE next == BuildNextSparseMerkleLayer(layer, ZeroHash[k])
<1>1. k \in 0..MERKLE_TREE_DEPTH /\ k + 1 \in 1..MERKLE_TREE_DEPTH /\ (k + 1) - 1 = k
      /\ k + 1 \in 0..MERKLE_TREE_DEPTH
    BY DepthAssumption
<1>2. \A i \in DOMAIN L : Above(i, k + 1) = Above(i, k) \div 2
  <2>1. \A i \in DOMAIN L : Above(i, k + 1) = Above(i, (k + 1) - 1) \div 2
      BY <1>1, AboveSteps
  <2> QED BY <1>1, <2>1
<1>3. DOMAIN layer = {Above(i, k) : i \in DOMAIN L}
      /\ \A p \in Nat : NodeAt(layer, p, ZeroHash[k]) = Node(L, k, p)
    BY DEF LayerOf
<1>4. {i \div 2 : i \in DOMAIN layer} = {Above(i, k + 1) : i \in DOMAIN L}
    BY <1>2, <1>3
<1>5. DOMAIN next = {Above(i, k + 1) : i \in DOMAIN L}
    BY <1>4 DEF BuildNextSparseMerkleLayer
<1>6. \A p \in DOMAIN next :
         next[p] = HashPair(NodeAt(layer, 2 * p, ZeroHash[k]), NodeAt(layer, 2 * p + 1, ZeroHash[k]))
    BY DEF BuildNextSparseMerkleLayer
<1> HIDE DEF next
<1>7. ASSUME NEW p \in Nat PROVE NodeAt(next, p, ZeroHash[k + 1]) = Node(L, k + 1, p)
  <2>1. CASE p \in DOMAIN next
    <3>1. 2 * p \in Nat /\ 2 * p + 1 \in Nat
        OBVIOUS
    <3>2. next[p] = HashPair(Node(L, k, 2 * p), Node(L, k, 2 * p + 1))
        BY <1>3, <1>6, <2>1, <3>1
    <3> QED BY <2>1, <3>2, InnerNode DEF NodeAt
  <2>2. CASE p \notin DOMAIN next
    <3>1. ASSUME NEW i \in Nat, Above(i, k + 1) = p PROVE NodeAt(L, i, ZERO) = ZERO
        BY <1>5, <2>2, <3>1 DEF NodeAt
    <3>2. Node(L, k + 1, p) = ZeroHash[k + 1]
        BY <1>1, <3>1, NodeEmpty
    <3> QED BY <2>2, <3>2 DEF NodeAt
  <2> QED BY <2>1, <2>2
<1>8. LayerOf(next, L, k + 1)
    BY <1>5, <1>7 DEF LayerOf
<1> QED BY <1>8 DEF next

LEMMA SparsePathIs ==
    ASSUME NEW seq, Len(seq) \in Nat, NEW n \in 0..(Len(seq) - 1)
    PROVE  SparsePath(seq, n) = PathOf(Shifted(seq), n)
<1> DEFINE L == Shifted(seq)
           Element(j) == Node(L, j - 1, Sibling(Above(n, j - 1)))
           Index(j) == Above(n, j - 1) % 2
           v == [layer |-> L, cursor |-> n, pathElements |-> << >>, pathIndices |-> << >>]
<1>1. MERKLE_TREE_DEPTH \in Nat /\ DOMAIN Levels = 1..MERKLE_TREE_DEPTH
    BY DepthAssumption, LevelsSteps
<1>2. n \in Nat /\ DOMAIN L \subseteq Nat /\ n \in DOMAIN L /\ L[n] = seq[n + 1]
    BY DEF Shifted
<1>3. SparsePath(seq, n) =
        [commitment |-> seq[n + 1], leafIndex |-> n,
         root |-> NodeAt(ClimbFold!Folded(0, v, Levels).layer, 0, InitialRoot),
         pathElements |-> ClimbFold!Folded(0, v, Levels).pathElements,
         pathIndices |-> ClimbFold!Folded(0, v, Levels).pathIndices]
    BY DEF SparsePath, Shifted, FoldLeft, MapThenFoldSet, ClimbFold!Folded, ClimbFold!Unfolds,
           Max, ClimbFold!Largest, ClimbOn
<1>4. v.layer = L /\ v.cursor = n /\ v.pathElements = << >> /\ v.pathIndices = << >>
    OBVIOUS
<1> HIDE DEF v, L
<1>5. PICK st : /\ ClimbFold!Passes(st, 0, v, Levels, MERKLE_TREE_DEPTH)
                /\ ClimbFold!Folded(0, v, Levels) = st[MERKLE_TREE_DEPTH]
    BY <1>1, ClimbFold!FoldPasses, FoldsInduct
<1>6. /\ st[0] = v
      /\ \A k \in 1..MERKLE_TREE_DEPTH : st[k] = Climb(st[k - 1], k - 1)
    BY <1>5, LevelsSteps DEF ClimbFold!Passes, ClimbOn
<1> DEFINE Good(k) == /\ LayerOf(st[k].layer, L, k)
                      /\ st[k].cursor = Above(n, k)
                      /\ st[k].pathElements = [j \in 1..k |-> Element(j)]
                      /\ st[k].pathIndices = [j \in 1..k |-> Index(j)]
           Bad == {k \in 0..MERKLE_TREE_DEPTH : ~Good(k)}
<1>7. 0 \notin Bad
  <2>1. \A i \in Nat : Above(i, 0) = i
      BY AboveSteps
  <2>2. LayerOf(L, L, 0)
    <3>1. \A p \in Nat : NodeAt(L, p, ZeroHash[0]) = Node(L, 0, p)
        BY LeafNode, ZeroSteps
    <3>2. DOMAIN L = {Above(i, 0) : i \in DOMAIN L}
        BY <1>2, <2>1
    <3> QED BY <3>1, <3>2 DEF LayerOf
  <2>3. << >> = [j \in 1..0 |-> Element(j)] /\ << >> = [j \in 1..0 |-> Index(j)]
      OBVIOUS
  <2> HIDE DEF Element, Index
  <2> QED BY <1>2, <1>4, <1>6, <2>1, <2>2, <2>3
<1>8. ASSUME NEW k \in 0..(MERKLE_TREE_DEPTH - 1), k \notin Bad PROVE k + 1 \notin Bad
  <2>1. k \in 0..MERKLE_TREE_DEPTH /\ k + 1 \in 1..MERKLE_TREE_DEPTH /\ (k + 1) - 1 = k /\ k \in Nat
      BY DepthAssumption
  <2>2. Good(k)
      BY <1>8, <2>1
  <2>3. /\ st[k + 1].layer = BuildNextSparseMerkleLayer(st[k].layer, ZeroHash[k])
        /\ st[k + 1].cursor = st[k].cursor \div 2
        /\ st[k + 1].pathElements =
              Append(st[k].pathElements, NodeAt(st[k].layer, Sibling(st[k].cursor), ZeroHash[k]))
        /\ st[k + 1].pathIndices = Append(st[k].pathIndices, st[k].cursor % 2)
    <3>1. st[k + 1] = Climb(st[k], k)
        BY <1>6, <2>1
    <3>2. /\ Climb(st[k], k).layer = BuildNextSparseMerkleLayer(st[k].layer, ZeroHash[k])
          /\ Climb(st[k], k).cursor = st[k].cursor \div 2
          /\ Climb(st[k], k).pathElements =
                Append(st[k].pathElements, NodeAt(st[k].layer, Sibling(st[k].cursor), ZeroHash[k]))
          /\ Climb(st[k], k).pathIndices = Append(st[k].pathIndices, st[k].cursor % 2)
        BY DEF Climb
    <3> QED BY <3>1, <3>2
  <2>4. LayerOf(st[k + 1].layer, L, k + 1)
      BY <1>2, <2>2, <2>3, LayerSteps
  <2>5. Above(n, k + 1) = Above(n, k) \div 2 /\ Above(n, k) \in Nat
    <3>1. Above(n, k + 1) = Above(n, (k + 1) - 1) \div 2
        BY <1>2, <2>1, AboveSteps
    <3> QED BY <1>2, <2>1, <3>1, AboveSteps
  <2>6. NodeAt(st[k].layer, Sibling(st[k].cursor), ZeroHash[k]) = Element(k + 1)
    <3>1. Sibling(Above(n, k)) \in Nat
        BY <2>5, SiblingSteps
    <3> QED BY <2>1, <2>2, <3>1 DEF LayerOf
  <2>7. st[k].cursor % 2 = Index(k + 1)
      BY <2>1, <2>2
  <2> HIDE DEF Element, Index
  <2>8. Append([j \in 1..k |-> Element(j)], Element(k + 1)) = [j \in 1..(k + 1) |-> Element(j)]
      BY <2>1, AppendSteps
  <2>9. Append([j \in 1..k |-> Index(j)], Index(k + 1)) = [j \in 1..(k + 1) |-> Index(j)]
      BY <2>1, AppendSteps
  <2> QED BY <2>2, <2>3, <2>4, <2>5, <2>6, <2>7, <2>8, <2>9
<1>9. Bad \in SUBSET (0..MERKLE_TREE_DEPTH) /\ MERKLE_TREE_DEPTH \in 0..MERKLE_TREE_DEPTH
    BY DepthAssumption
<1> HIDE DEF Bad
<1>10. Bad = {}
    BY <1>7, <1>8, <1>9, DepthAssumption, NoBadNumber
<1>11. Good(MERKLE_TREE_DEPTH)
    BY <1>9, <1>10 DEF Bad
<1>12. NodeAt(st[MERKLE_TREE_DEPTH].layer, 0, InitialRoot) = TreeRoot(L)
    BY <1>11, NodeSteps DEF LayerOf, InitialRoot
<1>13. seq[n + 1] = NodeAt(L, n, ZERO)
    BY <1>2 DEF NodeAt
<1>14. SparsePath(seq, n) = PathOf(L, n)
    BY <1>3, <1>5, <1>11, <1>12, <1>13 DEF PathOf
<1> QED BY <1>14 DEF L

LEMMA RootInjective ==
    ASSUME NEW L, NEW M, TreeRoot(L) = TreeRoot(M), NEW i \in Nat, i < Capacity
    PROVE  NodeAt(L, i, ZERO) = NodeAt(M, i, ZERO)
<1>1. MERKLE_TREE_DEPTH \in 0..MERKLE_TREE_DEPTH
    BY DepthAssumption
<1>2. Node(L, MERKLE_TREE_DEPTH, 0) = Node(M, MERKLE_TREE_DEPTH, 0)
    BY NodeSteps
<1>3. Above(i, MERKLE_TREE_DEPTH) = 0
    BY AboveSteps
<1> QED BY <1>1, <1>2, <1>3, NodeInjective

LEMMA EmptyTree ==
    ASSUME NEW L, DOMAIN L = {}
    PROVE  TreeRoot(L) = InitialRoot /\ FilledFor(InitialSubtrees, L, 0)
<1>1. MERKLE_TREE_DEPTH \in 0..MERKLE_TREE_DEPTH
    BY DepthAssumption
<1>2. \A i \in Nat : NodeAt(L, i, ZERO) = ZERO
    BY DEF NodeAt
<1>3. TreeRoot(L) = InitialRoot
  <2>1. Node(L, MERKLE_TREE_DEPTH, 0) = ZeroHash[MERKLE_TREE_DEPTH]
      BY <1>1, <1>2, NodeEmpty
  <2> QED BY <2>1, NodeSteps DEF InitialRoot
<1>4. ASSUME NEW k \in 0..(MERKLE_TREE_DEPTH - 1) PROVE Above(0, k) % 2 = 0
  <2>1. k \in 0..MERKLE_TREE_DEPTH /\ PowerOf2[k] \in Nat
      BY DepthAssumption, PowerPositive
  <2>2. 0 * PowerOf2[k] <= 0 /\ 0 < (0 + 1) * PowerOf2[k]
      BY <2>1, PowerPositive
  <2>3. Above(0, k) = 0
      BY <2>1, <2>2, AboveSteps
  <2> QED BY <2>3
<1>5. FilledFor(InitialSubtrees, L, 0)
    BY <1>4 DEF FilledFor, InitialSubtrees
<1> QED BY <1>3, <1>5

LEMMA AppendedLeaf ==
    ASSUME NEW S, NEW seq \in Seq(S), NEW c \in S
    PROVE  /\ OneMore(Shifted(seq), Shifted(Append(seq, c)), Len(seq))
           /\ c = NodeAt(Shifted(Append(seq, c)), Len(seq), ZERO)
           /\ Len(Append(seq, c)) = Len(seq) + 1 /\ Append(seq, c) \in Seq(S)
<1> DEFINE n == Len(seq)
           M == Shifted(Append(seq, c))
           L == Shifted(seq)
<1>1. n \in Nat /\ Append(seq, c) \in Seq(S) /\ Len(Append(seq, c)) = n + 1
    OBVIOUS
<1>2. DOMAIN M = 0..n /\ DOMAIN L = 0..(n - 1)
    BY <1>1 DEF Shifted
<1>3. \A i \in 0..(n - 1) : M[i] = L[i]
  <2> TAKE i \in 0..(n - 1)
  <2>1. i + 1 \in 1..n
      BY <1>1
  <2>2. Append(seq, c)[i + 1] = seq[i + 1]
      BY <1>1, <2>1
  <2> QED BY <1>1, <2>2 DEF Shifted
<1>4. M[n] = c
    BY <1>1 DEF Shifted
<1> HIDE DEF M, L
<1>5. OneMore(L, M, n)
    BY <1>1, <1>2, <1>3 DEF OneMore, NodeAt
<1>6. c = NodeAt(M, n, ZERO)
    BY <1>1, <1>2, <1>4 DEF NodeAt
<1> QED BY <1>1, <1>5, <1>6 DEF M, L

(* The pool's and the client's state are those of the tree over the leaves. *)
TreeInv ==
    /\ leaves \in Seq(LeafValues) /\ Len(leaves) <= Capacity
    /\ currentRoot = TreeRoot(Shifted(leaves))
    /\ FilledFor(filledSubtrees, Shifted(leaves), Len(leaves))
    /\ replay.current = currentRoot
    /\ FilledFor(replay.filled, Shifted(leaves), Len(leaves))

LEMMA TreeInvHolds == TreeSpec => []TreeInv
<1>1. Capacity \in Nat
    BY DepthAssumption, PowerPositive DEF Capacity
<1>2. TreeInit => TreeInv
  <2> SUFFICES ASSUME TreeInit PROVE TreeInv
      OBVIOUS
  <2>1. leaves \in Seq(LeafValues) /\ Len(leaves) = 0 /\ DOMAIN Shifted(leaves) = {}
      BY DEF TreeInit, Shifted
  <2>2. TreeRoot(Shifted(leaves)) = InitialRoot /\ FilledFor(InitialSubtrees, Shifted(leaves), 0)
      BY <2>1, EmptyTree
  <2> QED BY <1>1, <2>1, <2>2 DEF TreeInit, TreeInv
<1>3. TreeInv /\ [TreeNext]_treeVars => TreeInv'
  <2> SUFFICES ASSUME TreeInv, [TreeNext]_treeVars PROVE TreeInv'
      OBVIOUS
  <2>1. ASSUME NEW c \in LeafValues, Insert(c) PROVE TreeInv'
    <3> DEFINE n == Len(leaves)
               M == Shifted(Append(leaves, c))
    <3>1. /\ n \in Nat /\ n < Capacity /\ leaves' = Append(leaves, c)
          /\ filledSubtrees' = InsertMerkleLeaf(c, n, filledSubtrees).filled
          /\ currentRoot' = InsertMerkleLeaf(c, n, filledSubtrees).current
          /\ replay' = InsertLeafAndComputeRoot(c, n, replay.filled)
        BY <2>1 DEF Insert, TreeInv
    <3>2. /\ OneMore(Shifted(leaves), M, n) /\ c = NodeAt(M, n, ZERO)
          /\ Len(leaves') = n + 1 /\ leaves' \in Seq(LeafValues)
        BY <3>1, AppendedLeaf DEF TreeInv
    <3>3. /\ FilledFor(filledSubtrees, Shifted(leaves), n)
          /\ FilledFor(replay.filled, Shifted(leaves), n)
        BY DEF TreeInv
    <3> HIDE DEF M, n
    <3>4. /\ InsertMerkleLeaf(c, n, filledSubtrees).current = TreeRoot(M)
          /\ FilledFor(InsertMerkleLeaf(c, n, filledSubtrees).filled, M, n + 1)
        BY <3>1, <3>2, <3>3, PoolInserts
    <3>5. /\ InsertLeafAndComputeRoot(c, n, replay.filled).current = TreeRoot(M)
          /\ FilledFor(InsertLeafAndComputeRoot(c, n, replay.filled).filled, M, n + 1)
        BY <3>1, <3>2, <3>3, SdkInserts
    <3>6. M = Shifted(leaves') /\ n + 1 <= Capacity
        BY <1>1, <3>1 DEF M
    <3> QED BY <3>1, <3>2, <3>4, <3>5, <3>6 DEF TreeInv
  <2>2. ASSUME UNCHANGED treeVars PROVE TreeInv'
      BY <2>2 DEF TreeInv, treeVars
  <2> QED BY <2>1, <2>2 DEF TreeNext
<1> QED BY <1>2, <1>3, PTL DEF TreeSpec

(* Four programs compute one tree: the pool's insertion with one filled    *)
(* subtree per level, the SDK's replay of it, the layers of the SDK and    *)
(* the browser, and the indexer's search give the same roots and paths.    *)
THEOREM TheTreeAlgorithmsAgree == TreeSpec => []TreeAlgorithmsAgree
<1>1. Capacity \in Nat
    BY DepthAssumption, PowerPositive DEF Capacity
<1>2. TreeInv => TreeAlgorithmsAgree
  <2> SUFFICES ASSUME TreeInv PROVE TreeAlgorithmsAgree
      OBVIOUS
  <2>1. Indexed = Shifted(leaves) /\ Len(leaves) \in Nat
      BY DEF Indexed, Shifted, TreeInv
  <2>2. ASSUME NEW i \in DOMAIN Indexed
        PROVE  /\ SparsePath(leaves, i) = IndexedPath(Indexed, i)
               /\ SparsePath(leaves, i).root = currentRoot
               /\ VerifyMerklePath(SparsePath(leaves, i))
    <3>1. i \in 0..(Len(leaves) - 1) /\ DOMAIN Indexed \subseteq Nat
        BY DEF Indexed
    <3>2. i \in Nat /\ i < Capacity
        BY <1>1, <2>1, <3>1 DEF TreeInv
    <3>3. SparsePath(leaves, i) = PathOf(Indexed, i)
        BY <2>1, <3>1, SparsePathIs
    <3>4. IndexedPath(Indexed, i) = PathOf(Indexed, i)
        BY <3>1, IndexedPathIs
    <3>5. PathOf(Indexed, i).root = currentRoot
        BY <2>1 DEF PathOf, TreeInv
    <3> QED BY <3>2, <3>3, <3>4, <3>5, TreePathVerifies
  <2>3. currentRoot = TreeRoot(Indexed) /\ replay.current = currentRoot
      BY <2>1 DEF TreeInv
  <2> QED BY <2>2, <2>3 DEF TreeAlgorithmsAgree
<1> QED BY <1>2, TreeInvHolds, PTL

(* The leaves of an indexer that misses one, and of the tree when it had n. *)
AllBut(gap) == [i \in DOMAIN Indexed \ {gap} |-> Indexed[i]]
First(n) == [k \in 0..(n - 1) |-> leaves[k + 1]]

LEMMA MissedLeaf ==
    ASSUME TreeInv, NEW gap \in DOMAIN Indexed, NEW n \in 0..Len(leaves)
    PROVE  TreeRoot(AllBut(gap)) = TreeRoot(First(n)) <=> n = gap /\ gap = Len(leaves) - 1
<1> DEFINE m == Len(leaves)
           known == AllBut(gap)
           prefix == First(n)
<1>1. /\ m \in Nat /\ Capacity \in Nat /\ m <= Capacity /\ gap \in 0..(m - 1)
      /\ \A i \in 0..(m - 1) : i \in Nat /\ i < Capacity
    BY DepthAssumption, PowerPositive DEF TreeInv, Indexed, Capacity
<1>2. \A i \in 0..(m - 1) : leaves[i + 1] # ZERO
  <2> TAKE i \in 0..(m - 1)
  <2>1. i + 1 \in 1..m
      BY <1>1
  <2> QED BY <2>1, LeafAssumption DEF TreeInv
<1>3. ASSUME NEW i \in 0..(m - 1)
      PROVE  /\ NodeAt(known, i, ZERO) = ZERO <=> i = gap
             /\ NodeAt(prefix, i, ZERO) = ZERO <=> i >= n
  <2>1. NodeAt(known, i, ZERO) = IF i = gap THEN ZERO ELSE leaves[i + 1]
      BY DEF NodeAt, Indexed, AllBut
  <2>2. NodeAt(prefix, i, ZERO) = IF i < n THEN leaves[i + 1] ELSE ZERO
      BY <1>1 DEF NodeAt, First
  <2> QED BY <1>1, <1>2, <2>1, <2>2
<1>4. ASSUME TreeRoot(known) = TreeRoot(prefix) PROVE n = gap /\ gap = m - 1
  <2>1. \A i \in 0..(m - 1) : NodeAt(known, i, ZERO) = NodeAt(prefix, i, ZERO)
      BY <1>1, <1>4, RootInjective
  <2>2. \A i \in 0..(m - 1) : i = gap <=> i >= n
      BY <1>3, <2>1
  <2>3. m - 1 \in 0..(m - 1) /\ n \in 0..m
      BY <1>1
  <2>4. gap >= n
      BY <1>1, <2>2
  <2>5. m - 1 >= n
      BY <1>1, <2>3, <2>4
  <2>6. n \in 0..(m - 1)
      BY <1>1, <2>5
  <2> QED BY <1>1, <2>2, <2>3, <2>5, <2>6
<1>5. ASSUME n = gap, gap = m - 1 PROVE TreeRoot(known) = TreeRoot(prefix)
  <2>1. (0..(m - 1)) \ {gap} = 0..(n - 1)
      BY <1>1, <1>5
  <2>2. known = prefix
      BY <2>1 DEF Indexed, AllBut, First
  <2> QED BY <2>2
<1> QED BY <1>4, <1>5

(* An indexer that misses a leaf serves verifying paths of another tree,   *)
(* and no root of the pool is that tree's root unless the leaf is the last *)
(* one: a missing log cannot go unnoticed.                                 *)
THEOREM TheGapsAreVisible == TreeSpec => []GapsAreVisible
<1>1. Capacity \in Nat
    BY DepthAssumption, PowerPositive DEF Capacity
<1>2. TreeInv => GapsAreVisible
  <2> SUFFICES ASSUME TreeInv PROVE GapsAreVisible
      OBVIOUS
  <2>1. ASSUME NEW gap \in DOMAIN Indexed, NEW i \in DOMAIN AllBut(gap)
        PROVE  \A made \in {IndexedPath(AllBut(gap), i)} :
                  /\ VerifyMerklePath(made)
                  /\ made.root = TreeRoot(AllBut(gap))
                  /\ \A n \in 0..Len(leaves) :
                        made.root = TreeRoot(First(n)) <=> n = gap /\ gap = Len(leaves) - 1
    <3>1. DOMAIN AllBut(gap) \subseteq Nat /\ i \in Nat /\ i < Capacity
        BY <1>1 DEF Indexed, AllBut, TreeInv
    <3>2. IndexedPath(AllBut(gap), i) = PathOf(AllBut(gap), i)
        BY <3>1, IndexedPathIs
    <3>3. IndexedPath(AllBut(gap), i).root = TreeRoot(AllBut(gap))
        BY <3>2 DEF PathOf
    <3>4. VerifyMerklePath(IndexedPath(AllBut(gap), i))
        BY <3>1, <3>2, TreePathVerifies
    <3> QED BY <3>3, <3>4, MissedLeaf
  <2> QED BY <2>1, Zenon DEF GapsAreVisible, AllBut, First
<1> QED BY <1>2, TreeInvHolds, PTL

Joining(c, s, block) == s \o block
Joins == INSTANCE FoldInduction WITH Op <- Joining
PoolStep(c, s, leaf) == RecordCommitmentRoot(s, leaf)
Pools == INSTANCE FoldInduction WITH Op <- PoolStep

LEMMA ChainFoldsInduct == \A n \in Nat :
    /\ Joins!Inducts(n)
    /\ Pools!Inducts(n)
BY NoBadNumber DEF Joins!Inducts, Pools!Inducts

-----------------------------------------------------------------------------
(* The chain.                                                              *)

PrefixOf(a, b) == Len(a) <= Len(b) /\ \A i \in 1..Len(a) : a[i] = b[i]

LEMMA ElementIn == ASSUME NEW T, NEW s \in Seq(T), NEW k \in 1..Len(s) PROVE s[k] \in T
OBVIOUS

LEMMA EmptyIs == ASSUME NEW T, NEW s \in Seq(T), Len(s) = 0 PROVE s = << >>
OBVIOUS

LEMMA JoinIn ==
    ASSUME NEW S, NEW a \in Seq(S), NEW b \in Seq(S)
    PROVE  /\ a \o b \in Seq(S) /\ Len(a \o b) = Len(a) + Len(b)
           /\ \A i \in 1..Len(a) : (a \o b)[i] = a[i]
           /\ \A i \in 1..Len(b) : (a \o b)[Len(a) + i] = b[i]
           /\ a = << >> => a \o b = b
OBVIOUS

LEMMA NothingIn == ASSUME NEW S PROVE << >> \in Seq(S)
OBVIOUS

(* The leaves of the first n blocks of bs.                                 *)
Upto(bs, n) == (CHOOSE st : Joins!Passes(st, 0, << >>, bs, Len(bs)))[n]

LEMMA UptoSteps ==
    ASSUME NEW S, NEW bs \in Seq(Seq(S))
    PROVE  /\ Upto(bs, 0) = << >>
           /\ \A n \in 1..Len(bs) : Upto(bs, n) = Upto(bs, n - 1) \o bs[n]
           /\ \A n \in 0..Len(bs) : Upto(bs, n) \in Seq(S)
<1> DEFINE st == CHOOSE st : Joins!Passes(st, 0, << >>, bs, Len(bs))
<1>1. Len(bs) \in Nat /\ DOMAIN bs = 1..Len(bs)
    OBVIOUS
<1>2. Joins!Passes(st, 0, << >>, bs, Len(bs))
    BY <1>1, Joins!FoldPasses, ChainFoldsInduct
<1> HIDE DEF st
<1>3. st[0] = << >> /\ \A n \in 1..Len(bs) : st[n] = st[n - 1] \o bs[n]
    BY <1>2 DEF Joins!Passes, Joining
<1> DEFINE Bad == {n \in 0..Len(bs) : st[n] \notin Seq(S)}
<1>4. 0 \notin Bad
    BY <1>3, NothingIn
<1>5. ASSUME NEW n \in 0..(Len(bs) - 1), n \notin Bad PROVE n + 1 \notin Bad
  <2>1. n \in 0..Len(bs) /\ n + 1 \in 1..Len(bs) /\ (n + 1) - 1 = n
      BY <1>1
  <2>2. bs[n + 1] \in Seq(S)
      BY <2>1, ElementIn
  <2>3. st[n + 1] = st[n] \o bs[n + 1]
      BY <1>3, <2>1
  <2>4. st[n] \in Seq(S)
      BY <1>5, <2>1
  <2> QED BY <2>2, <2>3, <2>4, JoinIn
<1>6. Bad \in SUBSET (0..Len(bs))
    OBVIOUS
<1> HIDE DEF Bad
<1>7. Bad = {}
    BY <1>1, <1>4, <1>5, <1>6, NoBadNumber
<1>8. \A n \in 0..Len(bs) : st[n] \in Seq(S)
    BY <1>7 DEF Bad
<1> QED BY <1>3, <1>8 DEF Upto, st

LEMMA UptoLocal ==
    ASSUME NEW S, NEW bs \in Seq(Seq(S)), NEW cs \in Seq(Seq(S)), NEW m \in 0..Len(bs), m <= Len(cs),
           \A k \in 1..m : bs[k] = cs[k]
    PROVE  Upto(bs, m) = Upto(cs, m)
<1> DEFINE Bad == {k \in 0..m : Upto(bs, k) # Upto(cs, k)}
<1>1. 0 \notin Bad
    BY UptoSteps
<1>2. ASSUME NEW k \in 0..(m - 1), k \notin Bad PROVE k + 1 \notin Bad
  <2>1. k \in 0..m /\ k + 1 \in 1..m /\ (k + 1) - 1 = k /\ k + 1 \in 1..Len(bs) /\ k + 1 \in 1..Len(cs)
      OBVIOUS
  <2>2. Upto(bs, k + 1) = Upto(bs, k) \o bs[k + 1] /\ Upto(cs, k + 1) = Upto(cs, k) \o cs[k + 1]
      BY <2>1, UptoSteps
  <2> QED BY <1>2, <2>1, <2>2
<1>3. Bad \in SUBSET (0..m) /\ m \in Nat
    OBVIOUS
<1> HIDE DEF Bad
<1>4. Bad = {}
    BY <1>1, <1>2, <1>3, NoBadNumber
<1> QED BY <1>3, <1>4 DEF Bad

(* The leaves of fewer blocks are a prefix of those of more.               *)
LEMMA UptoOrder ==
    ASSUME NEW S, NEW bs \in Seq(Seq(S)), NEW m \in 0..Len(bs), NEW n \in 0..m
    PROVE  PrefixOf(Upto(bs, n), Upto(bs, m))
<1> DEFINE Bad == {k \in 0..m : n <= k /\ ~PrefixOf(Upto(bs, n), Upto(bs, k))}
<1>1. n \in 0..Len(bs)
    OBVIOUS
<1>2. PrefixOf(Upto(bs, n), Upto(bs, n))
  <2>1. Upto(bs, n) \in Seq(S)
      BY <1>1, UptoSteps
  <2> QED BY <2>1 DEF PrefixOf
<1>3. 0 \notin Bad
    BY <1>2
<1>4. ASSUME NEW k \in 0..(m - 1), k \notin Bad PROVE k + 1 \notin Bad
  <2>1. k \in 0..m /\ k + 1 \in 1..Len(bs) /\ (k + 1) - 1 = k /\ k \in 0..Len(bs)
      OBVIOUS
  <2>2. CASE n <= k
    <3>1. PrefixOf(Upto(bs, n), Upto(bs, k))
        BY <1>4, <2>1, <2>2
    <3>2. bs[k + 1] \in Seq(S)
        BY <2>1, ElementIn
    <3>3. Upto(bs, k + 1) = Upto(bs, k) \o bs[k + 1] /\ bs[k + 1] \in Seq(S)
        BY <2>1, <3>2, UptoSteps
    <3>4. Upto(bs, n) \in Seq(S) /\ Upto(bs, k) \in Seq(S)
        BY <1>1, <2>1, UptoSteps
    <3>5. PrefixOf(Upto(bs, n), Upto(bs, k) \o bs[k + 1])
      <4> DEFINE a == Upto(bs, n)
                 b == Upto(bs, k)
                 c == bs[k + 1]
      <4>1. a \in Seq(S) /\ b \in Seq(S) /\ c \in Seq(S) /\ PrefixOf(a, b)
          BY <3>1, <3>3, <3>4
      <4> HIDE DEF a, b, c
      <4>2. PrefixOf(a, b \o c)
          BY <4>1 DEF PrefixOf
      <4> QED BY <4>2 DEF a, b, c
    <3> QED BY <3>3, <3>5
  <2>3. CASE ~(n <= k)
      BY <1>2, <2>1, <2>3
  <2> QED BY <2>2, <2>3
<1>5. Bad \in SUBSET (0..m) /\ m \in Nat
    OBVIOUS
<1> HIDE DEF Bad
<1>6. Bad = {}
    BY <1>3, <1>4, <1>5, NoBadNumber
<1> QED BY <1>5, <1>6 DEF Bad

LEMMA FlattenIs ==
    ASSUME NEW S, NEW bs \in Seq(Seq(S))
    PROVE  FlattenSeq(bs) = Upto(bs, Len(bs))
<1> DEFINE n == Len(bs)
           Flattens(f) == f = [i \in 1..n |-> IF i = 1 THEN bs[i] ELSE f[i - 1] \o bs[i]]
           flat == CHOOSE f : Flattens(f)
           f0 == [i \in 1..n |-> Upto(bs, i)]
<1>1. n \in Nat
    OBVIOUS
<1>2. CASE n = 0
  <2>1. bs = << >> /\ Upto(bs, 0) = << >>
      BY <1>2, UptoSteps, EmptyIs
  <2> QED BY <1>2, <2>1 DEF FlattenSeq
<1>3. CASE n # 0
  <2>1. FlattenSeq(bs) = flat[n]
      BY <1>3 DEF FlattenSeq
  <2>2. \A i \in 1..n : Upto(bs, i) = IF i = 1 THEN bs[i] ELSE Upto(bs, i - 1) \o bs[i]
    <3> TAKE i \in 1..n
    <3>1. Upto(bs, i) = Upto(bs, i - 1) \o bs[i]
        BY UptoSteps
    <3>2. i = 1 => i - 1 = 0
        OBVIOUS
    <3>3. Upto(bs, 0) = << >> /\ << >> \in Seq(S) /\ bs[i] \in Seq(S)
        BY UptoSteps, ElementIn, NothingIn
    <3>4. << >> \o bs[i] = bs[i]
        BY <3>3, JoinIn
    <3> QED BY <3>1, <3>2, <3>3, <3>4
  <2>3. Flattens(f0)
    <3>1. \A i \in 1..n : f0[i] = Upto(bs, i) /\ (i # 1 => f0[i - 1] = Upto(bs, i - 1))
        BY <1>1
    <3>2. \A i \in 1..n : f0[i] = IF i = 1 THEN bs[i] ELSE f0[i - 1] \o bs[i]
        BY <2>2, <3>1
    <3> QED BY <3>2
  <2>4. Flattens(flat)
      BY <2>3
  <2> HIDE DEF flat
  <2> DEFINE Bad == {k \in 0..n : k # 0 /\ flat[k] # Upto(bs, k)}
  <2>5. 0 \notin Bad
      OBVIOUS
  <2>6. ASSUME NEW k \in 0..(n - 1), k \notin Bad PROVE k + 1 \notin Bad
    <3>1. k \in 0..n /\ k + 1 \in 1..n /\ (k + 1) - 1 = k /\ (k + 1 = 1 <=> k = 0)
        BY <1>1
    <3>2. flat[k + 1] = IF k = 0 THEN bs[k + 1] ELSE flat[k] \o bs[k + 1]
        BY <2>4, <3>1
    <3>3. Upto(bs, k + 1) = IF k = 0 THEN bs[k + 1] ELSE Upto(bs, k) \o bs[k + 1]
        BY <2>2, <3>1
    <3> QED BY <2>6, <3>1, <3>2, <3>3
  <2>7. Bad \in SUBSET (0..n)
      OBVIOUS
  <2> HIDE DEF Bad
  <2>8. Bad = {}
      BY <1>1, <2>5, <2>6, <2>7, NoBadNumber
  <2>9. flat[n] = Upto(bs, n)
      BY <1>1, <1>3, <2>8 DEF Bad
  <2> QED BY <2>1, <2>9
<1> QED BY <1>2, <1>3

LEMMA FlattenPrefix ==
    ASSUME NEW S, NEW bs \in Seq(Seq(S)), NEW n \in 0..Len(bs)
    PROVE  FlattenSeq(SubSeq(bs, 1, n)) = Upto(bs, n)
<1> DEFINE cs == SubSeq(bs, 1, n)
<1>1. cs \in Seq(Seq(S)) /\ Len(cs) = n /\ \A k \in 1..n : cs[k] = bs[k]
    OBVIOUS
<1>2. n \in 0..Len(cs) /\ n <= Len(bs)
    BY <1>1
<1> HIDE DEF cs
<1>3. Upto(cs, n) = Upto(bs, n)
    BY <1>1, <1>2, UptoLocal
<1>4. FlattenSeq(cs) = Upto(cs, Len(cs))
    BY <1>1, FlattenIs
<1> QED BY <1>1, <1>3, <1>4 DEF cs
-----------------------------------------------------------------------------
(* The pool's states along a history h of insertions.                      *)
Cut(h, k) == [i \in 0..(k - 1) |-> h[i + 1]]
Root(h, k) == TreeRoot(Cut(h, k))
PoolSt(h, k) == (CHOOSE st : Pools!Passes(st, 0, NewPool, h, Len(h)))[k]

LEMMA HistoriesAre ==
    ASSUME NEW h
    PROVE  h \in Histories <=> h \in Seq(Commitments) /\ Len(h) <= Capacity
<1>1. Capacity \in Nat
    BY DepthAssumption, PowerPositive DEF Capacity
<1>2. ASSUME h \in Histories PROVE h \in Seq(Commitments) /\ Len(h) <= Capacity
  <2>1. PICK m \in 0..Capacity : h \in [1..m -> Commitments]
      BY <1>2 DEF Histories, SeqOf
  <2>2. m \in Nat /\ m <= Capacity
      BY <1>1
  <2> QED BY <2>1, <2>2
<1>3. ASSUME h \in Seq(Commitments), Len(h) <= Capacity PROVE h \in Histories
  <2>1. Len(h) \in 0..Capacity /\ h \in [1..Len(h) -> Commitments]
      BY <1>1, <1>3
  <2> QED BY <2>1 DEF Histories, SeqOf
<1> QED BY <1>2, <1>3

LEMMA PoolSteps ==
    ASSUME NEW h \in Histories
    PROVE  /\ PoolSt(h, 0) = NewPool
           /\ \A k \in 1..Len(h) : PoolSt(h, k) = RecordCommitmentRoot(PoolSt(h, k - 1), h[k])
           /\ PoolAfter[h] = PoolSt(h, Len(h))
<1> DEFINE st == CHOOSE st : Pools!Passes(st, 0, NewPool, h, Len(h))
<1>1. h \in Seq(Commitments)
    BY HistoriesAre
<1>2. Len(h) \in Nat /\ DOMAIN h = 1..Len(h)
    BY <1>1
<1>3. \E su : /\ Pools!Passes(su, 0, NewPool, h, Len(h))
              /\ Pools!Folded(0, NewPool, h) = su[Len(h)]
    BY <1>2, Pools!FoldPasses, ChainFoldsInduct
<1>4. Pools!Passes(st, 0, NewPool, h, Len(h))
    BY <1>3
<1>5. st[0] = NewPool /\ \A k \in 1..Len(h) : st[k] = RecordCommitmentRoot(st[k - 1], h[k])
    BY <1>4 DEF Pools!Passes, PoolStep
<1>6. PICK su : /\ Pools!Passes(su, 0, NewPool, h, Len(h))
                /\ Pools!Folded(0, NewPool, h) = su[Len(h)]
    BY <1>3
<1> HIDE DEF st
<1>7. su[Len(h)] = st[Len(h)]
  <2>1. Len(h) \in 0..Len(h) /\ \A k \in 1..Len(h) : h[k] = h[k]
      BY <1>2
  <2>2. \A k \in 0..Len(h) : su[k] = st[k]
      BY <1>2, <1>4, <1>6, <2>1, Pools!PassesAgree, ChainFoldsInduct
  <2> QED BY <2>1, <2>2
<1>8. PoolAfter[h] = Pools!Folded(0, NewPool, h)
  <2>1. PoolAfter[h] = FoldLeft(RecordCommitmentRoot, NewPool, h)
      BY DEF PoolAfter
  <2>2. FoldLeft(RecordCommitmentRoot, NewPool, h) = Pools!Folded(0, NewPool, h)
      BY DEF FoldLeft, MapThenFoldSet, Pools!Folded, Pools!Unfolds, Max, Pools!Largest, PoolStep
  <2> QED BY <2>1, <2>2
<1> QED BY <1>5, <1>6, <1>7, <1>8 DEF PoolSt, st

(* Histories with a common prefix have the same pool states on it.         *)
LEMMA PoolLocal ==
    ASSUME NEW h \in Histories, NEW g \in Histories, PrefixOf(g, h), NEW k \in 0..Len(g)
    PROVE  PoolSt(g, k) = PoolSt(h, k)
<1> DEFINE Bad == {j \in 0..k : PoolSt(g, j) # PoolSt(h, j)}
<1>1. Len(g) \in Nat /\ Len(h) \in Nat /\ Len(g) <= Len(h) /\ \A i \in 1..Len(g) : g[i] = h[i]
    BY HistoriesAre DEF PrefixOf
<1>2. 0 \notin Bad
    BY PoolSteps
<1>3. ASSUME NEW j \in 0..(k - 1), j \notin Bad PROVE j + 1 \notin Bad
  <2>1. j \in 0..k /\ j + 1 \in 1..Len(g) /\ j + 1 \in 1..Len(h) /\ (j + 1) - 1 = j
      BY <1>1
  <2>2. /\ PoolSt(g, j + 1) = RecordCommitmentRoot(PoolSt(g, (j + 1) - 1), g[j + 1])
        /\ PoolSt(h, j + 1) = RecordCommitmentRoot(PoolSt(h, (j + 1) - 1), h[j + 1])
      BY <2>1, PoolSteps
  <2> QED BY <1>1, <1>3, <2>1, <2>2
<1>4. Bad \in SUBSET (0..k) /\ k \in Nat
    OBVIOUS
<1> HIDE DEF Bad
<1>5. Bad = {}
    BY <1>2, <1>3, <1>4, NoBadNumber
<1> QED BY <1>4, <1>5 DEF Bad

(* The j-th root the pool accepts, from 0 for the deployment's.            *)
Accepts(h, j) ==
    IF j = 0 THEN RootAccepted(Root(h, 0), ZERO, ZERO)
             ELSE RootAccepted(Root(h, j), Root(h, j - 1), h[j])

(* The events a pool with history h can emit. *)
EventsOf(h) ==
    {Accepts(h, j) : j \in 0..Len(h)}
        \cup {RootExpired(Root(h, j)) : j \in 0..Len(h)}
        \cup {NullifierSpent(h[j]) : j \in {i \in 1..Len(h) : h[i] \in Spends}}
        \cup {NoteCreated(h[j], j - 1) : j \in 1..Len(h)}

LEMMA CutSteps ==
    ASSUME NEW h \in Histories, NEW k \in 1..Len(h)
    PROVE  /\ OneMore(Cut(h, k - 1), Cut(h, k), k - 1)
           /\ h[k] = NodeAt(Cut(h, k), k - 1, ZERO)
           /\ k - 1 \in Nat /\ k - 1 < Capacity /\ (k - 1) + 1 = k
           /\ h[k] \in Commitments
<1>1. h \in Seq(Commitments) /\ Len(h) <= Capacity /\ Len(h) \in Nat /\ Capacity \in Nat
    BY HistoriesAre, DepthAssumption, PowerPositive DEF Capacity
<1>2. k - 1 \in Nat /\ k - 1 < Capacity /\ (k - 1) + 1 = k /\ h[k] \in Commitments
    BY <1>1
<1>3. h[k] = NodeAt(Cut(h, k), k - 1, ZERO)
  <2>1. k - 1 \in 0..(k - 1)
      BY <1>2
  <2> QED BY <1>2, <2>1 DEF Cut, NodeAt
<1>4. OneMore(Cut(h, k - 1), Cut(h, k), k - 1)
  <2>1. ASSUME NEW i \in Nat, i < k - 1 PROVE NodeAt(Cut(h, k), i, ZERO) = NodeAt(Cut(h, k - 1), i, ZERO)
      BY <1>2, <2>1 DEF Cut, NodeAt
  <2>2. ASSUME NEW i \in Nat, i > k - 1 PROVE NodeAt(Cut(h, k), i, ZERO) = ZERO
      BY <1>2, <2>2 DEF Cut, NodeAt
  <2> QED BY <2>1, <2>2 DEF OneMore
<1> QED BY <1>2, <1>3, <1>4

(* Where in the log the j-th root is announced.                            *)
Position(h, j) ==
    IF j = 0 THEN 1
    ELSE Len(PoolSt(h, j - 1).events) + (IF j >= ROOT_HISTORY_SIZE THEN 1 ELSE 0) + 1

(* The log s.events announces the roots up to the k-th and no others.      *)
Announces(ev, h, k) ==
    /\ ev \in Seq(EventsOf(h))
    /\ \A j \in 0..k : Position(h, j) \in 1..Len(ev) /\ ev[Position(h, j)] = Accepts(h, j)
    /\ \A g \in 1..Len(ev) : ev[g].event = "RootAccepted" => \E j \in 0..k : g = Position(h, j)

RootsUpto(h, k) == {Root(h, j) : j \in 0..k}

RootsAre(kept, h, k) ==
    /\ kept \in Seq(RootsUpto(h, k)) /\ Len(kept) = k + 1
    /\ \A j \in 0..k : kept[j + 1] = Root(h, j)

PoolIs(s, h, k) ==
    /\ s.leaves \in Seq(Commitments) /\ Len(s.leaves) = k
    /\ FilledFor(s.filled, Cut(h, k), k)
    /\ RootsAre(s.roots, h, k)
    /\ Announces(s.events, h, k)

LEMMA Joined ==
    ASSUME NEW T, NEW a \in Seq(T), NEW b \in Seq(T), NEW c, c = a \o b
    PROVE  /\ c \in Seq(T) /\ Len(c) = Len(a) + Len(b)
           /\ \A i \in 1..Len(a) : c[i] = a[i]
           /\ \A i \in 1..Len(b) : c[Len(a) + i] = b[i]
OBVIOUS

LEMMA JoinedOne ==
    ASSUME NEW T, NEW a \in Seq(T), NEW x \in T, NEW c, c = a \o <<x>>
    PROVE  /\ c \in Seq(T) /\ Len(c) = Len(a) + 1
           /\ \A i \in 1..Len(a) : c[i] = a[i]
           /\ c[Len(a) + 1] = x
OBVIOUS

LEMMA FiveParts ==
    ASSUME NEW i \in Nat, NEW p \in Nat, NEW q \in Nat, NEW r \in Nat, NEW s \in Nat,
           r = q + 1, i <= s + 1
    PROVE  \/ i <= p
           \/ i > p /\ i <= q
           \/ i = r
           \/ i > r /\ i <= s
           \/ i = s + 1
OBVIOUS

(* What a transaction adds to the log. *)
Written(old, expired, accepted, used, note) ==
    old \o expired \o <<accepted>> \o used \o <<note>>

WrittenIs(T, old, expired, accepted, used, note, all) ==
    /\ all \in Seq(T)
    /\ Len(all) = Len(old) + Len(expired) + 1 + Len(used) + 1
    /\ \A i \in 1..Len(old) : all[i] = old[i]
    /\ all[Len(old) + Len(expired) + 1] = accepted
    /\ \A i \in 1..Len(all) :
          \/ i <= Len(old)
          \/ \E j \in 1..Len(expired) : all[i] = expired[j]
          \/ i = Len(old) + Len(expired) + 1
          \/ \E j \in 1..Len(used) : all[i] = used[j]
          \/ all[i] = note

LEMMA JoinFive ==
    ASSUME NEW T, NEW old \in Seq(T), NEW expired \in Seq(T), NEW accepted \in T,
           NEW used \in Seq(T), NEW note \in T,
           NEW all, all = Written(old, expired, accepted, used, note)
    PROVE  WrittenIs(T, old, expired, accepted, used, note, all)
<1> DEFINE a == old \o expired
           b == a \o <<accepted>>
           c == b \o used
<1>1. a = old \o expired /\ b = a \o <<accepted>> /\ c = b \o used /\ all = c \o <<note>>
    BY DEF Written
<1> HIDE DEF a, b, c
<1>2. /\ a \in Seq(T) /\ Len(a) = Len(old) + Len(expired)
      /\ \A i \in 1..Len(old) : a[i] = old[i]
      /\ \A i \in 1..Len(expired) : a[Len(old) + i] = expired[i]
    BY <1>1, Joined
<1>3. /\ b \in Seq(T) /\ Len(b) = Len(a) + 1
      /\ \A i \in 1..Len(a) : b[i] = a[i]
      /\ b[Len(a) + 1] = accepted
    BY <1>1, <1>2, JoinedOne
<1>4. /\ c \in Seq(T) /\ Len(c) = Len(b) + Len(used)
      /\ \A i \in 1..Len(b) : c[i] = b[i]
      /\ \A i \in 1..Len(used) : c[Len(b) + i] = used[i]
  <2>1. b \in Seq(T) /\ used \in Seq(T) /\ c = b \o used
      BY <1>1, <1>3
  <2> QED BY ONLY <2>1, Joined
<1>5. /\ all \in Seq(T) /\ Len(all) = Len(c) + 1
      /\ \A i \in 1..Len(c) : all[i] = c[i]
      /\ all[Len(c) + 1] = note
    BY <1>1, <1>4, JoinedOne
<1>6. /\ Len(old) \in Nat /\ Len(expired) \in Nat /\ Len(used) \in Nat
      /\ Len(a) \in Nat /\ Len(b) \in Nat /\ Len(c) \in Nat
    BY <1>2, <1>3, <1>4
<1>7. \A i \in 1..Len(old) : all[i] = old[i]
    BY <1>2, <1>3, <1>4, <1>5, <1>6
<1>8. all[Len(old) + Len(expired) + 1] = accepted
  <2>1. Len(old) + Len(expired) + 1 = Len(a) + 1
      BY <1>2
  <2>2. Len(a) + 1 \in 1..Len(b) /\ Len(a) + 1 \in 1..Len(c)
      BY ONLY <1>3, <1>4, <1>6
  <2>3. all[Len(a) + 1] = accepted
      BY <1>3, <1>4, <1>5, <2>2
  <2> QED BY <2>1, <2>3
<1>9. ASSUME NEW i \in 1..Len(all)
       PROVE  \/ i <= Len(old)
              \/ \E j \in 1..Len(expired) : all[i] = expired[j]
              \/ i = Len(old) + Len(expired) + 1
              \/ \E j \in 1..Len(used) : all[i] = used[j]
              \/ all[i] = note
  <2>1. CASE i <= Len(old)
      BY <2>1
  <2>2. CASE i > Len(old) /\ i <= Len(a)
    <3>1. i - Len(old) \in 1..Len(expired) /\ Len(old) + (i - Len(old)) = i /\ i \in 1..Len(a)
        BY <1>2, <1>6, <2>2
    <3>2. i \in 1..Len(b) /\ i \in 1..Len(c)
        BY <1>3, <1>4, <1>6, <3>1
    <3>3. all[i] = a[i]
        BY <1>3, <1>4, <1>5, <3>1, <3>2
    <3>4. a[i] = expired[i - Len(old)]
        BY <1>2, <3>1
    <3> QED BY <3>1, <3>3, <3>4
  <2>3. CASE i = Len(b)
      BY <1>2, <1>3, <2>3
  <2>4. CASE i > Len(b) /\ i <= Len(c)
    <3>1. i - Len(b) \in 1..Len(used) /\ Len(b) + (i - Len(b)) = i /\ i \in 1..Len(c)
        BY <1>4, <1>6, <2>4
    <3> QED BY <1>4, <1>5, <3>1
  <2>5. CASE i = Len(c) + 1
      BY <1>5, <2>5
  <2>6. /\ Len(a) = Len(old) + Len(expired) /\ Len(b) = Len(a) + 1
        /\ Len(c) = Len(b) + Len(used) /\ Len(all) = Len(c) + 1
      BY <1>2, <1>3, <1>4, <1>5
  <2>7. i \in Nat /\ i <= Len(all)
      BY <1>5, <1>6
  <2>8. \/ i <= Len(old)
        \/ i > Len(old) /\ i <= Len(a)
        \/ i = Len(b)
        \/ i > Len(b) /\ i <= Len(c)
        \/ i = Len(c) + 1
    <3>1. i <= Len(c) + 1 /\ Len(b) = Len(a) + 1
        BY <2>6, <2>7
    <3> QED BY <1>6, <2>7, <3>1, FiveParts
  <2> QED BY <2>8, <2>1, <2>2, <2>3, <2>4, <2>5
<1>10. Len(all) = Len(old) + Len(expired) + 1 + Len(used) + 1
    BY <1>2, <1>3, <1>4, <1>5, <1>6
<1> QED BY <1>5, <1>7, <1>8, <1>9, <1>10 DEF WrittenIs

(* The leaf tells which root it led to; a root and a note are told apart.  *)
LEMMA NewPoolIs ==
    ASSUME NEW h \in Histories
    PROVE  PoolIs(NewPool, h, 0)
<1> DEFINE E == EventsOf(h)
           log == NewPool.events
<1>1. Len(h) \in Nat /\ 0 \in 0..Len(h)
    BY HistoriesAre
<1>2. Root(h, 0) = InitialRoot /\ FilledFor(InitialSubtrees, Cut(h, 0), 0)
  <2>1. DOMAIN Cut(h, 0) = {}
      BY DEF Cut
  <2> QED BY <2>1, EmptyTree DEF Root
<1>3. Accepts(h, 0) \in E /\ Accepts(h, 0) = RootAccepted(InitialRoot, ZERO, ZERO)
    BY <1>1, <1>2 DEF EventsOf, Accepts
<1>4. /\ NewPool.leaves = << >> /\ NewPool.filled = InitialSubtrees
      /\ NewPool.roots = <<InitialRoot>> /\ log = <<Accepts(h, 0)>>
    BY <1>3 DEF NewPool
<1>5. Position(h, 0) = 1
    BY DEF Position
<1>6. 0..0 = {0} /\ 1..1 = {1}
    OBVIOUS
<1>7. log \in Seq(E) /\ Len(log) = 1 /\ log[1] = Accepts(h, 0)
    BY <1>3, <1>4
<1>8. Announces(log, h, 0)
    BY <1>5, <1>6, <1>7 DEF Announces
<1>9. /\ NewPool.roots \in Seq(RootsUpto(h, 0)) /\ Len(NewPool.roots) = 1
      /\ NewPool.roots[1] = Root(h, 0)
    BY <1>2, <1>4, <1>6 DEF RootsUpto
<1>10. NewPool.leaves \in Seq(Commitments) /\ Len(NewPool.leaves) = 0
    BY <1>4
<1> QED BY <1>2, <1>4, <1>6, <1>8, <1>9, <1>10 DEF PoolIs, RootsAre

(* What one transaction of the pool does. *)
ExpiredBy(s) ==
    IF Len(s.roots) >= ROOT_HISTORY_SIZE
    THEN <<RootExpired(s.roots[Len(s.roots) - ROOT_HISTORY_SIZE + 1])>>
    ELSE << >>
SpentBy(c) == IF c \in Spends THEN <<NullifierSpent(c)>> ELSE << >>

LEMMA AppendedTo ==
    ASSUME NEW T, NEW a \in Seq(T), NEW x, NEW U, T \subseteq U, x \in U
    PROVE  /\ Append(a, x) \in Seq(U) /\ Len(Append(a, x)) = Len(a) + 1
           /\ \A i \in 1..Len(a) : Append(a, x)[i] = a[i]
           /\ Append(a, x)[Len(a) + 1] = x
OBVIOUS

LEMMA RootsGrow ==
    ASSUME NEW h \in Histories, NEW k \in 1..Len(h), NEW kept, NEW more,
           RootsAre(kept, h, k - 1), more = Append(kept, Root(h, k))
    PROVE  RootsAre(more, h, k) /\ Last(kept) = Root(h, k - 1)
<1> DEFINE T == RootsUpto(h, k - 1)
           U == RootsUpto(h, k)
           x == Root(h, k)
<1>1. k \in Nat /\ k \in 0..k /\ 0..(k - 1) \subseteq 0..k /\ k - 1 \in 0..(k - 1) /\ (k - 1) + 1 = k
    BY HistoriesAre
<1>2. T \subseteq U /\ x \in U
    BY <1>1 DEF RootsUpto
<1>3. /\ kept \in Seq(T) /\ more = Append(kept, x) /\ Len(kept) = k
      /\ \A j \in 0..(k - 1) : kept[j + 1] = Root(h, j)
    BY <1>1 DEF RootsAre
<1> HIDE DEF T, U, x
<1>4. /\ more \in Seq(U) /\ Len(more) = Len(kept) + 1
      /\ \A i \in 1..Len(kept) : more[i] = kept[i]
      /\ more[Len(kept) + 1] = x
    BY <1>2, <1>3, AppendedTo
<1>5. \A j \in 0..k : more[j + 1] = Root(h, j)
  <2> TAKE j \in 0..k
  <2>1. CASE j = k
      BY <1>3, <1>4, <2>1 DEF x
  <2>2. CASE j # k
    <3>1. j \in 0..(k - 1) /\ j + 1 \in 1..Len(kept)
        BY <1>1, <1>3, <2>2
    <3> QED BY <1>3, <1>4, <3>1
  <2> QED BY <2>1, <2>2
<1>6. Last(kept) = Root(h, k - 1)
    BY <1>1, <1>3 DEF Last
<1> QED BY <1>3, <1>4, <1>5, <1>6 DEF U, RootsAre

(* The log after a transaction announces one more root. *)
LEMMA LogGrows ==
    ASSUME NEW h \in Histories, NEW k \in 1..Len(h), NEW s, s = PoolSt(h, k - 1),
           PoolIs(s, h, k - 1),
           NEW all, all = Written(s.events, ExpiredBy(s), Accepts(h, k), SpentBy(h[k]),
                                  NoteCreated(h[k], k - 1))
    PROVE  /\ Announces(all, h, k)
           /\ PrefixOf(s.events, all)
           /\ Len(s.events) < Position(h, k)
<1> DEFINE E == EventsOf(h)
           old == s.events
           expired == ExpiredBy(s)
           used == SpentBy(h[k])
           accepted == Accepts(h, k)
           note == NoteCreated(h[k], k - 1)
<1>1. k \in Nat /\ k \in 0..Len(h) /\ k - 1 \in 0..Len(h) /\ Len(h) \in Nat
    BY HistoriesAre
<1>2. ROOT_HISTORY_SIZE \in Nat /\ ROOT_HISTORY_SIZE > 0
    BY ChainAssumption
<1>3. Announces(old, h, k - 1) /\ Len(s.roots) = (k - 1) + 1 /\ \A j \in 0..(k - 1) : s.roots[j + 1] = Root(h, j)
    BY DEF PoolIs, RootsAre
<1>4. old \in Seq(E) /\ accepted \in E /\ note \in E
    BY <1>1, <1>3 DEF Announces, EventsOf
<1>5. /\ expired \in Seq(E)
      /\ Len(expired) = IF k >= ROOT_HISTORY_SIZE THEN 1 ELSE 0
      /\ \A j \in 1..Len(expired) : expired[j].event = "RootExpired"
  <2>1. Len(s.roots) = k
      BY <1>1, <1>3
  <2>2. CASE k >= ROOT_HISTORY_SIZE
    <3> DEFINE r == s.roots[k - ROOT_HISTORY_SIZE + 1]
    <3>1. k - ROOT_HISTORY_SIZE \in 0..(k - 1) /\ k - ROOT_HISTORY_SIZE \in 0..Len(h)
        BY <1>1, <1>2, <2>2
    <3>2. r = Root(h, k - ROOT_HISTORY_SIZE)
        BY <1>3, <3>1
    <3>3. RootExpired(r) \in E
        BY <3>1, <3>2 DEF EventsOf
    <3>4. expired = <<RootExpired(r)>>
        BY <2>1, <2>2 DEF ExpiredBy
    <3>5. RootExpired(r).event = "RootExpired"
        BY DEF RootExpired
    <3> DEFINE x == RootExpired(r)
    <3>6. x \in E /\ x.event = "RootExpired" /\ expired = <<x>>
        BY <3>3, <3>4, <3>5
    <3> HIDE DEF x, E, expired
    <3> QED BY <2>2, <3>6
  <2>3. CASE ~(k >= ROOT_HISTORY_SIZE)
    <3>1. expired = << >>
        BY <2>1, <2>3 DEF ExpiredBy
    <3> HIDE DEF expired, E
    <3> QED BY <2>3, <3>1
  <2> QED BY <2>2, <2>3
<1>6. used \in Seq(E) /\ \A j \in 1..Len(used) : used[j].event = "NullifierSpent"
  <2> DEFINE x == NullifierSpent(h[k])
  <2>1. x.event = "NullifierSpent"
      BY DEF NullifierSpent
  <2>2. CASE h[k] \in Spends
    <3>1. x \in E
        BY <1>1, <2>2 DEF EventsOf
    <3>2. used = <<x>>
        BY <2>2 DEF SpentBy
    <3> HIDE DEF used, x, E
    <3> QED BY <2>1, <3>1, <3>2
  <2>3. CASE h[k] \notin Spends
    <3>1. used = << >>
        BY <2>3 DEF SpentBy
    <3> HIDE DEF used, E
    <3> QED BY <3>1
  <2> QED BY <2>2, <2>3
<1>7. note.event = "NoteCreated"
    BY DEF NoteCreated
<1>8. all = Written(old, expired, accepted, used, note)
    OBVIOUS
<1>9. Position(h, k) = Len(old) + (IF k >= ROOT_HISTORY_SIZE THEN 1 ELSE 0) + 1
  <2>1. k # 0
      BY <1>1
  <2>2. Position(h, k) = Len(PoolSt(h, k - 1).events) + (IF k >= ROOT_HISTORY_SIZE THEN 1 ELSE 0) + 1
      BY <2>1 DEF Position
  <2> QED BY <2>2 DEF old
<1> HIDE DEF E, expired, used, accepted, note, old
<1>10. WrittenIs(E, old, expired, accepted, used, note, all)
    BY <1>4, <1>5, <1>6, <1>8, JoinFive
<1>11. Len(old) \in Nat /\ Len(expired) \in Nat /\ Len(used) \in Nat /\ Len(all) \in Nat
  <2>1. old \in Seq(E) /\ expired \in Seq(E) /\ used \in Seq(E) /\ all \in Seq(E)
      BY <1>4, <1>5, <1>6, <1>10 DEF WrittenIs
  <2> QED BY ONLY <2>1
<1>12. Position(h, k) = Len(old) + Len(expired) + 1
    BY <1>5, <1>9, <1>11
<1>13. /\ Len(all) = Len(old) + Len(expired) + 1 + Len(used) + 1
       /\ all[Len(old) + Len(expired) + 1] = accepted
    BY <1>10 DEF WrittenIs
<1>14. \A i \in 1..Len(old) : all[i] = old[i]
    BY <1>10 DEF WrittenIs
<1>15. PrefixOf(old, all) /\ Len(old) < Position(h, k)
  <2>1. Len(old) <= Len(all) /\ Len(old) < Position(h, k)
      BY ONLY <1>11, <1>12, <1>13
  <2> QED BY <1>14, <2>1 DEF PrefixOf
<1>16. \A j \in 0..k : Position(h, j) \in 1..Len(all) /\ all[Position(h, j)] = Accepts(h, j)
  <2> TAKE j \in 0..k
  <2>1. CASE j = k
    <3>1. Position(h, k) \in 1..Len(all)
        BY ONLY <1>11, <1>12, <1>13
    <3>2. all[Position(h, k)] = Accepts(h, k)
        BY <1>12, <1>13 DEF accepted
    <3> QED BY <2>1, <3>1, <3>2
  <2>2. CASE j # k
    <3>1. j \in 0..(k - 1)
        BY <1>1, <2>2
    <3>2. Position(h, j) \in 1..Len(old) /\ old[Position(h, j)] = Accepts(h, j)
      <4>1. Announces(old, h, k - 1)
          BY <1>3
      <4> QED BY <3>1, <4>1 DEF Announces
    <3>3. Position(h, j) \in 1..Len(all)
        BY ONLY <1>11, <1>13, <3>2
    <3> QED BY <1>14, <3>2, <3>3
  <2> QED BY <2>1, <2>2
<1>17. \A g \in 1..Len(all) : all[g].event = "RootAccepted" => \E j \in 0..k : g = Position(h, j)
  <2> SUFFICES ASSUME NEW g \in 1..Len(all), all[g].event = "RootAccepted"
               PROVE  \E j \in 0..k : g = Position(h, j)
      OBVIOUS
  <2>1. CASE g <= Len(old)
    <3>1. g \in 1..Len(old)
        BY <1>11, <2>1
    <3>2. PICK j \in 0..(k - 1) : g = Position(h, j)
        BY <1>3, <1>14, <3>1 DEF Announces
    <3>3. j \in 0..k
        BY <1>1
    <3> QED BY <3>2, <3>3
  <2>2. CASE g = Len(old) + Len(expired) + 1
    <3>1. k \in 0..k
        BY <1>1
    <3> QED BY <1>12, <2>2, <3>1
  <2>3. \A j \in 1..Len(expired) : all[g] # expired[j]
      BY <1>5
  <2>4. \A j \in 1..Len(used) : all[g] # used[j]
      BY <1>6
  <2>5. all[g] # note
      BY <1>7
  <2>6. g <= Len(old) \/ g = Len(old) + Len(expired) + 1
      BY <1>10, <2>3, <2>4, <2>5 DEF WrittenIs
  <2> QED BY <2>1, <2>2, <2>6
<1>18. Announces(all, h, k)
    BY <1>10, <1>16, <1>17 DEF Announces, WrittenIs, E
<1> QED BY <1>15, <1>18 DEF old

LEMMA OneTransaction ==
    ASSUME NEW h \in Histories, NEW k \in 1..Len(h), PoolIs(PoolSt(h, k - 1), h, k - 1)
    PROVE  /\ PoolIs(PoolSt(h, k), h, k)
           /\ PrefixOf(PoolSt(h, k - 1).events, PoolSt(h, k).events)
           /\ Len(PoolSt(h, k - 1).events) < Position(h, k)
           /\ PoolSt(h, k).events = Written(PoolSt(h, k - 1).events, ExpiredBy(PoolSt(h, k - 1)),
                                            Accepts(h, k), SpentBy(h[k]), NoteCreated(h[k], k - 1))
<1> DEFINE s == PoolSt(h, k - 1)
           t == PoolSt(h, k)
           c == h[k]
           filled == InsertMerkleLeaf(c, k - 1, s.filled).filled
<1>1. t = RecordCommitmentRoot(s, c)
    BY PoolSteps
<1>2. /\ s.leaves \in Seq(Commitments) /\ Len(s.leaves) = k - 1
      /\ FilledFor(s.filled, Cut(h, k - 1), k - 1)
      /\ RootsAre(s.roots, h, k - 1)
      /\ Announces(s.events, h, k - 1)
    BY DEF PoolIs
<1>3. /\ OneMore(Cut(h, k - 1), Cut(h, k), k - 1)
      /\ c = NodeAt(Cut(h, k), k - 1, ZERO)
      /\ k - 1 \in Nat /\ k - 1 < Capacity /\ (k - 1) + 1 = k /\ c \in Commitments
    BY CutSteps
<1> HIDE DEF c
<1>4. /\ InsertMerkleLeaf(c, k - 1, s.filled).current = Root(h, k)
      /\ FilledFor(filled, Cut(h, k), k)
  <2>1. /\ InsertMerkleLeaf(c, k - 1, s.filled).current = TreeRoot(Cut(h, k))
        /\ FilledFor(filled, Cut(h, k), (k - 1) + 1)
      BY <1>2, <1>3, PoolInserts
  <2> QED BY <1>3, <2>1 DEF Root
<1> HIDE DEF s, t
<1> DEFINE all == Written(s.events, ExpiredBy(s), Accepts(h, k), SpentBy(c), NoteCreated(c, k - 1))
<1>5. Last(s.roots) = Root(h, k - 1)
    BY <1>2, RootsGrow
<1>6. k # 0
    BY <1>3
<1>7. Accepts(h, k) = RootAccepted(Root(h, k), Root(h, k - 1), c)
    BY <1>6 DEF Accepts, c
<1>8. /\ t.leaves = Append(s.leaves, c) /\ t.filled = filled
      /\ t.roots = Append(s.roots, Root(h, k)) /\ t.events = all
    BY <1>1, <1>2, <1>4, <1>5, <1>7 DEF RecordCommitmentRoot, ExpiredBy, SpentBy, Written
<1>9. RootsAre(t.roots, h, k)
    BY <1>2, <1>8, RootsGrow
<1>10. /\ Announces(t.events, h, k)
       /\ PrefixOf(s.events, t.events)
       /\ Len(s.events) < Position(h, k)
    BY <1>8, LogGrows DEF s, c
<1>11. FilledFor(t.filled, Cut(h, k), k)
    BY <1>4, <1>8
<1>12. t.leaves \in Seq(Commitments) /\ Len(t.leaves) = k
    BY <1>2, <1>3, <1>8
<1>13. PoolSt(h, k - 1) = s /\ PoolSt(h, k) = t
    BY DEF s, t
<1>14. t.events = Written(s.events, ExpiredBy(s), Accepts(h, k), SpentBy(h[k]), NoteCreated(h[k], k - 1))
    BY <1>8 DEF c
<1> QED BY <1>9, <1>10, <1>11, <1>12, <1>13, <1>14 DEF PoolIs

LEMMA PoolAlong ==
    ASSUME NEW h \in Histories
    PROVE  \A k \in 0..Len(h) : PoolIs(PoolSt(h, k), h, k)
<1> DEFINE Bad == {k \in 0..Len(h) : ~PoolIs(PoolSt(h, k), h, k)}
<1>1. Len(h) \in Nat
    BY HistoriesAre
<1>2. 0 \notin Bad
    BY NewPoolIs, PoolSteps
<1>3. ASSUME NEW k \in 0..(Len(h) - 1), k \notin Bad PROVE k + 1 \notin Bad
  <2>1. k \in 0..Len(h) /\ k + 1 \in 1..Len(h) /\ (k + 1) - 1 = k
      BY <1>1
  <2>2. PoolIs(PoolSt(h, (k + 1) - 1), h, (k + 1) - 1)
      BY <1>3, <2>1
  <2>3. PoolIs(PoolSt(h, k + 1), h, k + 1)
      BY <2>1, <2>2, OneTransaction
  <2> QED BY <2>3
<1>4. Bad \in SUBSET (0..Len(h))
    OBVIOUS
<1> HIDE DEF Bad
<1>5. Bad = {}
    BY <1>1, <1>2, <1>3, <1>4, NoBadNumber
<1> QED BY <1>5 DEF Bad

LEMMA PrefixTwice ==
    ASSUME NEW T, NEW a \in Seq(T), NEW b \in Seq(T), NEW c \in Seq(T), PrefixOf(a, b), PrefixOf(b, c)
    PROVE  PrefixOf(a, c)
BY DEF PrefixOf

(* The log only grows. *)
LEMMA LogOrder ==
    ASSUME NEW h \in Histories, NEW m \in 0..Len(h), NEW k \in m..Len(h)
    PROVE  PrefixOf(PoolSt(h, m).events, PoolSt(h, k).events)
<1> DEFINE Log(j) == PoolSt(h, j).events
           E == EventsOf(h)
           Bad == {j \in 0..k : j >= m /\ ~PrefixOf(Log(m), Log(j))}
<1>1. Len(h) \in Nat /\ m \in Nat /\ k \in Nat /\ m <= k /\ k <= Len(h)
    BY HistoriesAre
<1>2. \A j \in 0..Len(h) : Log(j) \in Seq(E)
    BY PoolAlong DEF PoolIs, Announces
<1>3. \A j \in 1..Len(h) : PrefixOf(Log(j - 1), Log(j))
  <2> TAKE j \in 1..Len(h)
  <2>1. j - 1 \in 0..Len(h)
      BY <1>1
  <2> QED BY <2>1, PoolAlong, OneTransaction
<1>4. PrefixOf(Log(m), Log(m))
    BY <1>2 DEF PrefixOf
<1> HIDE DEF Log, E
<1>5. 0 \notin Bad
    BY <1>1, <1>4
<1>6. ASSUME NEW j \in 0..(k - 1), j \notin Bad PROVE j + 1 \notin Bad
  <2>1. j \in 0..k /\ j \in 0..Len(h) /\ j + 1 \in 1..Len(h) /\ j + 1 \in 0..Len(h) /\ (j + 1) - 1 = j
      BY <1>1
  <2>2. CASE j >= m
    <3>1. PrefixOf(Log(m), Log(j)) /\ PrefixOf(Log(j), Log(j + 1))
        BY <1>3, <1>6, <2>1, <2>2
    <3>2. Log(m) \in Seq(E) /\ Log(j) \in Seq(E) /\ Log(j + 1) \in Seq(E)
        BY <1>2, <2>1
    <3> QED BY <3>1, <3>2, PrefixTwice
  <2>3. CASE j + 1 = m
      BY <1>4, <2>3
  <2>4. j + 1 >= m => j >= m \/ j + 1 = m
      BY <1>1
  <2> QED BY <2>2, <2>3, <2>4
<1>7. Bad \in SUBSET (0..k)
    OBVIOUS
<1>8. k \in 0..k /\ k >= m
    BY <1>1
<1> HIDE DEF Bad
<1>9. Bad = {}
    BY <1>1, <1>5, <1>6, <1>7, NoBadNumber
<1>10. PrefixOf(Log(m), Log(k))
    BY <1>8, <1>9 DEF Bad
<1> QED BY <1>10 DEF Log

LEMMA PositionOrder ==
    ASSUME NEW h \in Histories, NEW m \in 0..Len(h), NEW k \in 0..Len(h), m < k
    PROVE  Position(h, m) < Position(h, k)
<1>1. Len(h) \in Nat /\ k \in 1..Len(h) /\ k - 1 \in 0..Len(h) /\ k - 1 \in m..Len(h)
    BY HistoriesAre
<1>2. Position(h, m) \in 1..Len(PoolSt(h, m).events) /\ PoolSt(h, m).events \in Seq(EventsOf(h))
  <2>1. m \in 0..m
      OBVIOUS
  <2>2. Announces(PoolSt(h, m).events, h, m)
      BY PoolAlong DEF PoolIs
  <2> QED BY <2>1, <2>2 DEF Announces
<1>3. Len(PoolSt(h, m).events) <= Len(PoolSt(h, k - 1).events)
    BY <1>1, LogOrder DEF PrefixOf
<1>4. Len(PoolSt(h, k - 1).events) < Position(h, k)
    BY <1>1, PoolAlong, OneTransaction
<1>5. PoolSt(h, k - 1).events \in Seq(EventsOf(h))
    BY <1>1, PoolAlong DEF PoolIs, Announces
<1>6. Position(h, k) \in Nat
    BY PoolAlong DEF PoolIs, Announces
<1>7. Len(PoolSt(h, m).events) \in Nat /\ Len(PoolSt(h, k - 1).events) \in Nat
    BY <1>2, <1>5
<1> QED BY <1>2, <1>3, <1>4, <1>6, <1>7

LEMMA RootsOfHistory ==
    ASSUME NEW h \in Histories
    PROVE  RootsOf(h) = RootsUpto(h, Len(h))
<1> DEFINE n == Len(h)
           kept == PoolSt(h, n).roots
<1>1. n \in Nat /\ n \in 0..n
    BY HistoriesAre
<1>2. RootsAre(kept, h, n)
    BY <1>1, PoolAlong DEF PoolIs
<1>3. RootsOf(h) = {kept[i] : i \in DOMAIN kept}
    BY PoolSteps DEF RootsOf, ToSet
<1> HIDE DEF kept, n
<1>4. DOMAIN kept = 1..(n + 1) /\ \A i \in 1..(n + 1) : i - 1 \in 0..n /\ (i - 1) + 1 = i
    BY <1>1, <1>2 DEF RootsAre
<1>5. \A j \in 0..n : j + 1 \in DOMAIN kept /\ kept[j + 1] = Root(h, j)
    BY <1>1, <1>2, <1>4 DEF RootsAre
<1>6. \A i \in DOMAIN kept : i - 1 \in 0..n /\ kept[i] = Root(h, i - 1)
    BY <1>4, <1>5
<1>7. ASSUME NEW x PROVE x \in RootsOf(h) <=> x \in RootsUpto(h, n)
    BY <1>3, <1>5, <1>6 DEF RootsUpto
<1> QED BY <1>7 DEF n

-----------------------------------------------------------------------------
(* Blocks and their logs.                                                  *)

(* A chain whose leaves the tree has room for; its first block is empty.   *)
Chains ==
    {bs \in Seq(Seq(Commitments)) :
        Len(bs) >= 1 /\ bs[1] = << >> /\ Upto(bs, Len(bs)) \in Histories}

All(bs) == Upto(bs, Len(bs))

(* The pool's log when block n ends, and its length. *)
LogAt(bs, n) == PoolSt(All(bs), Len(Upto(bs, n))).events
EndOf(bs, n) == IF n = 0 THEN 0 ELSE Len(LogAt(bs, n))

LEMMA ChainPrefix ==
    ASSUME NEW bs \in Chains, NEW n \in 0..Len(bs)
    PROVE  /\ Upto(bs, n) \in Histories /\ All(bs) \in Histories
           /\ PrefixOf(Upto(bs, n), All(bs))
           /\ Len(Upto(bs, n)) \in 0..Len(All(bs))
           /\ PoolAfter[Upto(bs, n)] = PoolSt(All(bs), Len(Upto(bs, n)))
<1>1. bs \in Seq(Seq(Commitments)) /\ All(bs) \in Histories
    BY DEF Chains, All
<1>2. Len(bs) \in 0..Len(bs) /\ n \in 0..Len(bs)
    BY <1>1
<1>3. PrefixOf(Upto(bs, n), All(bs)) /\ Upto(bs, n) \in Seq(Commitments)
    BY <1>1, <1>2, UptoOrder, UptoSteps DEF All
<1>4. All(bs) \in Seq(Commitments) /\ Len(All(bs)) <= Capacity /\ Capacity \in Nat
    BY <1>1, HistoriesAre, DepthAssumption, PowerPositive DEF Capacity
<1>5. /\ Len(Upto(bs, n)) <= Len(All(bs)) /\ Len(Upto(bs, n)) \in Nat /\ Len(All(bs)) \in Nat
      /\ Len(Upto(bs, n)) <= Capacity
    BY <1>3, <1>4 DEF PrefixOf
<1>6. Upto(bs, n) \in Histories
    BY <1>3, <1>5, HistoriesAre
<1>7. PoolAfter[Upto(bs, n)] = PoolSt(Upto(bs, n), Len(Upto(bs, n)))
    BY <1>6, PoolSteps
<1>8. PoolSt(Upto(bs, n), Len(Upto(bs, n))) = PoolSt(All(bs), Len(Upto(bs, n)))
  <2>1. Len(Upto(bs, n)) \in 0..Len(Upto(bs, n))
      BY <1>5
  <2> QED BY <1>1, <1>3, <1>6, <2>1, PoolLocal
<1> QED BY <1>1, <1>3, <1>5, <1>6, <1>7, <1>8

LEMMA LogAtIs ==
    ASSUME NEW bs \in Chains, NEW n \in 0..Len(bs)
    PROVE  /\ Announces(LogAt(bs, n), All(bs), Len(Upto(bs, n)))
           /\ LogAt(bs, n) \in Seq(EventsOf(All(bs)))
           /\ Len(LogAt(bs, n)) \in Nat
<1>1. Announces(LogAt(bs, n), All(bs), Len(Upto(bs, n)))
    BY ChainPrefix, PoolAlong DEF PoolIs, LogAt
<1>2. LogAt(bs, n) \in Seq(EventsOf(All(bs)))
    BY <1>1 DEF Announces
<1>3. Len(LogAt(bs, n)) \in Nat
    BY <1>2
<1> QED BY <1>1, <1>2, <1>3

LEMMA LogAtOrder ==
    ASSUME NEW bs \in Chains, NEW m \in 0..Len(bs), NEW n \in m..Len(bs)
    PROVE  PrefixOf(LogAt(bs, m), LogAt(bs, n))
<1> DEFINE h == All(bs)
           a == Len(Upto(bs, m))
           b == Len(Upto(bs, n))
<1>1. bs \in Seq(Seq(Commitments)) /\ Len(bs) \in Nat
    BY DEF Chains
<1>2. n \in 0..Len(bs) /\ m \in 0..n
    BY <1>1
<1>3. h \in Histories /\ a \in 0..Len(h) /\ b \in 0..Len(h)
    BY <1>2, ChainPrefix
<1>4. a <= b
    BY <1>1, <1>2, UptoOrder DEF PrefixOf
<1>5. Len(h) \in Nat
    BY <1>3, HistoriesAre
<1> HIDE DEF h, a, b
<1>6. b \in a..Len(h)
    BY <1>3, <1>4, <1>5
<1>7. PrefixOf(PoolSt(h, a).events, PoolSt(h, b).events)
    BY <1>3, <1>6, LogOrder
<1> QED BY <1>7 DEF h, a, b, LogAt

(* The events of a block as the chain's log sees them. *)
EventsOfBlock(bs, n) ==
    IF n = 1 THEN NewPool.events
    ELSE LET before == PoolAfter[FlattenSeq(SubSeq(bs, 1, n - 1))].events
             after == PoolAfter[FlattenSeq(SubSeq(bs, 1, n))].events
         IN  SubSeq(after, Len(before) + 1, Len(after))

LEMMA CutOut ==
    ASSUME NEW T, NEW after \in Seq(T), NEW m \in Nat, m <= Len(after)
    PROVE  LET s == SubSeq(after, m + 1, Len(after))
           IN  /\ s \in Seq(T) /\ Len(s) = Len(after) - m
               /\ \A i \in 1..(Len(after) - m) : s[i] = after[m + i]
OBVIOUS

LEMMA BlockEvents ==
    ASSUME NEW bs \in Chains, NEW n \in 1..Len(bs)
    PROVE  /\ EndOf(bs, n - 1) \in Nat /\ EndOf(bs, n) \in Nat /\ EndOf(bs, n - 1) <= EndOf(bs, n)
           /\ DOMAIN EventsOfBlock(bs, n) = 1..(EndOf(bs, n) - EndOf(bs, n - 1))
           /\ \A i \in 1..(EndOf(bs, n) - EndOf(bs, n - 1)) :
                 EventsOfBlock(bs, n)[i] = LogAt(bs, n)[EndOf(bs, n - 1) + i]
           /\ EventsOfBlock(bs, n) \in Seq(EventsOf(All(bs)))
<1> DEFINE h == All(bs)
           E == EventsOf(h)
<1>1. bs \in Seq(Seq(Commitments)) /\ Len(bs) \in Nat /\ bs[1] = << >>
    BY DEF Chains
<1>2. n \in 0..Len(bs) /\ n - 1 \in 0..Len(bs) /\ n \in (n - 1)..Len(bs) /\ n # 0
    BY <1>1
<1>3. LogAt(bs, n) \in Seq(E) /\ Len(LogAt(bs, n)) \in Nat /\ Len(LogAt(bs, n - 1)) \in Nat
    BY <1>2, LogAtIs
<1>4. Len(LogAt(bs, n - 1)) <= Len(LogAt(bs, n))
    BY <1>2, LogAtOrder DEF PrefixOf
<1>5. CASE n = 1
  <2>1. Upto(bs, 1) = << >>
    <3>1. Upto(bs, 1) = Upto(bs, 1 - 1) \o bs[1] /\ Upto(bs, 0) = << >>
        BY <1>1, <1>2, <1>5, UptoSteps
    <3> QED BY <1>1, <3>1
  <2>2. Len(Upto(bs, 1)) = 0
      BY <2>1
  <2>3. LogAt(bs, 1) = NewPool.events
      BY <1>2, <2>2, ChainPrefix, PoolSteps DEF LogAt
  <2>4. EventsOfBlock(bs, n) = LogAt(bs, n) /\ EndOf(bs, n - 1) = 0 /\ EndOf(bs, n) = Len(LogAt(bs, n))
      BY <1>2, <1>5, <2>3 DEF EventsOfBlock, EndOf
  <2> DEFINE log == LogAt(bs, n)
  <2>5. log \in Seq(E) /\ Len(log) \in Nat /\ EventsOfBlock(bs, n) = log
      BY <1>3, <2>4
  <2> HIDE DEF log, E
  <2>6. DOMAIN log = 1..(Len(log) - 0) /\ \A i \in 1..(Len(log) - 0) : log[i] = log[0 + i]
      BY <2>5
  <2> QED BY <2>4, <2>5, <2>6 DEF log, E
<1>6. CASE n # 1
  <2>1. EndOf(bs, n - 1) = Len(LogAt(bs, n - 1)) /\ EndOf(bs, n) = Len(LogAt(bs, n))
      BY <1>2, <1>6 DEF EndOf
  <2>2. /\ PoolAfter[FlattenSeq(SubSeq(bs, 1, n))].events = LogAt(bs, n)
        /\ PoolAfter[FlattenSeq(SubSeq(bs, 1, n - 1))].events = LogAt(bs, n - 1)
      BY <1>1, <1>2, FlattenPrefix, ChainPrefix DEF LogAt
  <2>3. EventsOfBlock(bs, n) = SubSeq(LogAt(bs, n), Len(LogAt(bs, n - 1)) + 1, Len(LogAt(bs, n)))
      BY <1>6, <2>2 DEF EventsOfBlock
  <2> DEFINE s == EventsOfBlock(bs, n)
             after == LogAt(bs, n)
             m == Len(LogAt(bs, n - 1))
  <2>4. s = SubSeq(after, m + 1, Len(after)) /\ after \in Seq(E) /\ m \in Nat /\ m <= Len(after) /\ Len(after) \in Nat
      BY <1>3, <1>4, <2>3
  <2>5. EndOf(bs, n - 1) = m /\ EndOf(bs, n) = Len(after)
      BY <2>1
  <2> HIDE DEF s, after, m, E
  <2>6. /\ s \in Seq(E) /\ Len(s) = Len(after) - m
        /\ \A i \in 1..(Len(after) - m) : s[i] = after[m + i]
      BY <2>4, CutOut
  <2>7. DOMAIN s = 1..(Len(after) - m)
      BY <2>6
  <2>8. /\ EndOf(bs, n - 1) \in Nat /\ EndOf(bs, n) \in Nat /\ EndOf(bs, n - 1) <= EndOf(bs, n)
      BY <2>4, <2>5
  <2> QED BY <2>5, <2>6, <2>7, <2>8 DEF s, after, E
<1> QED BY <1>5, <1>6

LEMMA BlockEventsLocal ==
    ASSUME NEW bs \in Chains, NEW cs \in Chains, NEW n \in 1..Len(bs), n <= Len(cs),
           \A k \in 1..n : bs[k] = cs[k]
    PROVE  EventsOfBlock(bs, n) = EventsOfBlock(cs, n)
<1>1. /\ bs \in Seq(Seq(Commitments)) /\ Len(bs) \in Nat
      /\ cs \in Seq(Seq(Commitments)) /\ Len(cs) \in Nat
    BY DEF Chains
<1>2. n \in 0..Len(bs) /\ n - 1 \in 0..Len(bs) /\ n \in 0..Len(cs) /\ n - 1 \in 0..Len(cs) /\ n - 1 <= Len(cs)
    BY <1>1
<1>3. Upto(bs, n) = Upto(cs, n)
    BY <1>1, <1>2, UptoLocal
<1>4. Upto(bs, n - 1) = Upto(cs, n - 1)
  <2>1. \A k \in 1..(n - 1) : bs[k] = cs[k]
      OBVIOUS
  <2> QED BY <1>1, <1>2, <2>1, UptoLocal
<1>5. /\ FlattenSeq(SubSeq(bs, 1, n)) = FlattenSeq(SubSeq(cs, 1, n))
      /\ FlattenSeq(SubSeq(bs, 1, n - 1)) = FlattenSeq(SubSeq(cs, 1, n - 1))
    BY <1>1, <1>2, <1>3, <1>4, FlattenPrefix
<1> QED BY <1>5 DEF EventsOfBlock

(* The logs of a block, and where each stands in the log of the pool. *)
Entries(bs, n) ==
    {[blockNumber |-> n, logIndex |-> k, log |-> EventsOfBlock(bs, n)[k]] :
        k \in DOMAIN EventsOfBlock(bs, n)}

PlaceOf(bs, e) == EndOf(bs, e.blockNumber - 1) + e.logIndex

LEMMA EntryIs ==
    ASSUME NEW bs \in Chains, NEW n \in 1..Len(bs), NEW e \in Entries(bs, n)
    PROVE  /\ e.blockNumber = n
           /\ e.logIndex \in 1..(EndOf(bs, n) - EndOf(bs, n - 1))
           /\ e = [blockNumber |-> n, logIndex |-> e.logIndex, log |-> e.log]
           /\ PlaceOf(bs, e) \in 1..Len(LogAt(bs, n))
           /\ e.log = LogAt(bs, n)[PlaceOf(bs, e)]
           /\ e.log.event = "RootAccepted" =>
                 \E j \in 0..Len(Upto(bs, n)) :
                    PlaceOf(bs, e) = Position(All(bs), j) /\ e.log = Accepts(All(bs), j)
<1> DEFINE a == EndOf(bs, n - 1)
           b == EndOf(bs, n)
<1>1. PICK k \in DOMAIN EventsOfBlock(bs, n) :
          e = [blockNumber |-> n, logIndex |-> k, log |-> EventsOfBlock(bs, n)[k]]
    BY DEF Entries
<1>2. e.blockNumber = n /\ e.logIndex = k /\ e.log = EventsOfBlock(bs, n)[k]
    BY <1>1
<1>3. a \in Nat /\ b \in Nat /\ a <= b /\ k \in 1..(b - a) /\ EventsOfBlock(bs, n)[k] = LogAt(bs, n)[a + k]
    BY BlockEvents
<1>4. PlaceOf(bs, e) = a + k
    BY <1>2 DEF PlaceOf
<1>5. n \in 0..Len(bs) /\ n # 0
    BY DEF Chains
<1>6. b = Len(LogAt(bs, n))
    BY <1>5 DEF EndOf
<1> HIDE DEF a, b
<1>7. a + k \in 1..b
    BY <1>3
<1>8. Announces(LogAt(bs, n), All(bs), Len(Upto(bs, n)))
    BY <1>5, LogAtIs
<1>9. ASSUME e.log.event = "RootAccepted"
      PROVE  \E j \in 0..Len(Upto(bs, n)) :
                PlaceOf(bs, e) = Position(All(bs), j) /\ e.log = Accepts(All(bs), j)
  <2>1. LogAt(bs, n)[a + k].event = "RootAccepted" /\ a + k \in 1..Len(LogAt(bs, n))
      BY <1>2, <1>3, <1>6, <1>7, <1>9
  <2>2. PICK j \in 0..Len(Upto(bs, n)) : a + k = Position(All(bs), j)
      BY <1>8, <2>1 DEF Announces
  <2>3. LogAt(bs, n)[Position(All(bs), j)] = Accepts(All(bs), j)
      BY <1>8 DEF Announces
  <2> QED BY <1>2, <1>3, <1>4, <2>2, <2>3
<1>10. e = [blockNumber |-> n, logIndex |-> e.logIndex, log |-> e.log]
    BY <1>1, <1>2
<1> QED BY <1>2, <1>3, <1>4, <1>6, <1>7, <1>9, <1>10 DEF a, b

LEMMA ImageFinite ==
    ASSUME NEW D, IsFiniteSet(D), NEW f, DOMAIN f = D
    PROVE  IsFiniteSet({f[x] : x \in D})
<1> DEFINE T == {f[x] : x \in D}
           g == [x \in D |-> f[x]]
<1>1. g \in [D -> T] /\ \A t \in T : \E x \in D : g[x] = t
    OBVIOUS
<1> HIDE DEF g, T
<1>2. g \in Surjection(D, T)
    BY <1>1 DEF Surjection
<1>3. IsFiniteSet(T)
    BY <1>2, FS_Surjection
<1> QED BY <1>3 DEF T

LEMMA EntriesFinite ==
    ASSUME NEW bs \in Chains, NEW n \in 1..Len(bs)
    PROVE  IsFiniteSet(Entries(bs, n))
<1> DEFINE D == DOMAIN EventsOfBlock(bs, n)
           f == [k \in D |-> [blockNumber |-> n, logIndex |-> k, log |-> EventsOfBlock(bs, n)[k]]]
<1>1. D = 1..(EndOf(bs, n) - EndOf(bs, n - 1)) /\ EndOf(bs, n) - EndOf(bs, n - 1) \in Nat
    BY BlockEvents
<1>2. IsFiniteSet(D)
    BY <1>1, FS_Interval
<1>3. Entries(bs, n) = {f[k] : k \in D} /\ DOMAIN f = D
    BY DEF Entries
<1> HIDE DEF f, D
<1>4. IsFiniteSet({f[k] : k \in D})
    BY <1>2, <1>3, ImageFinite
<1> QED BY <1>3, <1>4
-----------------------------------------------------------------------------
(* The members of a finite set in a strict total order have each rank once. *)
Under(S, R, e) == {d \in S : <<d, e>> \in R}

Orders(S, R) ==
    /\ \A a \in S : <<a, a>> \notin R
    /\ \A a, b, c \in S : <<a, b>> \in R /\ <<b, c>> \in R => <<a, c>> \in R
    /\ \A a, b \in S : a = b \/ <<a, b>> \in R \/ <<b, a>> \in R

LEMMA LowerRank ==
    ASSUME NEW S, IsFiniteSet(S), NEW R, Orders(S, R), NEW a \in S, NEW b \in S, <<a, b>> \in R
    PROVE  Cardinality(Under(S, R, a)) < Cardinality(Under(S, R, b))
<1> DEFINE A == Under(S, R, a)
           B == Under(S, R, b)
<1>1. A \subseteq B /\ a \in B /\ a \notin A /\ B \subseteq S
    BY DEF Under, Orders
<1>2. IsFiniteSet(B)
    BY <1>1, FS_Subset
<1> HIDE DEF A, B
<1>3. A \subseteq B \ {a}
    BY <1>1
<1>4. IsFiniteSet(B \ {a}) /\ Cardinality(B \ {a}) = Cardinality(B) - 1
    BY <1>1, <1>2, FS_RemoveElement
<1>5. IsFiniteSet(A) /\ Cardinality(A) <= Cardinality(B \ {a})
    BY <1>3, <1>4, FS_Subset
<1>6. Cardinality(A) \in Nat /\ Cardinality(B) \in Nat
    BY <1>2, <1>5, FS_CardinalityType
<1>7. Cardinality(A) < Cardinality(B)
    BY <1>4, <1>5, <1>6
<1> QED BY <1>7 DEF A, B

LEMMA RankBelow ==
    ASSUME NEW S, IsFiniteSet(S), NEW R, Orders(S, R), NEW e \in S
    PROVE  Cardinality(Under(S, R, e)) \in 0..(Cardinality(S) - 1)
<1> DEFINE n == Cardinality(S)
           U == Under(S, R, e)
<1>1. n \in Nat
    BY FS_CardinalityType
<1>2. U \subseteq S \ {e}
    BY DEF Under, Orders
<1>3. IsFiniteSet(S \ {e}) /\ Cardinality(S \ {e}) = n - 1
    BY FS_RemoveElement
<1> HIDE DEF U, n
<1>4. IsFiniteSet(U) /\ Cardinality(U) <= Cardinality(S \ {e})
    BY <1>2, <1>3, FS_Subset
<1>5. Cardinality(U) \in Nat
    BY <1>4, FS_CardinalityType
<1>6. Cardinality(U) \in 0..(n - 1)
    BY <1>1, <1>3, <1>4, <1>5
<1> QED BY <1>6 DEF U, n

LEMMA EachRank ==
    ASSUME NEW S, IsFiniteSet(S), NEW R, Orders(S, R), NEW k \in 1..Cardinality(S)
    PROVE  \E e \in S : Cardinality(Under(S, R, e)) = k - 1
<1> DEFINE n == Cardinality(S)
           f == [e \in S |-> Cardinality(Under(S, R, e)) + 1]
<1>1. n \in Nat
    BY FS_CardinalityType
<1>2. \A e \in S : Cardinality(Under(S, R, e)) \in 0..(n - 1)
    BY RankBelow
<1>3. f \in [S -> 1..n]
  <2>1. ASSUME NEW e \in S PROVE f[e] \in 1..n
    <3>1. Cardinality(Under(S, R, e)) \in 0..(n - 1)
        BY <1>2
    <3> HIDE DEF n
    <3> QED BY <1>1, <3>1
  <2> QED BY <2>1
<1>4. \A a, b \in S : f[a] = f[b] => a = b
  <2> SUFFICES ASSUME NEW a \in S, NEW b \in S, a # b PROVE f[a] # f[b]
      OBVIOUS
  <2>1. <<a, b>> \in R \/ <<b, a>> \in R
      BY DEF Orders
  <2>2. /\ Cardinality(Under(S, R, a)) < Cardinality(Under(S, R, b))
           \/ Cardinality(Under(S, R, b)) < Cardinality(Under(S, R, a))
      BY <2>1, LowerRank
  <2>3. Cardinality(Under(S, R, a)) \in Nat /\ Cardinality(Under(S, R, b)) \in Nat
      BY <1>1, <1>2
  <2> HIDE DEF n
  <2> QED BY <2>2, <2>3
<1> HIDE DEF f
<1>5. f \in Injection(S, 1..n)
    BY <1>3, <1>4 DEF Injection, IsInjective
<1>6. IsFiniteSet(1..n) /\ Cardinality(1..n) = n
    BY <1>1, FS_Interval
<1>7. f \in Surjection(S, 1..n)
    BY <1>5, <1>6, FS_Injection
<1>8. PICK e \in S : f[e] = k
    BY <1>7 DEF Surjection
<1>9. Cardinality(Under(S, R, e)) + 1 = k /\ Cardinality(Under(S, R, e)) \in Nat
    BY <1>1, <1>2, <1>8 DEF f
<1>10. Cardinality(Under(S, R, e)) = k - 1
    BY <1>9
<1> QED BY <1>10

(* Sorted logs: each fetched log stands at its rank. *)
Order(entries) == {p \in entries \X entries : Before(p[1], p[2])}

Placed(entries) == \A e \in entries : e.blockNumber \in Nat /\ e.logIndex \in Nat

LEMMA OrderOrders ==
    ASSUME NEW entries, Placed(entries), ~Ambiguous(entries)
    PROVE  Orders(entries, Order(entries))
<1>1. \A a, b \in entries : <<a, b>> \in Order(entries) <=> Before(a, b)
    BY DEF Order
<1>2. \A a \in entries : ~Before(a, a)
    BY DEF Before, Placed
<1>3. \A a, b, c \in entries : Before(a, b) /\ Before(b, c) => Before(a, c)
    BY DEF Before, Placed
<1>4. \A a, b \in entries : a = b \/ Before(a, b) \/ Before(b, a)
  <2> SUFFICES ASSUME NEW a \in entries, NEW b \in entries, a # b PROVE Before(a, b) \/ Before(b, a)
      OBVIOUS
  <2>1. a.logIndex # b.logIndex \/ a.blockNumber # b.blockNumber
      BY DEF Ambiguous
  <2> QED BY <2>1 DEF Before, Placed
<1> QED BY <1>1, <1>2, <1>3, <1>4 DEF Orders

LEMMA DecodedIs ==
    ASSUME NEW entries, IsFiniteSet(entries), Placed(entries), ~Ambiguous(entries)
    PROVE  /\ Cardinality(entries) \in Nat
           /\ Decoded(entries) \in Seq({e.log : e \in entries})
           /\ Len(Decoded(entries)) = Cardinality(entries)
           /\ \A k \in 1..Cardinality(entries) : \E e \in entries :
                 /\ Decoded(entries)[k] = e.log
                 /\ Cardinality(Under(entries, Order(entries), e)) = k - 1
<1> DEFINE n == Cardinality(entries)
           Ranked(k, e) == Cardinality({d \in entries : Before(d, e)}) = k - 1
           Pick(k) == CHOOSE e \in entries : Ranked(k, e)
           d0 == Decoded(entries)
<1>1. n \in Nat
    BY FS_CardinalityType
<1>2. \A e \in entries : Under(entries, Order(entries), e) = {d \in entries : Before(d, e)}
    BY DEF Under, Order
<1>3. ASSUME NEW k \in 1..n
      PROVE  Pick(k) \in entries /\ Cardinality(Under(entries, Order(entries), Pick(k))) = k - 1
  <2>1. PICK e \in entries : Cardinality(Under(entries, Order(entries), e)) = k - 1
      BY OrderOrders, EachRank
  <2>2. Ranked(k, e)
      BY <1>2, <2>1
  <2> HIDE DEF Ranked
  <2>3. Pick(k) \in entries /\ Ranked(k, Pick(k))
      BY <2>2
  <2> QED BY <1>2, <2>3 DEF Ranked
<1>4. d0 = [k \in 1..n |-> Pick(k).log]
    BY DEF Decoded
<1> HIDE DEF Pick, d0, n
<1>5. \A k \in 1..n : d0[k] = Pick(k).log /\ Pick(k).log \in {e.log : e \in entries}
    BY <1>3, <1>4
<1> DEFINE T == {e.log : e \in entries}
<1> HIDE DEF T
<1>6. d0 \in [1..n -> T]
    BY <1>4, <1>5 DEF T
<1>7. d0 \in Seq(T) /\ Len(d0) = n
    BY <1>1, <1>6
<1> QED BY <1>1, <1>3, <1>5, <1>7 DEF n, d0, T

-----------------------------------------------------------------------------
(* What the SDK replays.                                                   *)
ReplayStep(c, s, leaf) == ReplayInsertion(s, leaf)
Replays == INSTANCE FoldInduction WITH Op <- ReplayStep
PushStep(c, s, record) == PushLeaf(s, record)
Pushes == INSTANCE FoldInduction WITH Op <- PushStep

LEMMA ReplaysInduct == \A n \in Nat :
    /\ Replays!Inducts(n)
    /\ Pushes!Inducts(n)
BY NoBadNumber DEF Replays!Inducts, Pushes!Inducts

NewReplay == [count |-> 0, filled |-> InitialSubtrees, root |-> InitialRoot]

ReplayIs(s, h, k) ==
    s.count = k /\ FilledFor(s.filled, Cut(h, k), k) /\ s.root = Root(h, k)

LEMMA ReplayStart ==
    ASSUME NEW h \in Histories
    PROVE  ReplayIs(NewReplay, h, 0)
<1>1. DOMAIN Cut(h, 0) = {}
    BY DEF Cut
<1>2. Root(h, 0) = InitialRoot /\ FilledFor(InitialSubtrees, Cut(h, 0), 0)
    BY <1>1, EmptyTree DEF Root
<1> QED BY <1>2 DEF NewReplay, ReplayIs

LEMMA ReplayOne ==
    ASSUME NEW h \in Histories, NEW k \in 1..Len(h), NEW s, ReplayIs(s, h, k - 1)
    PROVE  ReplayIs(ReplayInsertion(s, h[k]), h, k)
<1> DEFINE inserted == InsertLeafAndComputeRoot(h[k], k - 1, s.filled)
<1>1. s.count = k - 1 /\ FilledFor(s.filled, Cut(h, k - 1), k - 1)
    BY DEF ReplayIs
<1>2. /\ OneMore(Cut(h, k - 1), Cut(h, k), k - 1)
      /\ h[k] = NodeAt(Cut(h, k), k - 1, ZERO)
      /\ k - 1 \in Nat /\ k - 1 < Capacity /\ (k - 1) + 1 = k
    BY CutSteps
<1>3. inserted.current = TreeRoot(Cut(h, k)) /\ FilledFor(inserted.filled, Cut(h, k), (k - 1) + 1)
    BY <1>1, <1>2, SdkInserts
<1> HIDE DEF inserted
<1>4. ReplayInsertion(s, h[k]) = [count |-> k, filled |-> inserted.filled, root |-> inserted.current]
    BY <1>1, <1>2 DEF ReplayInsertion, inserted
<1> QED BY <1>2, <1>3, <1>4 DEF ReplayIs, Root

LEMMA ComputedRootIs ==
    ASSUME NEW h \in Histories, h # << >>
    PROVE  ComputedRoot[h] = Root(h, Len(h))
<1> DEFINE n == Len(h)
<1>1. h \in Seq(Commitments) /\ n \in Nat /\ DOMAIN h = 1..n
    BY HistoriesAre
<1>2. PICK st : Replays!Passes(st, 0, NewReplay, h, n) /\ Replays!Folded(0, NewReplay, h) = st[n]
    BY <1>1, Replays!FoldPasses, ReplaysInduct
<1>3. st[0] = NewReplay /\ \A k \in 1..n : st[k] = ReplayInsertion(st[k - 1], h[k])
    BY <1>2 DEF Replays!Passes, ReplayStep
<1>4. ComputedRoot[h] = FoldLeft(ReplayInsertion, NewReplay, h).root
    BY DEF ComputedRoot, NewReplay
<1>5. FoldLeft(ReplayInsertion, NewReplay, h) = Replays!Folded(0, NewReplay, h)
    BY DEF FoldLeft, MapThenFoldSet, Replays!Folded, Replays!Unfolds, Max, Replays!Largest, ReplayStep
<1> DEFINE Bad == {k \in 0..n : ~ReplayIs(st[k], h, k)}
<1>6. 0 \notin Bad
    BY <1>3, ReplayStart
<1>7. ASSUME NEW k \in 0..(n - 1), k \notin Bad PROVE k + 1 \notin Bad
  <2>1. k \in 0..n /\ k + 1 \in 1..n /\ (k + 1) - 1 = k
      BY <1>1
  <2>2. ReplayIs(st[k], h, k)
      BY <1>7, <2>1
  <2>3. ReplayIs(ReplayInsertion(st[k], h[k + 1]), h, k + 1)
      BY <2>1, <2>2, ReplayOne
  <2> QED BY <1>3, <2>1, <2>3
<1>8. Bad \in SUBSET (0..n) /\ n \in 0..n
    BY <1>1
<1> HIDE DEF Bad
<1>9. Bad = {}
    BY <1>1, <1>6, <1>7, <1>8, NoBadNumber
<1>10. ReplayIs(st[n], h, n)
    BY <1>8, <1>9 DEF Bad
<1> QED BY <1>2, <1>4, <1>5, <1>10 DEF ReplayIs

(* The records the client decodes. *)
Pushed(records, k) == (CHOOSE st : Pushes!Passes(st, 0, << >>, records, Len(records)))[k]

LEMMA PushedSteps ==
    ASSUME NEW T, NEW records \in Seq(T)
    PROVE  /\ Pushed(records, 0) = << >>
           /\ \A k \in 1..Len(records) : Pushed(records, k) = PushLeaf(Pushed(records, k - 1), records[k])
           /\ InsertedLeaves(records) = Pushed(records, Len(records))
<1> DEFINE n == Len(records)
           st == CHOOSE st : Pushes!Passes(st, 0, << >>, records, n)
<1>1. n \in Nat /\ DOMAIN records = 1..n /\ n \in 0..n
    OBVIOUS
<1>2. PICK su : Pushes!Passes(su, 0, << >>, records, n) /\ Pushes!Folded(0, << >>, records) = su[n]
    BY <1>1, Pushes!FoldPasses, ReplaysInduct
<1>3. Pushes!Passes(st, 0, << >>, records, n)
    BY <1>2
<1>4. st[0] = << >> /\ \A k \in 1..n : st[k] = PushLeaf(st[k - 1], records[k])
    BY <1>3 DEF Pushes!Passes, PushStep
<1> HIDE DEF st
<1>5. su[n] = st[n]
  <2>1. \A k \in 1..n : records[k] = records[k]
      OBVIOUS
  <2>2. \A k \in 0..n : su[k] = st[k]
      BY <1>1, <1>2, <1>3, <2>1, Pushes!PassesAgree, ReplaysInduct
  <2> QED BY <1>1, <2>2
<1>6. InsertedLeaves(records) = FoldLeft(PushLeaf, << >>, records)
    BY DEF InsertedLeaves
<1>7. FoldLeft(PushLeaf, << >>, records) = Pushes!Folded(0, << >>, records)
    BY DEF FoldLeft, MapThenFoldSet, Pushes!Folded, Pushes!Unfolds, Max, Pushes!Largest, PushStep
<1> QED BY <1>2, <1>4, <1>5, <1>6, <1>7 DEF Pushed, st

LEMMA PushedPrefix ==
    ASSUME NEW T, NEW records \in Seq(T), NEW k \in 0..Len(records)
    PROVE  InsertedLeaves(SubSeq(records, 1, k)) = Pushed(records, k)
<1> DEFINE few == SubSeq(records, 1, k)
           Bad == {j \in 0..k : Pushed(few, j) # Pushed(records, j)}
<1>1. few \in Seq(T) /\ Len(few) = k /\ k \in Nat /\ \A j \in 1..k : few[j] = records[j]
    OBVIOUS
<1> HIDE DEF few
<1>2. 0 \notin Bad
    BY <1>1, PushedSteps
<1>3. ASSUME NEW j \in 0..(k - 1), j \notin Bad PROVE j + 1 \notin Bad
  <2>1. j \in 0..k /\ j + 1 \in 1..k /\ j + 1 \in 1..Len(records) /\ (j + 1) - 1 = j
      OBVIOUS
  <2>2. /\ Pushed(few, j + 1) = PushLeaf(Pushed(few, (j + 1) - 1), few[j + 1])
        /\ Pushed(records, j + 1) = PushLeaf(Pushed(records, (j + 1) - 1), records[j + 1])
      BY <1>1, <2>1, PushedSteps
  <2> QED BY <1>1, <1>3, <2>1, <2>2
<1>4. Bad \in SUBSET (0..k) /\ k \in 0..k
    OBVIOUS
<1> HIDE DEF Bad
<1>5. Bad = {}
    BY <1>1, <1>2, <1>3, <1>4, NoBadNumber
<1>6. Pushed(few, k) = Pushed(records, k)
    BY <1>4, <1>5 DEF Bad
<1>7. InsertedLeaves(few) = Pushed(few, Len(few))
    BY <1>1, PushedSteps
<1> QED BY <1>1, <1>6, <1>7 DEF few
RecordsOK(records) ==
    \A k \in 1..Len(records) : records[k].insertedCommitment \in Commitments \cup {ZERO}

LEMMA AppendIn ==
    ASSUME NEW T, NEW s \in Seq(T), NEW x \in T
    PROVE  Append(s, x) \in Seq(T) /\ Len(Append(s, x)) = Len(s) + 1
OBVIOUS

LEMMA LastPush ==
    ASSUME NEW T, NEW records \in Seq(T), RecordsOK(records), NEW n \in 0..Len(records)
    PROVE  /\ Pushed(records, n) \in Seq(Commitments)
           /\ \/ Pushed(records, n) = << >>
              \/ \E j \in 1..n : /\ records[j].insertedCommitment # ZERO
                                 /\ Pushed(records, j) = Pushed(records, n)
<1> DEFINE P(k) == /\ Pushed(records, k) \in Seq(Commitments)
                   /\ \/ Pushed(records, k) = << >>
                      \/ \E j \in 1..k : /\ records[j].insertedCommitment # ZERO
                                         /\ Pushed(records, j) = Pushed(records, k)
           Bad == {k \in 0..n : ~P(k)}
<1>1. 0 \notin Bad
    BY PushedSteps, NothingIn
<1>2. ASSUME NEW k \in 0..(n - 1), k \notin Bad PROVE k + 1 \notin Bad
  <2>1. k \in 0..n /\ k + 1 \in 1..n /\ k + 1 \in 1..Len(records) /\ (k + 1) - 1 = k /\ k + 1 \in 1..(k + 1)
      OBVIOUS
  <2> DEFINE c == records[k + 1].insertedCommitment
  <2>2. Pushed(records, k + 1) = IF c = ZERO THEN Pushed(records, k) ELSE Append(Pushed(records, k), c)
    <3>1. Pushed(records, k + 1) = PushLeaf(Pushed(records, k), records[k + 1])
        BY <2>1, PushedSteps
    <3> QED BY <3>1 DEF PushLeaf
  <2>3. P(k)
      BY <1>2, <2>1
  <2>4. CASE c = ZERO
    <3>1. Pushed(records, k + 1) = Pushed(records, k)
        BY <2>2, <2>4
    <3>2. \A j \in 1..k : j \in 1..(k + 1)
        OBVIOUS
    <3> QED BY <2>3, <3>1, <3>2
  <2>5. CASE c # ZERO
    <3>1. c \in Commitments
        BY <2>1, <2>5 DEF RecordsOK
    <3>2. Pushed(records, k + 1) = Append(Pushed(records, k), c)
        BY <2>2, <2>5
    <3>3. Pushed(records, k + 1) \in Seq(Commitments)
        BY <2>3, <3>1, <3>2, AppendIn
    <3> QED BY <2>1, <2>5, <3>3
  <2> QED BY <2>4, <2>5
<1>3. Bad \in SUBSET (0..n) /\ n \in 0..n /\ n \in Nat
    OBVIOUS
<1> HIDE DEF Bad
<1>4. Bad = {}
    BY <1>1, <1>2, <1>3, NoBadNumber
<1> QED BY <1>3, <1>4 DEF Bad

LEMMA VerifiedHistory ==
    ASSUME NEW T, NEW records \in Seq(T), RecordsOK(records), VerifyRootAcceptedChain(records),
           InsertedLeaves(records) # << >>
    PROVE  /\ InsertedLeaves(records) \in Histories
           /\ \E k \in 1..Len(records) :
                 records[k].root = Root(InsertedLeaves(records), Len(InsertedLeaves(records)))
<1> DEFINE n == Len(records)
           h == InsertedLeaves(records)
<1>1. n \in Nat /\ n \in 0..n /\ DOMAIN records = 1..n
    OBVIOUS
<1>2. h = Pushed(records, n)
    BY PushedSteps
<1>3. PICK j \in 1..n : records[j].insertedCommitment # ZERO /\ Pushed(records, j) = h
    BY <1>1, <1>2, LastPush
<1>4. j \in 0..n
    OBVIOUS
<1>5. InsertedLeaves(SubSeq(records, 1, j)) = h
    BY <1>3, <1>4, PushedPrefix
<1>6. h \in Seq(Commitments)
    BY <1>1, <1>2, LastPush
<1> HIDE DEF h, n
<1>7. Len(h) <= Capacity /\ records[j].root = ComputedRoot[h]
    BY <1>1, <1>3, <1>5 DEF VerifyRootAcceptedChain, LinksTo
<1>8. h \in Histories
    BY <1>6, <1>7, HistoriesAre
<1>9. h # << >>
    BY DEF h
<1>10. records[j].root = Root(h, Len(h))
    BY <1>7, <1>8, <1>9, ComputedRootIs
<1> QED BY <1>8, <1>10 DEF h, n

-----------------------------------------------------------------------------
(* The chain grows at its head and is replaced only near it.               *)
ChainInv ==
    /\ blocks \in Chains
    /\ All(blocks) \in everLeaves
    /\ everLeaves \subseteq Histories

Moved(bs, cs) ==
    /\ Len(bs) <= Len(cs)
    /\ \A k \in 1..Len(bs) : k <= Len(bs) - MaxReorgDepth => cs[k] = bs[k]

LEMMA ShortSeq ==
    ASSUME NEW s \in SeqOf(Commitments, MaxBlockTxs)
    PROVE  s \in Seq(Commitments)
<1>1. PICK m \in 0..MaxBlockTxs : s \in [1..m -> Commitments]
    BY DEF SeqOf
<1>2. m \in Nat
    BY ChainAssumption
<1> QED BY <1>1, <1>2

LEMMA MineMoves ==
    ASSUME ChainInv, Mine
    PROVE  /\ ChainInv' /\ Moved(blocks, blocks') /\ everLeaves \subseteq everLeaves'
           /\ \A k \in 1..Len(blocks) : blocks'[k] = blocks[k]
           /\ Possible(All(blocks'))
<1> DEFINE n == Len(blocks)
<1>1. PICK block \in SeqOf(Commitments, MaxBlockTxs) :
          /\ Possible(Leaves \o block)
          /\ blocks' = Append(blocks, block)
          /\ everLeaves' = everLeaves \cup {Leaves \o block}
    BY DEF Mine
<1>2. block \in Seq(Commitments)
    BY ShortSeq
<1>3. /\ blocks \in Seq(Seq(Commitments)) /\ n \in Nat /\ n >= 1 /\ blocks[1] = << >>
      /\ All(blocks) \in Histories
    BY DEF ChainInv, Chains, All
<1> DEFINE bs == blocks
           cs == blocks'
<1>4. /\ cs \in Seq(Seq(Commitments)) /\ Len(cs) = n + 1
      /\ \A k \in 1..n : cs[k] = bs[k]
      /\ cs[n + 1] = block
  <2> DEFINE T == Seq(Commitments)
  <2>1. bs \in Seq(T) /\ block \in T /\ cs = Append(bs, block)
      BY <1>1, <1>2, <1>3
  <2> HIDE DEF T, bs, cs
  <2>2. cs \in Seq(T) /\ Len(cs) = Len(bs) + 1 /\ (\A k \in 1..Len(bs) : cs[k] = bs[k]) /\ cs[Len(bs) + 1] = block
      BY <2>1
  <2> QED BY <2>2 DEF T, bs
<1>5. Leaves = All(bs)
    BY <1>3, FlattenIs DEF Leaves, All
<1>6. All(cs) = Leaves \o block
  <2>1. n + 1 \in 1..Len(cs) /\ (n + 1) - 1 = n /\ n \in 0..Len(cs) /\ n \in 0..Len(bs) /\ n <= Len(cs)
      BY <1>3, <1>4
  <2>2. Upto(cs, n + 1) = Upto(cs, n) \o cs[n + 1]
      BY <1>4, <2>1, UptoSteps
  <2>3. Upto(bs, n) = Upto(cs, n)
      BY <1>3, <1>4, <2>1, UptoLocal
  <2> QED BY <1>4, <1>5, <2>2, <2>3 DEF All
<1>7. All(cs) \in Histories
  <2>1. Len(All(cs)) <= Capacity
      BY <1>1, <1>6 DEF Possible
  <2>2. All(cs) \in Seq(Commitments)
    <3>1. Len(cs) \in 0..Len(cs)
        BY <1>3, <1>4
    <3> QED BY <1>4, <3>1, UptoSteps DEF All
  <2> QED BY <2>1, <2>2, HistoriesAre
<1>8. cs \in Chains
    BY <1>3, <1>4, <1>7 DEF Chains, All
<1>9. All(cs) \in everLeaves' /\ everLeaves' \subseteq Histories /\ everLeaves \subseteq everLeaves'
    BY <1>1, <1>6, <1>7 DEF ChainInv
<1>10. Moved(bs, cs)
    BY <1>3, <1>4 DEF Moved
<1>11. Possible(All(cs))
    BY <1>1, <1>6
<1> QED BY <1>4, <1>8, <1>9, <1>10, <1>11 DEF ChainInv

JoinedIs(T, a, b, c) ==
    c \in Seq(T) /\ Len(c) = Len(a) + Len(b) /\ \A k \in 1..Len(a) : c[k] = a[k]

LEMMA JoinedAs ==
    ASSUME NEW T, NEW a \in Seq(T), NEW b \in Seq(T), NEW c, c = a \o b
    PROVE  JoinedIs(T, a, b, c)
BY DEF JoinedIs

LEMMA ReorgMoves ==
    ASSUME ChainInv, Reorg
    PROVE  /\ ChainInv' /\ Moved(blocks, blocks') /\ everLeaves \subseteq everLeaves'
           /\ Possible(All(blocks'))
<1> DEFINE n == Len(blocks)
           T == Seq(Commitments)
           bs == blocks
           cs == blocks'
<1>1. PICK depth \in 1..MaxReorgDepth :
          /\ depth < n
          /\ \E fork \in [1..depth -> SeqOf(Commitments, MaxBlockTxs)] :
                LET ch == SubSeq(blocks, 1, n - depth) \o fork
                IN  /\ Possible(FlattenSeq(ch))
                    /\ blocks' = ch
                    /\ everLeaves' = everLeaves \cup {FlattenSeq(ch)}
    BY DEF Reorg, Latest
<1>2. PICK fork \in [1..depth -> SeqOf(Commitments, MaxBlockTxs)] :
          /\ cs = SubSeq(bs, 1, n - depth) \o fork
          /\ Possible(FlattenSeq(cs))
          /\ everLeaves' = everLeaves \cup {FlattenSeq(cs)}
    BY <1>1
<1>3. /\ bs \in Seq(T) /\ n \in Nat /\ n >= 1 /\ bs[1] = << >>
    BY DEF ChainInv, Chains
<1>4. MaxReorgDepth \in Nat /\ depth \in Nat /\ depth >= 1 /\ depth <= MaxReorgDepth /\ depth < n
    BY <1>1, ChainAssumption
<1>5. fork \in [1..depth -> T]
  <2>1. SeqOf(Commitments, MaxBlockTxs) \subseteq T
      BY ShortSeq
  <2> HIDE DEF T
  <2> QED BY <2>1
<1> HIDE DEF T, cs, bs
<1>6. fork \in Seq(T) /\ Len(fork) = depth
    BY <1>4, <1>5
<1>7. /\ SubSeq(bs, 1, n - depth) \in Seq(T) /\ Len(SubSeq(bs, 1, n - depth)) = n - depth
      /\ \A k \in 1..(n - depth) : SubSeq(bs, 1, n - depth)[k] = bs[k]
    BY <1>3, <1>4 DEF bs
<1>8. /\ cs \in Seq(T) /\ Len(cs) = (n - depth) + depth
      /\ \A k \in 1..(n - depth) : cs[k] = bs[k]
  <2> DEFINE a == SubSeq(bs, 1, n - depth)
  <2>1. cs = a \o fork
      BY <1>2
  <2>2. a \in Seq(T) /\ Len(a) = n - depth /\ \A k \in 1..(n - depth) : a[k] = bs[k]
      BY <1>7
  <2> HIDE DEF a
  <2>3. JoinedIs(T, a, fork, cs)
      BY <1>6, <2>1, <2>2, JoinedAs
  <2> QED BY <1>6, <2>2, <2>3 DEF JoinedIs
<1>9. Len(cs) = n /\ cs[1] = << >>
    BY <1>3, <1>4, <1>8
<1>10. FlattenSeq(cs) = All(cs)
    BY <1>8, FlattenIs DEF All, T
<1>11. All(cs) \in Histories
  <2>1. Len(All(cs)) <= Capacity
      BY <1>2, <1>10 DEF Possible
  <2>2. Len(cs) \in 0..Len(cs)
      BY <1>3, <1>9
  <2>3. All(cs) \in Seq(Commitments)
      BY <1>8, <2>2, UptoSteps DEF All, T
  <2> QED BY <2>1, <2>3, HistoriesAre
<1>12. cs \in Chains
    BY <1>3, <1>8, <1>9, <1>11 DEF Chains, All, T
<1>13. All(cs) \in everLeaves' /\ everLeaves' \subseteq Histories /\ everLeaves \subseteq everLeaves'
    BY <1>2, <1>10, <1>11 DEF ChainInv
<1>14. Moved(bs, cs)
  <2>1. \A k \in 1..n : k <= n - MaxReorgDepth => k \in 1..(n - depth)
      BY <1>3, <1>4
  <2>2. Len(bs) = n
      BY DEF bs
  <2> QED BY <1>3, <1>8, <1>9, <2>1, <2>2 DEF Moved
<1>15. Possible(All(cs))
    BY <1>2, <1>10
<1> QED BY <1>12, <1>13, <1>14, <1>15 DEF ChainInv, bs, cs

LEMMA ChainStarts ==
    ASSUME ChainInit
    PROVE  ChainInv
<1> DEFINE bs == << << >> >>
<1>1. blocks = bs /\ everLeaves = {<< >>}
    BY DEF ChainInit
<1>2. bs \in Seq(Seq(Commitments)) /\ Len(bs) = 1 /\ bs[1] = << >>
  <2>1. << >> \in Seq(Commitments)
      BY NothingIn
  <2> QED BY <2>1
<1> HIDE DEF bs
<1>3. Upto(bs, 1) = << >>
  <2>1. 1 \in 1..Len(bs) /\ 1 - 1 = 0
      BY <1>2
  <2>2. Upto(bs, 1) = Upto(bs, 0) \o bs[1] /\ Upto(bs, 0) = << >>
      BY <1>2, <2>1, UptoSteps
  <2> QED BY <1>2, <2>2
<1>4. << >> \in Histories
  <2> DEFINE e == << >>
  <2>1. Capacity \in Nat
      BY DepthAssumption, PowerPositive DEF Capacity
  <2>2. e \in Seq(Commitments) /\ Len(e) = 0
      BY NothingIn
  <2> HIDE DEF e
  <2>3. Len(e) <= Capacity
      BY <2>1, <2>2
  <2>4. e \in Histories
      BY <2>2, <2>3, HistoriesAre
  <2> QED BY <2>4 DEF e
<1>5. bs \in Chains /\ All(bs) = << >>
    BY <1>2, <1>3, <1>4 DEF Chains, All
<1> QED BY <1>1, <1>4, <1>5 DEF ChainInv

-----------------------------------------------------------------------------
(* The client's path, and what it was fetched from.                        *)
LEMMA SmallestPlace ==
    ASSUME NEW n \in Nat, NEW I \in SUBSET (1..n), I # {}
    PROVE  \E m \in I : \A i \in I : m <= i
<1> SUFFICES ASSUME \A m \in I : \E i \in I : i < m PROVE FALSE
    OBVIOUS
<1> DEFINE Bad == {k \in 0..n : \E i \in I : i <= k}
<1>1. 0 \notin Bad
    OBVIOUS
<1>2. ASSUME NEW k \in 0..(n - 1), k \notin Bad PROVE k + 1 \notin Bad
  <2>1. k \in 0..n /\ \A i \in I : i > k
      BY <1>2
  <2>2. SUFFICES ASSUME NEW i \in I, i <= k + 1 PROVE FALSE
      OBVIOUS
  <2>3. PICK j \in I : j < i
      OBVIOUS
  <2>4. i > k /\ j > k
      BY <2>1
  <2> QED BY <2>2, <2>3, <2>4
<1>3. Bad \in SUBSET (0..n)
    OBVIOUS
<1>4. Bad = {}
  <2> HIDE DEF Bad
  <2> QED BY <1>1, <1>2, <1>3, NoBadNumber
<1>5. n \in 0..n /\ \A i \in I : i <= n
    OBVIOUS
<1>6. n \in Bad
    BY <1>5
<1> QED BY <1>4, <1>6

LEMMA NoteIndex ==
    ASSUME NEW h, Len(h) \in Nat, DOMAIN h = 1..Len(h), Wanted \in ToSet(h)
    PROVE  IndexOfNote(h) \in 0..(Len(h) - 1) /\ h[IndexOfNote(h) + 1] = Wanted
<1> DEFINE I == {i \in 1..Len(h) : h[i] = Wanted}
           m == CHOOSE x \in I : \A y \in I : x =< y
<1>1. I # {} /\ I \in SUBSET (1..Len(h))
    BY DEF ToSet
<1>2. \E x \in I : \A y \in I : x =< y
    BY <1>1, SmallestPlace
<1>3. m \in I
    BY <1>2
<1>4. IndexOfNote(h) = m - 1
    BY <1>1 DEF IndexOfNote, SelectInSeq, Min
<1> HIDE DEF m
<1>5. m \in 1..Len(h) /\ h[m] = Wanted /\ (m - 1) + 1 = m
    BY <1>3
<1> QED BY <1>4, <1>5

(* A history's path is that of the complete tree over its leaves.          *)
LEMMA PathInIs ==
    ASSUME NEW h \in Histories, Wanted \in ToSet(h)
    PROVE  /\ IndexOfNote(h) \in 0..(Len(h) - 1) /\ h[IndexOfNote(h) + 1] = Wanted
           /\ PathIn[h].root = Root(h, Len(h))
           /\ PathIn[h].commitment = Wanted
           /\ PathIn[h].leafIndex = IndexOfNote(h)
           /\ PathVerifies[h]
<1> DEFINE n == IndexOfNote(h)
<1>1. Len(h) \in Nat /\ DOMAIN h = 1..Len(h) /\ Len(h) <= Capacity /\ Capacity \in Nat
    BY HistoriesAre, DepthAssumption, PowerPositive DEF Capacity
<1>2. n \in 0..(Len(h) - 1) /\ h[n + 1] = Wanted
    BY <1>1, NoteIndex
<1>3. PathIn[h] = SparsePath(h, n) /\ h \in DOMAIN PathIn
    BY DEF PathIn
<1> HIDE DEF n
<1>4. SparsePath(h, n) = PathOf(Shifted(h), n)
    BY <1>1, <1>2, SparsePathIs
<1>5. n \in Nat /\ n < Capacity
    BY <1>1, <1>2
<1>6. VerifyMerklePath(PathOf(Shifted(h), n))
    BY <1>5, TreePathVerifies
<1>7. PathVerifies[h]
    BY <1>3, <1>4, <1>6 DEF PathVerifies
<1>8. Shifted(h) = Cut(h, Len(h))
    BY DEF Shifted, Cut
<1>9. /\ PathOf(Shifted(h), n).root = TreeRoot(Shifted(h)) /\ PathOf(Shifted(h), n).leafIndex = n
      /\ PathOf(Shifted(h), n).commitment = NodeAt(Shifted(h), n, ZERO)
    BY DEF PathOf
<1>10. NodeAt(Shifted(h), n, ZERO) = h[n + 1]
    BY <1>2 DEF Shifted, NodeAt
<1> QED BY <1>2, <1>3, <1>4, <1>7, <1>8, <1>9, <1>10 DEF Root, n

LEMMA LogsAre ==
    ASSUME NEW n
    PROVE  BlockLogs(n) = Entries(blocks, n)
BY DEF BlockLogs, EventsIn, LeavesAt, Entries, EventsOfBlock

(* An entry that a chain answers with.                                     *)
AnswerOf(bs, e) ==
    /\ e.blockNumber \in 1..Len(bs)
    /\ e \in Entries(bs, e.blockNumber)
    /\ e.log.event = "RootAccepted"

LEMMA AnswersAre ==
    ASSUME blocks \in Chains, NEW first \in Int, NEW last \in Int
    PROVE  /\ IsFiniteSet(GetLogs(first, last))
           /\ \A e : e \in GetLogs(first, last) <=>
                        AnswerOf(blocks, e) /\ e.blockNumber >= first /\ e.blockNumber <= last
<1> DEFINE N == (first..last) \cap (1..Len(blocks))
<1>1. Len(blocks) \in Nat /\ \A n \in N : n \in 1..Len(blocks) /\ n >= first /\ n <= last
    BY DEF Chains
<1>2. GetLogs(first, last) = {e \in UNION {Entries(blocks, n) : n \in N} : e.log.event = "RootAccepted"}
    BY LogsAre DEF GetLogs, Latest
<1>3. \A n \in N : IsFiniteSet(Entries(blocks, n)) /\ \A e \in Entries(blocks, n) : e.blockNumber = n
    BY <1>1, EntriesFinite, EntryIs
<1>4. IsFiniteSet({Entries(blocks, n) : n \in N})
  <2> DEFINE f == [n \in N |-> Entries(blocks, n)]
  <2>1. IsFiniteSet(N)
    <3>1. IsFiniteSet(1..Len(blocks))
        BY <1>1, FS_Interval
    <3> QED BY <3>1, FS_Subset
  <2>2. DOMAIN f = N /\ {f[n] : n \in N} = {Entries(blocks, n) : n \in N}
      OBVIOUS
  <2> HIDE DEF f, N
  <2>3. IsFiniteSet({f[n] : n \in N})
      BY <2>1, <2>2, ImageFinite
  <2> QED BY <2>2, <2>3
<1> HIDE DEF N
<1>5. IsFiniteSet(UNION {Entries(blocks, n) : n \in N})
  <2> DEFINE U == {Entries(blocks, n) : n \in N}
  <2>1. IsFiniteSet(U) /\ \A t \in U : IsFiniteSet(t)
      BY <1>3, <1>4
  <2> HIDE DEF U
  <2>2. IsFiniteSet(UNION U)
      BY <2>1, FS_UNION
  <2> QED BY <2>2 DEF U
<1>6. IsFiniteSet(GetLogs(first, last))
  <2>1. GetLogs(first, last) \in SUBSET UNION {Entries(blocks, n) : n \in N}
      BY <1>2
  <2> QED BY <1>5, <2>1, FS_Subset
<1>7. ASSUME NEW e \in GetLogs(first, last)
      PROVE  AnswerOf(blocks, e) /\ e.blockNumber >= first /\ e.blockNumber <= last
  <2>1. PICK n \in N : e \in Entries(blocks, n) /\ e.log.event = "RootAccepted"
      BY <1>2
  <2>2. e.blockNumber = n
      BY <1>3, <2>1
  <2> QED BY <1>1, <2>1, <2>2 DEF AnswerOf
<1>8. ASSUME NEW e, AnswerOf(blocks, e), e.blockNumber >= first, e.blockNumber <= last
      PROVE  e \in GetLogs(first, last)
  <2>1. e.blockNumber \in N
      BY <1>1, <1>8 DEF N, AnswerOf
  <2> QED BY <1>2, <1>8, <2>1 DEF AnswerOf
<1> QED BY <1>6, <1>7, <1>8

LEMMA AnswerIs ==
    ASSUME NEW bs \in Chains, NEW e, AnswerOf(bs, e)
    PROVE  /\ e.blockNumber \in Nat /\ e.logIndex \in Nat
           /\ \E j \in 0..Len(All(bs)) :
                 /\ e.log = Accepts(All(bs), j) /\ j <= Len(Upto(bs, e.blockNumber))
                 /\ PlaceOf(bs, e) = Position(All(bs), j)
           /\ e.log.root \in RootsOf(All(bs))
           /\ e.log.insertedCommitment \in Commitments \cup {ZERO}
<1> DEFINE h == All(bs)
           n == e.blockNumber
<1>1. n \in 1..Len(bs) /\ e \in Entries(bs, n) /\ e.log.event = "RootAccepted"
    BY DEF AnswerOf
<1>2. Len(bs) \in Nat /\ n \in 0..Len(bs)
    BY <1>1 DEF Chains
<1>3. /\ e.logIndex \in 1..(EndOf(bs, n) - EndOf(bs, n - 1))
      /\ \E j \in 0..Len(Upto(bs, n)) : PlaceOf(bs, e) = Position(h, j) /\ e.log = Accepts(h, j)
    BY <1>1, EntryIs
<1>4. PICK j \in 0..Len(Upto(bs, n)) : PlaceOf(bs, e) = Position(h, j) /\ e.log = Accepts(h, j)
    BY <1>3
<1>5. Len(Upto(bs, n)) \in 0..Len(h) /\ h \in Histories
    BY <1>2, ChainPrefix
<1>6. e.logIndex \in Nat
    BY <1>3
<1>7. Len(h) \in Nat
    BY <1>5, HistoriesAre
<1> HIDE DEF h
<1>8. j \in 0..Len(h) /\ j <= Len(Upto(bs, n))
    BY <1>5, <1>7
<1>9. e.log.root = Root(h, j) /\ e.log.insertedCommitment = IF j = 0 THEN ZERO ELSE h[j]
    BY <1>4 DEF Accepts, RootAccepted
<1>10. e.log.root \in RootsOf(h)
    BY <1>5, <1>8, <1>9, RootsOfHistory DEF RootsUpto
<1>11. e.log.insertedCommitment \in Commitments \cup {ZERO}
  <2>1. CASE j = 0
      BY <1>9, <2>1
  <2>2. CASE j # 0
    <3>1. j \in 1..Len(h) /\ h \in Seq(Commitments)
        BY <1>5, <1>8, <2>2, HistoriesAre
    <3>2. h[j] \in Commitments
        BY <3>1, ElementIn
    <3> QED BY <1>9, <2>2, <3>2
  <2> QED BY <2>1, <2>2
<1> QED BY <1>1, <1>2, <1>4, <1>6, <1>8, <1>10, <1>11 DEF h

LEMMA AnswerStays ==
    ASSUME NEW bs \in Chains, NEW cs \in Chains, Moved(bs, cs), NEW e, AnswerOf(bs, e),
           e.blockNumber <= Len(bs) - MaxReorgDepth
    PROVE  AnswerOf(cs, e)
<1> DEFINE n == e.blockNumber
<1>1. Len(bs) \in Nat /\ Len(cs) \in Nat /\ MaxReorgDepth \in Nat
  <2>1. MaxReorgDepth \in Nat
      BY ChainAssumption
  <2>2. bs \in Seq(Seq(Commitments)) /\ cs \in Seq(Seq(Commitments))
      BY DEF Chains
  <2> QED BY <2>1, <2>2
<1>2. n \in 1..Len(bs) /\ e \in Entries(bs, n) /\ e.log.event = "RootAccepted"
    BY DEF AnswerOf
<1>3. n \in 1..Len(cs) /\ \A k \in 1..n : bs[k] = cs[k]
    BY <1>1, <1>2 DEF Moved
<1>4. EventsOfBlock(bs, n) = EventsOfBlock(cs, n)
    BY <1>2, <1>3, BlockEventsLocal
<1> QED BY <1>2, <1>3, <1>4 DEF AnswerOf, Entries

(* What the client has fetched, whichever forks answered.                  *)
Fetched(e) ==
    /\ e.blockNumber \in Nat /\ e.logIndex \in Nat
    /\ e.log.root \in UNION {RootsOf(h) : h \in everLeaves}
    /\ e.log.insertedCommitment \in Commitments \cup {ZERO}

RecoveredInv ==
    /\ recovered \in Histories
    /\ Wanted \in ToSet(recovered)
    /\ \E e \in logs : e.log.root = Root(recovered, Len(recovered))

ClientInv ==
    /\ policy \in Policies
    /\ pc \in {"start", "receipt", "finality", "latest", "chunk", "done", "failed"}
    /\ hints.block \in Nat \cup {None} /\ hintedToBlock \in Nat \cup {None}
    /\ finalizedToBlock \in Nat \cup {None}
    /\ cursor \in Nat
    /\ pc = "chunk" => toBlock \in Nat

ForkInv ==
    /\ IsFiniteSet(logs)
    /\ \A e \in logs : Fetched(e)
    /\ pc = "done" => RecoveredInv

RecoveryInv == ChainInv /\ ClientInv /\ ForkInv

LEMMA FetchedAnswer ==
    ASSUME ChainInv, NEW e, AnswerOf(blocks, e)
    PROVE  Fetched(e)
<1>1. blocks \in Chains /\ All(blocks) \in everLeaves
    BY DEF ChainInv
<1>2. /\ e.blockNumber \in Nat /\ e.logIndex \in Nat
      /\ e.log.root \in RootsOf(All(blocks))
      /\ e.log.insertedCommitment \in Commitments \cup {ZERO}
    BY <1>1, AnswerIs
<1> QED BY <1>1, <1>2 DEF Fetched

LEMMA FinishRecovers ==
    ASSUME ForkInv, ~Ambiguous(logs), NEW records, records = Decoded(logs), Reconstructs(records)
    PROVE  /\ InsertedLeaves(records) \in Histories
           /\ Wanted \in ToSet(InsertedLeaves(records))
           /\ \E e \in logs : e.log.root = Root(InsertedLeaves(records), Len(InsertedLeaves(records)))
<1> DEFINE T == {e.log : e \in logs}
           h == InsertedLeaves(records)
<1>1. IsFiniteSet(logs) /\ Placed(logs)
    BY DEF ForkInv, Fetched, Placed
<1>2. /\ Cardinality(logs) \in Nat
      /\ records \in Seq(T)
      /\ Len(records) = Cardinality(logs)
      /\ \A k \in 1..Cardinality(logs) : \E e \in logs : records[k] = e.log
    BY <1>1, DecodedIs
<1>3. RecordsOK(records)
    BY <1>2 DEF RecordsOK, ForkInv, Fetched
<1>4. VerifyRootAcceptedChain(records) /\ Wanted \in ToSet(h)
    BY DEF Reconstructs
<1>5. h # << >>
  <2>1. ToSet(<< >>) = {}
      BY DEF ToSet
  <2> QED BY <1>4, <2>1
<1> HIDE DEF T, h
<1>6. /\ InsertedLeaves(records) \in Histories
      /\ \E k \in 1..Len(records) :
            records[k].root = Root(InsertedLeaves(records), Len(InsertedLeaves(records)))
    BY <1>2, <1>3, <1>4, <1>5, VerifiedHistory DEF h
<1> QED BY <1>2, <1>4, <1>6 DEF h

LEMMA RecoveryStarts == Init => RecoveryInv
<1> SUFFICES ASSUME Init PROVE RecoveryInv
    OBVIOUS
<1>1. ChainInv
    BY ChainStarts DEF Init
<1>2. ClientInv
    BY DEF Init, ReaderInit, ClientInv
<1>3. ForkInv
    BY FS_EmptySet DEF Init, ReaderInit, ForkInv
<1> QED BY <1>1, <1>2, <1>3 DEF RecoveryInv

LEMMA ClientSteps ==
    ASSUME ChainInv, ClientInv, Reader
    PROVE  ClientInv'
<1> USE DEF ClientInv
<1>1. policy' = policy
    BY DEF Reader
<1>2. Latest \in Nat /\ blocks \in Seq(Seq(Commitments))
    BY DEF Latest, ChainInv, Chains
<1>3. Confirmations \in Nat /\ ChunkSize \in Nat \ {0} /\ None \notin Nat
    BY RecoveryAssumption DEF Confirmations
<1>4. CASE Start
    BY <1>1, <1>4, RecoveryAssumption DEF Start
<1>5. CASE Receipt
  <2>1. \A n \in BlocksHolding(Wanted) : n \in Nat
      BY DEF BlocksHolding
  <2> QED BY <1>1, <1>5, <2>1 DEF Receipt
<1>6. ASSUME NEW boundary \in Nat \cup {None}, BeginFetch(boundary),
             hintedToBlock' = hintedToBlock
      PROVE  /\ pc' \in {"chunk", "failed", "latest"}
             /\ cursor' \in Nat
             /\ pc' = "chunk" => toBlock' \in Nat
    BY <1>3, <1>6 DEF BeginFetch, Fetch, Fail
<1>7. CASE Finality
  <2>1. DeepEnough(Latest) => FinalityBoundary(Latest) \in Nat
      BY <1>2, <1>3 DEF DeepEnough, FinalityBoundary
  <2>2. hints' = hints /\ hintedToBlock' = hintedToBlock
      BY <1>7 DEF Finality
  <2>3. CASE /\ DeepEnough(Latest)
             /\ finalizedToBlock' = FinalityBoundary(Latest)
             /\ BeginFetch(FinalityBoundary(Latest))
      BY <1>1, <1>6, <2>1, <2>2, <2>3
  <2>4. CASE Fail /\ UNCHANGED finalizedToBlock
      BY <1>1, <2>2, <2>4 DEF Fail
  <2>5. CASE BeginFetch(None) /\ UNCHANGED finalizedToBlock
      BY <1>1, <1>6, <2>2, <2>5
  <2> QED BY <1>7, <2>3, <2>4, <2>5 DEF Finality
<1>8. CASE LatestBlock
    BY <1>1, <1>2, <1>8 DEF LatestBlock, Fetch, Fail
<1>9. ASSUME Fallback, hintedToBlock' = hintedToBlock, finalizedToBlock' = finalizedToBlock, hints' = hints
      PROVE  ClientInv'
    BY <1>1, <1>3, <1>9 DEF Fallback, Fetch
<1>10. CASE Chunk
  <2>1. toBlock \in Nat /\ ChunkEnd \in Nat
      BY <1>3, <1>10 DEF Chunk, ChunkEnd
  <2>2. hintedToBlock' = hintedToBlock /\ finalizedToBlock' = finalizedToBlock /\ hints' = hints
      BY <1>10 DEF Chunk
  <2>3. CASE cursor' = NextCursor(ChunkEnd) /\ UNCHANGED <<pc, toBlock>>
      BY <1>1, <2>1, <2>2, <2>3 DEF NextCursor
  <2>4. CASE Fail
      BY <1>1, <2>2, <2>4 DEF Fail
  <2> QED BY <1>9, <1>10, <2>2, <2>3, <2>4 DEF Chunk
<1>11. CASE Finish
  <2>1. hintedToBlock' = hintedToBlock /\ finalizedToBlock' = finalizedToBlock /\ hints' = hints
      BY <1>11 DEF Finish
  <2>2. CASE Fail
      BY <1>1, <2>1, <2>2 DEF Fail
  <2>3. CASE pc' = "done" /\ UNCHANGED <<source, toBlock, cursor, logs>>
      BY <1>1, <2>1, <2>3
  <2> QED BY <1>9, <1>11, <2>1, <2>2, <2>3 DEF Finish
<1> QED BY <1>4, <1>5, <1>7, <1>8, <1>10, <1>11 DEF Reader

LEMMA ForkSteps ==
    ASSUME ChainInv, ClientInv, ForkInv, Reader
    PROVE  ForkInv'
<1>1. UNCHANGED <<blocks, reorgs, everLeaves>>
    BY DEF Reader, Start, Receipt, Finality, LatestBlock, Chunk, Finish, chainVars
<1>2. \A e : Fetched(e)' <=> Fetched(e)
    BY <1>1 DEF Fetched, RootsOf
<1>3. ASSUME pc' # "done", logs' = {} \/ logs' = logs PROVE ForkInv'
    BY <1>2, <1>3, FS_EmptySet DEF ForkInv
<1>4. CASE Start
    BY <1>3, <1>4 DEF Start
<1>5. CASE Receipt
    BY <1>3, <1>5 DEF Receipt
<1>6. CASE Finality
  <2>1. pc' # "done" /\ (logs' = {} \/ logs' = logs)
      BY <1>6 DEF Finality, BeginFetch, Fetch, Fail
  <2> QED BY <1>3, <2>1
<1>7. CASE LatestBlock
    BY <1>3, <1>7 DEF LatestBlock, Fetch, Fail
<1>8. ASSUME Fallback \/ Fail PROVE pc' # "done" /\ (logs' = {} \/ logs' = logs)
    BY <1>8 DEF Fallback, Fetch, Fail
<1>9. CASE Chunk
  <2>1. CASE logs' = logs \cup GetLogs(cursor, ChunkEnd) /\ pc' = pc
    <3>1. cursor \in Int /\ ChunkEnd \in Int
        BY <1>9, RecoveryAssumption DEF Chunk, ChunkEnd, ClientInv
    <3>2. blocks \in Chains
        BY DEF ChainInv
    <3>3. IsFiniteSet(GetLogs(cursor, ChunkEnd)) /\ \A e \in GetLogs(cursor, ChunkEnd) : Fetched(e)
        BY <3>1, <3>2, AnswersAre, FetchedAnswer
    <3>4. IsFiniteSet(logs') /\ \A e \in logs' : Fetched(e)
        BY <2>1, <3>3, FS_Union DEF ForkInv
    <3>5. pc' # "done"
        BY <1>9, <2>1 DEF Chunk
    <3> QED BY <1>2, <3>4, <3>5 DEF ForkInv
  <2>2. CASE Fallback \/ Fail
      BY <1>3, <1>8, <2>2
  <2> QED BY <1>9, <2>1, <2>2 DEF Chunk
<1>10. CASE Finish
  <2>1. CASE Fallback \/ Fail
      BY <1>3, <1>8, <2>1
  <2>2. CASE /\ ~Ambiguous(logs)
             /\ Reconstructs(Decoded(logs))
             /\ recovered' = InsertedLeaves(Decoded(logs))
             /\ logs' = logs
    <3>1. RecoveredInv'
        BY <2>2, FinishRecovers DEF RecoveredInv
    <3> QED BY <1>2, <2>2, <3>1 DEF ForkInv
  <2> QED BY <1>10, <2>1, <2>2 DEF Finish
<1> QED BY <1>4, <1>5, <1>6, <1>7, <1>9, <1>10 DEF Reader

LEMMA RecoveryInvHolds == Spec => []RecoveryInv
<1>1. RecoveryInv /\ [Next]_vars => RecoveryInv'
  <2> SUFFICES ASSUME RecoveryInv, [Next]_vars PROVE RecoveryInv'
      OBVIOUS
  <2>1. ChainInv /\ ClientInv /\ ForkInv
      BY DEF RecoveryInv
  <2>2. ASSUME UNCHANGED readerVars, ChainInv', everLeaves \subseteq everLeaves' PROVE RecoveryInv'
    <3>1. ClientInv'
        BY <2>1, <2>2 DEF ClientInv, readerVars
    <3>2. \A e \in logs : Fetched(e) => Fetched(e)'
        BY <2>2 DEF Fetched, RootsOf
    <3>3. ForkInv'
        BY <2>1, <2>2, <3>2 DEF ForkInv, RecoveredInv, readerVars
    <3> QED BY <2>2, <3>1, <3>3 DEF RecoveryInv
  <2>3. CASE Reader
    <3>1. ClientInv' /\ ForkInv'
        BY <2>1, <2>3, ClientSteps, ForkSteps
    <3>2. UNCHANGED <<blocks, reorgs, everLeaves>>
        BY <2>3 DEF Reader, Start, Receipt, Finality, LatestBlock, Chunk, Finish, chainVars
    <3> QED BY <2>1, <3>1, <3>2 DEF RecoveryInv, ChainInv
  <2>4. CASE Mine /\ UNCHANGED readerVars
      BY <2>1, <2>2, <2>4, MineMoves
  <2>5. CASE Reorg /\ UNCHANGED readerVars
      BY <2>1, <2>2, <2>5, ReorgMoves
  <2>6. CASE UNCHANGED vars
    <3>1. UNCHANGED readerVars /\ ChainInv' /\ everLeaves \subseteq everLeaves'
        BY <2>1, <2>6 DEF vars, chainVars, ChainInv
    <3> QED BY <2>2, <3>1
  <2> QED BY <2>3, <2>4, <2>5, <2>6 DEF Next
<1> QED BY <1>1, RecoveryStarts, PTL DEF Spec

(* A path the SDK returns opens the note under a root the pool really      *)
(* computed. verifyRootAcceptedChain replays the fetched records with the  *)
(* pool's insertion, so what it accepts is one history, and its root is    *)
(* that of a record that some fork emitted, however the chunks were mixed. *)
THEOREM RecoveredPathsAreOfOneFork == Spec => []PathIsOfOneFork
<1>1. RecoveryInv => PathIsOfOneFork
  <2> SUFFICES ASSUME RecoveryInv, pc = "done"
               PROVE  /\ PathVerifies[recovered]
                      /\ PathIn[recovered].commitment = Wanted
                      /\ PathIn[recovered].root \in UNION {RootsOf(h) : h \in everLeaves}
      BY DEF PathIsOfOneFork
  <2>1. RecoveredInv /\ \A e \in logs : Fetched(e)
      BY DEF RecoveryInv, ForkInv
  <2>2. recovered \in Histories /\ Wanted \in ToSet(recovered)
      BY <2>1 DEF RecoveredInv
  <2>3. /\ PathVerifies[recovered] /\ PathIn[recovered].commitment = Wanted
        /\ PathIn[recovered].root = Root(recovered, Len(recovered))
      BY <2>2, PathInIs
  <2>4. PathIn[recovered].root \in UNION {RootsOf(h) : h \in everLeaves}
      BY <2>1, <2>3 DEF RecoveredInv, Fetched
  <2> QED BY <2>3, <2>4
<1> QED BY <1>1, RecoveryInvHolds, PTL

-----------------------------------------------------------------------------
(* Under a finality policy the client reads settled blocks only.           *)
BoundaryInv ==
    /\ finalizedToBlock # None =>
          Confirmations > 0 /\ finalizedToBlock <= Latest - Confirmations
    /\ pc \in {"latest", "chunk", "done"} /\ Confirmations > 0 => finalizedToBlock # None
    /\ pc = "latest" => finalizedToBlock = None
    /\ pc = "chunk" /\ finalizedToBlock # None => toBlock <= finalizedToBlock

SettledInv ==
    /\ \A e \in logs : e.blockNumber <= Latest - Confirmations
    /\ Confirmations >= MaxReorgDepth => \A e \in logs : AnswerOf(blocks, e)

FinalInv == BoundaryInv /\ SettledInv

LEMMA BoundarySteps ==
    ASSUME ChainInv, ClientInv, BoundaryInv, Reader
    PROVE  BoundaryInv'
<1> USE DEF BoundaryInv
<1>1. policy' = policy /\ Latest' = Latest
    BY DEF Reader, Start, Receipt, Finality, LatestBlock, Chunk, Finish, chainVars, Latest
<1>2. Latest \in Nat /\ Confirmations \in Nat /\ None \notin Nat
  <2>1. blocks \in Seq(Seq(Commitments))
      BY DEF ChainInv, Chains
  <2>2. Latest \in Nat
      BY <2>1 DEF Latest
  <2> QED BY <2>2, RecoveryAssumption DEF ClientInv, Confirmations
<1>3. Confirmations' = Confirmations
    BY <1>1 DEF Confirmations
<1>4. CASE Start
    BY <1>1, <1>3, <1>4 DEF Start
<1>5. CASE Receipt
    BY <1>1, <1>3, <1>5 DEF Receipt
<1>6. ASSUME NEW boundary \in Nat \cup {None}, BeginFetch(boundary), finalizedToBlock' = boundary,
             boundary # None => Confirmations > 0 /\ boundary <= Latest - Confirmations,
             Confirmations > 0 => boundary # None
      PROVE  BoundaryInv'
    BY <1>1, <1>2, <1>3, <1>6 DEF BeginFetch, Fetch, Fail, ClientInv
<1>7. CASE Finality
  <2>1. DeepEnough(Latest) => /\ FinalityBoundary(Latest) \in Nat
                              /\ FinalityBoundary(Latest) <= Latest - Confirmations
      BY <1>2 DEF DeepEnough, FinalityBoundary
  <2>2. CASE /\ Confirmations > 0
             /\ DeepEnough(Latest)
             /\ finalizedToBlock' = FinalityBoundary(Latest)
             /\ BeginFetch(FinalityBoundary(Latest))
      BY <1>2, <1>6, <2>1, <2>2
  <2>3. CASE Fail /\ UNCHANGED finalizedToBlock
      BY <1>1, <1>3, <2>3 DEF Fail
  <2>4. CASE Confirmations = 0 /\ BeginFetch(None) /\ UNCHANGED finalizedToBlock
    <3>1. finalizedToBlock = None
        BY <1>2, <2>4
    <3>2. finalizedToBlock' = None /\ ~(Confirmations > 0) /\ BeginFetch(None)
        BY <1>2, <2>4, <3>1
    <3>3. None \in Nat \cup {None}
        OBVIOUS
    <3> QED BY <1>6, <3>2, <3>3
  <2> QED BY <1>7, <2>2, <2>3, <2>4 DEF Finality
<1>8. CASE LatestBlock
    BY <1>1, <1>2, <1>3, <1>8 DEF LatestBlock, Fetch, Fail
<1>9. ASSUME Fallback, pc = "chunk", finalizedToBlock' = finalizedToBlock
      PROVE  BoundaryInv'
    BY <1>1, <1>2, <1>3, <1>9 DEF Fallback, Fetch, ClientInv
<1>10. ASSUME Fail, finalizedToBlock' = finalizedToBlock PROVE BoundaryInv'
    BY <1>1, <1>3, <1>10 DEF Fail
<1>11. CASE Chunk
  <2>1. finalizedToBlock' = finalizedToBlock /\ pc = "chunk"
      BY <1>11 DEF Chunk
  <2>2. CASE UNCHANGED <<pc, source, toBlock>>
      BY <1>1, <1>3, <2>1, <2>2
  <2> QED BY <1>9, <1>10, <1>11, <2>1, <2>2 DEF Chunk
<1>12. CASE Finish
  <2>1. finalizedToBlock' = finalizedToBlock /\ pc = "chunk"
      BY <1>12 DEF Finish
  <2>2. CASE pc' = "done" /\ UNCHANGED <<source, toBlock, cursor, logs>>
      BY <1>1, <1>3, <2>1, <2>2
  <2> QED BY <1>9, <1>10, <1>12, <2>1, <2>2 DEF Finish
<1> QED BY <1>4, <1>5, <1>7, <1>8, <1>11, <1>12 DEF Reader

LEMMA SettledSteps ==
    ASSUME ChainInv, ClientInv, FinalInv, Reader
    PROVE  SettledInv'
<1>1. policy' = policy /\ Latest' = Latest /\ blocks' = blocks
    BY DEF Reader, Start, Receipt, Finality, LatestBlock, Chunk, Finish, chainVars, Latest
<1>2. Confirmations' = Confirmations
    BY <1>1 DEF Confirmations
<1>3. CASE logs' = {} \/ logs' = logs
    BY <1>1, <1>2, <1>3 DEF FinalInv, SettledInv
<1>4. CASE pc = "chunk" /\ logs' = logs \cup GetLogs(cursor, ChunkEnd)
  <2>1. /\ cursor \in Int /\ toBlock \in Nat /\ ChunkEnd \in Int /\ ChunkEnd <= toBlock
        /\ Confirmations \in Nat /\ None \notin Nat
      BY <1>4, RecoveryAssumption DEF ChunkEnd, ClientInv, Confirmations
  <2>2. blocks \in Chains /\ Latest \in Nat
    <3>1. blocks \in Chains
        BY DEF ChainInv
    <3>2. Len(blocks) \in Nat
        BY <3>1 DEF Chains
    <3> QED BY <3>1, <3>2 DEF Latest
  <2>3. ASSUME NEW e \in GetLogs(cursor, ChunkEnd)
        PROVE  AnswerOf(blocks, e) /\ e.blockNumber <= Latest - Confirmations
    <3>1. AnswerOf(blocks, e) /\ e.blockNumber <= ChunkEnd
        BY <2>1, <2>2, AnswersAre
    <3>2. e.blockNumber \in Nat /\ e.blockNumber <= Latest
        BY <2>2, <3>1 DEF AnswerOf, Latest
    <3>3. CASE Confirmations = 0
        BY <2>2, <3>1, <3>2, <3>3
    <3>4. CASE Confirmations > 0
      <4>1. finalizedToBlock # None /\ toBlock <= finalizedToBlock /\ finalizedToBlock <= Latest - Confirmations
          BY <1>4, <3>4 DEF FinalInv, BoundaryInv
      <4>2. finalizedToBlock \in Nat
          BY <4>1 DEF ClientInv
      <4> QED BY <2>1, <2>2, <3>1, <3>2, <4>1, <4>2
    <3> QED BY <2>1, <3>3, <3>4
  <2> QED BY <1>1, <1>2, <1>4, <2>3 DEF FinalInv, SettledInv
<1>5. logs' = {} \/ logs' = logs \/ (pc = "chunk" /\ logs' = logs \cup GetLogs(cursor, ChunkEnd))
    BY DEF Reader, Start, Receipt, Finality, BeginFetch, LatestBlock, Chunk, Finish, Fallback, Fetch, Fail
<1> QED BY <1>3, <1>4, <1>5

LEMMA FinalInvHolds == Spec => []FinalInv
<1>1. Init => FinalInv
    BY RecoveryAssumption DEF Init, ReaderInit, FinalInv, BoundaryInv, SettledInv
<1>2. RecoveryInv /\ RecoveryInv' /\ FinalInv /\ [Next]_vars => FinalInv'
  <2> SUFFICES ASSUME RecoveryInv, RecoveryInv', FinalInv, [Next]_vars PROVE FinalInv'
      OBVIOUS
  <2>1. ChainInv /\ ClientInv /\ ChainInv' /\ \A e \in logs : Fetched(e)
      BY DEF RecoveryInv, ForkInv
  <2>2. Confirmations \in Nat /\ None \notin Nat /\ MaxReorgDepth \in Nat
    <3>1. MaxReorgDepth \in Nat
        BY ChainAssumption
    <3> QED BY <2>1, <3>1, RecoveryAssumption DEF ClientInv, Confirmations
  <2>3. blocks \in Chains /\ blocks' \in Chains /\ Latest \in Nat /\ Latest' \in Nat
    <3>1. blocks \in Chains /\ blocks' \in Chains
        BY <2>1 DEF ChainInv
    <3>2. Len(blocks) \in Nat /\ Len(blocks') \in Nat
      <4>1. blocks \in Seq(Seq(Commitments)) /\ blocks' \in Seq(Seq(Commitments))
          BY <3>1 DEF Chains
      <4> QED BY <4>1
    <3> QED BY <3>1, <3>2 DEF Latest
  <2>4. ASSUME UNCHANGED readerVars, Moved(blocks, blocks') PROVE FinalInv'
    <3>1. /\ UNCHANGED <<policy, pc, finalizedToBlock, toBlock, logs>>
          /\ Confirmations' = Confirmations /\ Latest' >= Latest
        BY <2>4 DEF readerVars, Confirmations, Moved, Latest
    <3>2. finalizedToBlock # None => finalizedToBlock \in Nat
        BY <2>1 DEF ClientInv
    <3>3. BoundaryInv'
        BY <2>2, <2>3, <3>1, <3>2 DEF FinalInv, BoundaryInv
    <3>4. \A e \in logs : e.blockNumber \in Nat /\ e.blockNumber <= Latest - Confirmations
        BY <2>1 DEF FinalInv, SettledInv, Fetched
    <3>5. \A e \in logs : e.blockNumber <= Latest' - Confirmations
        BY <2>2, <2>3, <3>1, <3>4
    <3>6. ASSUME Confirmations >= MaxReorgDepth, NEW e \in logs PROVE AnswerOf(blocks', e)
      <4>1. AnswerOf(blocks, e)
          BY <3>6 DEF FinalInv, SettledInv
      <4>2. e.blockNumber <= Len(blocks) - MaxReorgDepth
          BY <2>2, <2>3, <3>4, <3>6 DEF Latest
      <4> QED BY <2>3, <2>4, <4>1, <4>2, AnswerStays
    <3> QED BY <3>1, <3>3, <3>5, <3>6 DEF FinalInv, SettledInv
  <2>5. CASE Reader
    <3>1. BoundaryInv'
        BY <2>1, <2>5, BoundarySteps DEF FinalInv
    <3>2. SettledInv'
        BY <2>1, <2>5, SettledSteps
    <3> QED BY <3>1, <3>2 DEF FinalInv
  <2>6. CASE Mine /\ UNCHANGED readerVars
      BY <2>1, <2>4, <2>6, MineMoves
  <2>7. CASE Reorg /\ UNCHANGED readerVars
      BY <2>1, <2>4, <2>7, ReorgMoves
  <2>8. CASE UNCHANGED vars
    <3>1. UNCHANGED readerVars /\ blocks' = blocks
        BY <2>8 DEF vars, chainVars
    <3>2. Moved(blocks, blocks')
        BY <2>3, <3>1 DEF Moved, Latest
    <3> QED BY <2>4, <3>1, <3>2
  <2> QED BY <2>5, <2>6, <2>7, <2>8 DEF Next
<1> QED BY <1>1, <1>2, RecoveryInvHolds, PTL DEF Spec

(* With a finality policy of at least the depth of reorganisations the     *)
(* path stays a path of the canonical chain. What was fetched lies below   *)
(* the boundary and is what the chain still answers; the recovered root is *)
(* one of its roots, and as the hash is injective the leaves below that    *)
(* root are the chain's (resolveRecoveryToBlock, the check of the hinted   *)
(* block against it, and verifyRootAcceptedChain).                         *)
THEOREM FinalPathsStayCanonical == Spec => []FinalPathStaysCanonical
<1>1. RecoveryInv /\ FinalInv => FinalPathStaysCanonical
  <2> SUFFICES ASSUME RecoveryInv, FinalInv, pc = "done", Confirmations >= MaxReorgDepth
               PROVE  /\ PathIn[recovered].root \in RootsOf(Leaves)
                      /\ Leaves[PathIn[recovered].leafIndex + 1] = Wanted
      BY DEF FinalPathStaysCanonical
  <2> DEFINE h == All(blocks)
             n == IndexOfNote(recovered)
             r == recovered
  <2>1. blocks \in Chains /\ recovered \in Histories /\ Wanted \in ToSet(recovered)
      BY DEF RecoveryInv, ChainInv, ForkInv, RecoveredInv
  <2>2. PICK e \in logs : e.log.root = Root(r, Len(r))
      BY DEF RecoveryInv, ForkInv, RecoveredInv
  <2>3. AnswerOf(blocks, e)
      BY DEF FinalInv, SettledInv
  <2>4. e.log.root \in RootsOf(h)
      BY <2>1, <2>3, AnswerIs
  <2>5. PICK j \in 0..Len(h) : e.log = Accepts(h, j)
      BY <2>1, <2>3, AnswerIs
  <2>6. e.log.root = Root(h, j)
      BY <2>5 DEF Accepts, RootAccepted
  <2>7. /\ n \in 0..(Len(r) - 1) /\ r[n + 1] = Wanted
        /\ PathIn[r].root = Root(r, Len(r)) /\ PathIn[r].leafIndex = n
      BY <2>1, PathInIs
  <2>8. Leaves = h
    <3>1. blocks \in Seq(Seq(Commitments))
        BY <2>1 DEF Chains
    <3> QED BY <3>1, FlattenIs DEF Leaves, All
  <2>9. h[n + 1] = Wanted
    <3>1. Len(r) \in Nat /\ Len(r) <= Capacity /\ Capacity \in Nat
        BY <2>1, HistoriesAre, DepthAssumption, PowerPositive DEF Capacity
    <3>2. h \in Histories /\ Len(h) \in Nat
      <4>1. h \in Histories
          BY <2>1 DEF Chains, All
      <4> QED BY <4>1, HistoriesAre
    <3> HIDE DEF n, h, r
    <3>3. n \in Nat /\ n < Capacity /\ n \in 0..(Len(r) - 1)
        BY <2>7, <3>1
    <3>4. TreeRoot(Cut(r, Len(r))) = TreeRoot(Cut(h, j))
        BY <2>2, <2>6 DEF Root
    <3>5. NodeAt(Cut(r, Len(r)), n, ZERO) = NodeAt(Cut(h, j), n, ZERO)
        BY <3>3, <3>4, RootInjective
    <3>6. NodeAt(Cut(r, Len(r)), n, ZERO) = Wanted
        BY <2>7, <3>3 DEF Cut, NodeAt
    <3>7. Wanted # ZERO
        BY ChainAssumption, RecoveryAssumption
    <3>8. NodeAt(Cut(h, j), n, ZERO) = IF n \in 0..(j - 1) THEN h[n + 1] ELSE ZERO
        BY DEF NodeAt, Cut
    <3> QED BY <3>5, <3>6, <3>7, <3>8
  <2> HIDE DEF h, n
  <2> QED BY <2>2, <2>4, <2>7, <2>8, <2>9
<1> QED BY <1>1, RecoveryInvHolds, FinalInvHolds, PTL

-----------------------------------------------------------------------------
(* Every answer moves the client on.                                       *)
StageAt(k, where, from) ==
    \/ k = 1 /\ where = "start"
    \/ k = 2 /\ where = "receipt"
    \/ k = 3 /\ where = "finality"
    \/ k = 4 /\ where = "chunk" /\ from = "hint"
    \/ k = 5 /\ where = "latest"
    \/ k = 6 /\ where = "chunk" /\ from = "fallback"
    \/ k = 7 /\ where \in {"done", "failed"}

StageInv == ClientInv /\ source \in {"hint", "fallback"}

StageOK == StageIndex \in 1..7 /\ StageAt(StageIndex, pc, source)

LEMMA StageIs == StageInv => StageOK
<1> SUFFICES ASSUME StageInv PROVE StageOK
    OBVIOUS
<1>1. DOMAIN Stages = 1..7
    BY DEF Stages
<1>2. /\ Stages[1] = "start" /\ Stages[2] = "receipt" /\ Stages[3] = "finality"
      /\ Stages[4] = "hint" /\ Stages[5] = "latest" /\ Stages[6] = "fallback" /\ Stages[7] = "end"
    BY DEF Stages
<1>3. \E k \in 1..7 : Stages[k] = Stage
    BY <1>2 DEF Stage, StageInv, ClientInv
<1>4. StageIndex \in 1..7 /\ Stages[StageIndex] = Stage
    BY <1>1, <1>3 DEF StageIndex
<1> QED BY <1>2, <1>4 DEF Stage, StageInv, ClientInv, StageAt, StageOK

LEMMA StageSteps ==
    ASSUME StageInv, Reader
    PROVE  /\ source' \in {"hint", "fallback"}
           /\ \/ /\ pc = "start" /\ pc' \in {"receipt", "finality"}
              \/ /\ pc = "receipt" /\ pc' = "finality"
              \/ /\ pc = "finality"
                 /\ \/ pc' = "chunk" /\ source' \in {"hint", "fallback"}
                    \/ pc' \in {"latest", "failed"}
              \/ /\ pc = "latest"
                 /\ \/ pc' = "chunk" /\ source' = "fallback"
                    \/ pc' = "failed"
              \/ /\ pc = "chunk" /\ source = "hint"
                 /\ \/ pc' = "chunk" /\ source' = "fallback"
                    \/ pc' = "latest"
              \/ /\ pc = "chunk" /\ pc' \in {"failed", "done"}
              \/ /\ pc = "chunk" /\ pc' = "chunk" /\ source' = source
                 /\ toBlock' = toBlock /\ cursor' > cursor
<1>1. CASE Start
    BY <1>1 DEF Start, StageInv
<1>2. CASE Receipt
    BY <1>2 DEF Receipt, StageInv
<1>3. ASSUME Fallback
      PROVE  \/ pc' = "chunk" /\ source' = "fallback"
             \/ pc' = "latest" /\ source' = source
    BY <1>3 DEF Fallback, Fetch
<1>4. ASSUME NEW b, BeginFetch(b)
      PROVE  \/ pc' = "chunk" /\ source' \in {"hint", "fallback"}
             \/ pc' \in {"latest", "failed"} /\ source' = source
    BY <1>4 DEF BeginFetch, Fetch, Fail
<1>5. CASE Finality
  <2>1. \/ BeginFetch(FinalityBoundary(Latest))
        \/ BeginFetch(None)
        \/ pc' = "failed" /\ source' = source
      BY <1>5 DEF Finality, Fail
  <2>2. pc = "finality"
      BY <1>5 DEF Finality
  <2> QED BY <1>4, <2>1, <2>2 DEF StageInv
<1>6. CASE LatestBlock
    BY <1>6 DEF LatestBlock, Fetch, Fail, StageInv
<1>7. CASE Chunk
  <2>1. pc = "chunk" /\ cursor <= toBlock
      BY <1>7 DEF Chunk
  <2>2. CASE cursor' = NextCursor(ChunkEnd) /\ UNCHANGED <<pc, source, toBlock, rpcErrors>>
    <3>1. cursor \in Nat /\ toBlock \in Nat /\ ChunkSize \in Nat \ {0}
        BY <2>1, RecoveryAssumption DEF StageInv, ClientInv
    <3>2. cursor' > cursor
        BY <2>1, <2>2, <3>1 DEF NextCursor, ChunkEnd
    <3> QED BY <2>1, <2>2, <3>2 DEF StageInv
  <2>3. CASE IF source = "hint" THEN Fallback ELSE Fail
      BY <1>3, <2>1, <2>3 DEF Fail, StageInv
  <2> QED BY <1>7, <2>2, <2>3 DEF Chunk
<1>8. CASE Finish
  <2>1. pc = "chunk"
      BY <1>8 DEF Finish
  <2>2. CASE source = "hint" /\ Fallback
      BY <1>3, <2>1, <2>2
  <2>3. CASE Fail
      BY <2>1, <2>3 DEF Fail, StageInv
  <2>4. CASE pc' = "done" /\ UNCHANGED <<source, toBlock, cursor, logs>>
      BY <2>1, <2>4 DEF StageInv
  <2> QED BY <1>8, <2>2, <2>3, <2>4 DEF Finish
<1> QED BY <1>1, <1>2, <1>5, <1>6, <1>7, <1>8 DEF Reader

LEMMA StageInvHolds == Spec => []StageInv
<1>1. Init => StageInv
    BY RecoveryStarts DEF RecoveryInv, StageInv, Init, ReaderInit
<1>2. RecoveryInv /\ RecoveryInv' /\ StageInv /\ [Next]_vars => StageInv'
  <2> SUFFICES ASSUME RecoveryInv', StageInv, [Next]_vars PROVE StageInv'
      OBVIOUS
  <2>1. ClientInv'
      BY DEF RecoveryInv
  <2>2. source' \in {"hint", "fallback"}
      BY StageSteps DEF Next, vars, readerVars, StageInv
  <2> QED BY <2>1, <2>2 DEF StageInv
<1> QED BY <1>1, <1>2, RecoveryInvHolds, PTL DEF Spec

LEMMA StageAdvances ==
    ASSUME StageInv, StageOK, StageOK', Reader
    PROVE  \/ StageIndex' > StageIndex
           \/ StageIndex' = StageIndex /\ pc = "chunk" /\ toBlock' = toBlock /\ cursor' > cursor
<1> DEFINE i == StageIndex
           j == StageIndex'
<1> HIDE DEF i, j
<1>1. i \in 1..7 /\ StageAt(i, pc, source) /\ j \in 1..7 /\ StageAt(j, pc', source')
    BY DEF i, j, StageOK, StageAt
<1>2. \/ j > i
      \/ j = i /\ pc = "chunk" /\ toBlock' = toBlock /\ cursor' > cursor
    BY <1>1, StageSteps DEF StageAt
<1> QED BY <1>2 DEF i, j

(* Recovery ends although the chain keeps growing and may be reorganised:  *)
(* every answer, errors included, moves the client to a later stage or, in *)
(* the range it has fixed, to a later chunk, and a hinted range that       *)
(* failed is never tried again (fetchRootAcceptedLogs and its fallback).   *)
THEOREM RecoveryAlwaysAdvances == Spec => RecoveryAdvances
<1>1. ASSUME StageInv, StageOK, StageOK', [Next]_vars
      PROVE  \/ UNCHANGED readerVars
             \/ StageIndex' > StageIndex
             \/ /\ StageIndex' = StageIndex
                /\ pc = "chunk" /\ toBlock' = toBlock /\ cursor' > cursor
  <2>1. Reader \/ UNCHANGED readerVars
      BY <1>1 DEF Next, vars
  <2> QED BY <1>1, <2>1, StageAdvances
<1> QED BY <1>1, StageIs, StageInvHolds, PTL DEF Spec, RecoveryAdvances

-----------------------------------------------------------------------------
(* Every log of the blocks up to n, sorted: the history of those blocks.   *)

(* f lists the members of S in the order R. *)
Lists(f, S, R, m) ==
    /\ \A i \in 0..m : f[i] \in S
    /\ \A e \in S : \E i \in 0..m : f[i] = e
    /\ \A i, j \in 0..m : <<f[i], f[j]>> \in R <=> i < j

Part(f, n) == {f[i] : i \in 0..(n - 1)}

LEMMA ListedPart ==
    ASSUME NEW f, NEW S, NEW R, NEW m \in Nat, Lists(f, S, R, m), NEW n \in 0..(m + 1)
    PROVE  IsFiniteSet(Part(f, n)) /\ Cardinality(Part(f, n)) = n
<1> DEFINE D == 0..(n - 1)
           T == {f[i] : i \in D}
           g == [i \in D |-> f[i]]
<1>1. \A i \in D : i \in 0..m
    OBVIOUS
<1>2. ASSUME NEW i \in D, NEW j \in D, g[i] = g[j] PROVE i = j
  <2>1. f[i] = f[j] /\ i \in 0..m /\ j \in 0..m
      BY <1>1, <1>2
  <2>2. \A a, b \in 0..m : <<f[a], f[b]>> \in R <=> a < b
      BY DEF Lists
  <2>3. (i < j <=> i < i) /\ (j < i <=> i < i)
      BY <2>1, <2>2
  <2> QED BY <2>1, <2>3
<1>3. g \in [D -> T] /\ DOMAIN g = D /\ \A t \in T : \E i \in D : g[i] = t
    OBVIOUS
<1>4. IsFiniteSet(D) /\ Cardinality(D) = n
    BY FS_Interval
<1> HIDE DEF g, D, T
<1>5. g \in Bijection(D, T)
    BY <1>2, <1>3 DEF Bijection, Injection, Surjection, IsInjective
<1>6. IsFiniteSet(T) /\ Cardinality(T) = Cardinality(D)
    BY <1>4, <1>5, FS_Bijection DEF ExistsBijection
<1> QED BY <1>4, <1>6 DEF D, T, Part

LEMMA ListedRanks ==
    ASSUME NEW f, NEW S, NEW R, NEW m \in Nat, Lists(f, S, R, m)
    PROVE  /\ IsFiniteSet(S) /\ Cardinality(S) = m + 1
           /\ \A j \in 0..m : Cardinality(Under(S, R, f[j])) = j
<1>1. /\ \A i \in 0..m : f[i] \in S
      /\ \A e \in S : \E i \in 0..m : f[i] = e
      /\ \A i, j \in 0..m : <<f[i], f[j]>> \in R <=> i < j
    BY DEF Lists
<1>2. m + 1 \in 0..(m + 1) /\ (m + 1) - 1 = m
    OBVIOUS
<1>3. S = Part(f, m + 1)
    BY <1>1, <1>2 DEF Part
<1>4. IsFiniteSet(S) /\ Cardinality(S) = m + 1
    BY <1>2, <1>3, ListedPart
<1>5. ASSUME NEW j \in 0..m PROVE Cardinality(Under(S, R, f[j])) = j
  <2>1. j \in 0..(m + 1) /\ \A i \in 0..m : i \in 0..(j - 1) <=> i < j
      OBVIOUS
  <2>2. \A i \in 0..(j - 1) : i \in 0..m
      OBVIOUS
  <2>3. ASSUME NEW d PROVE d \in Under(S, R, f[j]) <=> d \in {f[i] : i \in 0..(j - 1)}
    <3>1. ASSUME d \in Under(S, R, f[j]) PROVE d \in {f[i] : i \in 0..(j - 1)}
      <4>1. d \in S /\ <<d, f[j]>> \in R
          BY <3>1 DEF Under
      <4>2. PICK i \in 0..m : f[i] = d
          BY <1>1, <4>1
      <4>3. <<f[i], f[j]>> \in R
          BY <4>1, <4>2
      <4>4. i < j
          BY <1>1, <4>3
      <4> QED BY <2>1, <4>2, <4>4
    <3>2. ASSUME NEW i \in 0..(j - 1), d = f[i] PROVE d \in Under(S, R, f[j])
      <4>1. i \in 0..m /\ i < j
          BY <2>1, <2>2
      <4>2. f[i] \in S /\ <<f[i], f[j]>> \in R
          BY <1>1, <4>1
      <4>3. d \in S /\ <<d, f[j]>> \in R
          BY <3>2, <4>2
      <4> QED BY <4>3 DEF Under
    <3>3. d \in {f[i] : i \in 0..(j - 1)} => \E i \in 0..(j - 1) : d = f[i]
        OBVIOUS
    <3> QED BY <3>1, <3>2, <3>3
  <2>4. Under(S, R, f[j]) = Part(f, j)
      BY <2>3 DEF Part
  <2>5. Cardinality(Part(f, j)) = j
      BY <2>1, ListedPart
  <2> QED BY <2>4, <2>5
<1> QED BY <1>4, <1>5

(* A is the whole answer for the blocks up to n. *)
WholeAnswer(A, bs, n) == \A e : e \in A <=> AnswerOf(bs, e) /\ e.blockNumber <= n

LEMMA EndOrder ==
    ASSUME NEW bs \in Chains, NEW m \in 0..Len(bs), NEW n \in m..Len(bs)
    PROVE  EndOf(bs, m) \in Nat /\ EndOf(bs, n) \in Nat /\ EndOf(bs, m) <= EndOf(bs, n)
<1>1. Len(bs) \in Nat
    BY DEF Chains
<1>2. n \in 0..Len(bs)
    BY <1>1
<1>3. Len(LogAt(bs, m)) \in Nat /\ Len(LogAt(bs, n)) \in Nat
    BY <1>2, LogAtIs
<1>4. Len(LogAt(bs, m)) <= Len(LogAt(bs, n))
    BY LogAtOrder DEF PrefixOf
<1>5. n = 0 => m = 0
    BY <1>1
<1> QED BY <1>3, <1>4, <1>5 DEF EndOf

(* Each announced root has its log among them. *)
LEMMA EntryFor ==
    ASSUME NEW bs \in Chains, NEW n \in 1..Len(bs), NEW A, WholeAnswer(A, bs, n),
           NEW j \in 0..Len(Upto(bs, n))
    PROVE  \E e \in A : PlaceOf(bs, e) = Position(All(bs), j) /\ e.log = Accepts(All(bs), j)
<1> DEFINE h == All(bs)
           p == Position(h, j)
           I == {m \in 1..n : p <= EndOf(bs, m)}
<1>1. Len(bs) \in Nat /\ n \in Nat /\ n \in 0..Len(bs) /\ n # 0 /\ n <= Len(bs)
    BY DEF Chains
<1>2. /\ Announces(LogAt(bs, n), h, Len(Upto(bs, n)))
      /\ LogAt(bs, n) \in Seq(EventsOf(h)) /\ Len(LogAt(bs, n)) \in Nat
    BY <1>1, LogAtIs
<1>3. p \in 1..Len(LogAt(bs, n)) /\ LogAt(bs, n)[p] = Accepts(h, j)
    BY <1>2 DEF Announces
<1>4. EndOf(bs, n) = Len(LogAt(bs, n))
    BY <1>1 DEF EndOf
<1> HIDE DEF h, p
<1>5. n \in I /\ I \in SUBSET (1..n)
    BY <1>1, <1>2, <1>3, <1>4
<1>6. PICK m \in I : \A i \in I : m <= i
    BY <1>1, <1>5, SmallestPlace
<1>7. /\ m \in 1..n /\ m \in 1..Len(bs) /\ m - 1 \in 0..Len(bs) /\ m \in 0..Len(bs) /\ n \in m..Len(bs)
      /\ m # 0 /\ p <= EndOf(bs, m)
    BY <1>1, <1>6
<1>8. /\ EndOf(bs, m - 1) \in Nat /\ EndOf(bs, m) \in Nat
      /\ DOMAIN EventsOfBlock(bs, m) = 1..(EndOf(bs, m) - EndOf(bs, m - 1))
      /\ \A i \in 1..(EndOf(bs, m) - EndOf(bs, m - 1)) :
             EventsOfBlock(bs, m)[i] = LogAt(bs, m)[EndOf(bs, m - 1) + i]
    BY <1>7, BlockEvents
<1>9. EndOf(bs, m - 1) < p
  <2>1. CASE m = 1
      BY <1>3, <2>1 DEF EndOf
  <2>2. CASE m # 1
    <3>1. m - 1 \in 1..n /\ ~(m <= m - 1)
        BY <1>7, <2>2
    <3>2. m - 1 \notin I
        BY <1>6, <3>1
    <3>3. ~(p <= EndOf(bs, m - 1))
        BY <3>1, <3>2
    <3> QED BY <1>3, <1>8, <3>3
  <2> QED BY <2>1, <2>2
<1> DEFINE i == p - EndOf(bs, m - 1)
           e == [blockNumber |-> m, logIndex |-> i, log |-> EventsOfBlock(bs, m)[i]]
<1>10. /\ i \in 1..(EndOf(bs, m) - EndOf(bs, m - 1)) /\ EndOf(bs, m - 1) + i = p
    BY <1>3, <1>7, <1>8, <1>9
<1>11. EventsOfBlock(bs, m)[i] = LogAt(bs, m)[p]
    BY <1>8, <1>10
<1>12. LogAt(bs, m)[p] = LogAt(bs, n)[p]
  <2>1. PrefixOf(LogAt(bs, m), LogAt(bs, n))
      BY <1>7, LogAtOrder
  <2>2. EndOf(bs, m) = Len(LogAt(bs, m))
      BY <1>7 DEF EndOf
  <2>3. p \in 1..Len(LogAt(bs, m))
      BY <1>3, <1>7, <1>8, <2>2
  <2> QED BY <2>1, <2>3 DEF PrefixOf
<1>13. /\ e.blockNumber = m /\ e.logIndex = i /\ e.log = EventsOfBlock(bs, m)[i]
       /\ e = [blockNumber |-> m, logIndex |-> i, log |-> EventsOfBlock(bs, m)[i]]
    OBVIOUS
<1> HIDE DEF i, e
<1>14. e \in Entries(bs, m)
    BY <1>8, <1>10, <1>13 DEF Entries
<1>15. e.log = Accepts(h, j)
    BY <1>3, <1>11, <1>12, <1>13
<1>16. e.log.event = "RootAccepted"
    BY <1>15 DEF Accepts, RootAccepted
<1>17. AnswerOf(bs, e) /\ e.blockNumber <= n
    BY <1>7, <1>13, <1>14, <1>16 DEF AnswerOf
<1>18. e \in A
    BY <1>17 DEF WholeAnswer
<1>19. PlaceOf(bs, e) = p
    BY <1>10, <1>13 DEF PlaceOf
<1> QED BY <1>15, <1>18, <1>19 DEF h, p

(* Logs are in the order of their places, and have a place each. *)
LEMMA AnswerPlace ==
    ASSUME NEW bs \in Chains, NEW e, AnswerOf(bs, e)
    PROVE  /\ e.blockNumber \in 1..Len(bs) /\ e.logIndex \in Nat
           /\ PlaceOf(bs, e) \in Nat
           /\ EndOf(bs, e.blockNumber - 1) \in Nat
           /\ EndOf(bs, e.blockNumber - 1) < PlaceOf(bs, e)
           /\ PlaceOf(bs, e) <= EndOf(bs, e.blockNumber)
           /\ e = [blockNumber |-> e.blockNumber, logIndex |-> e.logIndex,
                   log |-> LogAt(bs, e.blockNumber)[PlaceOf(bs, e)]]
<1> DEFINE n == e.blockNumber
<1>1. n \in 1..Len(bs) /\ e \in Entries(bs, n) /\ n # 0
    BY DEF AnswerOf
<1>2. /\ e.logIndex \in 1..(EndOf(bs, n) - EndOf(bs, n - 1))
      /\ e = [blockNumber |-> n, logIndex |-> e.logIndex, log |-> e.log]
      /\ PlaceOf(bs, e) \in 1..Len(LogAt(bs, n))
      /\ e.log = LogAt(bs, n)[PlaceOf(bs, e)]
    BY <1>1, EntryIs
<1>3. EndOf(bs, n) \in Nat /\ EndOf(bs, n - 1) \in Nat
    BY <1>1, BlockEvents
<1>4. EndOf(bs, n) = Len(LogAt(bs, n))
    BY <1>1 DEF EndOf
<1>5. PlaceOf(bs, e) = EndOf(bs, n - 1) + e.logIndex
    BY DEF PlaceOf
<1> HIDE DEF n
<1>6. /\ e.logIndex \in Nat /\ PlaceOf(bs, e) \in Nat /\ EndOf(bs, n - 1) < PlaceOf(bs, e)
      /\ PlaceOf(bs, e) <= EndOf(bs, n)
    BY <1>2, <1>3, <1>4, <1>5
<1>7. e = [blockNumber |-> n, logIndex |-> e.logIndex, log |-> LogAt(bs, n)[PlaceOf(bs, e)]]
    BY <1>2
<1> QED BY <1>1, <1>3, <1>6, <1>7 DEF n

LEMMA PlaceOrder ==
    ASSUME NEW bs \in Chains, NEW a, NEW b, AnswerOf(bs, a), AnswerOf(bs, b)
    PROVE  /\ Before(a, b) => PlaceOf(bs, a) < PlaceOf(bs, b)
           /\ PlaceOf(bs, a) < PlaceOf(bs, b) => Before(a, b)
           /\ PlaceOf(bs, a) = PlaceOf(bs, b) => a = b
<1>1. /\ a.blockNumber \in 1..Len(bs) /\ a.logIndex \in Nat
      /\ PlaceOf(bs, a) \in Nat
      /\ EndOf(bs, a.blockNumber - 1) \in Nat
      /\ PlaceOf(bs, a) <= EndOf(bs, a.blockNumber)
      /\ a = [blockNumber |-> a.blockNumber, logIndex |-> a.logIndex,
              log |-> LogAt(bs, a.blockNumber)[PlaceOf(bs, a)]]
    BY AnswerPlace
<1>2. /\ b.blockNumber \in 1..Len(bs) /\ b.logIndex \in Nat
      /\ PlaceOf(bs, b) \in Nat
      /\ EndOf(bs, b.blockNumber - 1) \in Nat
      /\ PlaceOf(bs, b) <= EndOf(bs, b.blockNumber)
      /\ b = [blockNumber |-> b.blockNumber, logIndex |-> b.logIndex,
              log |-> LogAt(bs, b.blockNumber)[PlaceOf(bs, b)]]
    BY AnswerPlace
<1>3. Len(bs) \in Nat
    BY DEF Chains
<1>4. ASSUME NEW x, NEW y, AnswerOf(bs, x), AnswerOf(bs, y), x.blockNumber < y.blockNumber
      PROVE  PlaceOf(bs, x) < PlaceOf(bs, y)
  <2> DEFINE m == x.blockNumber
             n == y.blockNumber
  <2>1. m \in 1..Len(bs) /\ PlaceOf(bs, x) \in Nat /\ PlaceOf(bs, x) <= EndOf(bs, m)
      BY <1>4, AnswerPlace
  <2>2. n \in 1..Len(bs) /\ PlaceOf(bs, y) \in Nat /\ EndOf(bs, n - 1) < PlaceOf(bs, y)
      BY <1>4, AnswerPlace
  <2>3. m < n
      BY <1>4
  <2> HIDE DEF m, n
  <2>4. m \in 0..Len(bs) /\ n - 1 \in m..Len(bs)
      BY <1>3, <2>1, <2>2, <2>3
  <2>5. EndOf(bs, m) \in Nat /\ EndOf(bs, n - 1) \in Nat /\ EndOf(bs, m) <= EndOf(bs, n - 1)
      BY <2>4, EndOrder
  <2> QED BY <2>1, <2>2, <2>5
<1>5. ASSUME a.blockNumber = b.blockNumber
      PROVE  /\ a.logIndex < b.logIndex <=> PlaceOf(bs, a) < PlaceOf(bs, b)
             /\ PlaceOf(bs, a) = PlaceOf(bs, b) => a.logIndex = b.logIndex
  <2>1. /\ PlaceOf(bs, a) = EndOf(bs, a.blockNumber - 1) + a.logIndex
        /\ PlaceOf(bs, b) = EndOf(bs, a.blockNumber - 1) + b.logIndex
      BY <1>5 DEF PlaceOf
  <2> QED BY <1>1, <1>2, <2>1
<1>6. Before(a, b) => PlaceOf(bs, a) < PlaceOf(bs, b)
    BY <1>4, <1>5 DEF Before
<1>7. a.blockNumber = b.blockNumber \/ a.blockNumber < b.blockNumber \/ b.blockNumber < a.blockNumber
    BY <1>1, <1>2
<1>8. b.blockNumber < a.blockNumber => PlaceOf(bs, b) < PlaceOf(bs, a)
    BY <1>4
<1>9. PlaceOf(bs, a) < PlaceOf(bs, b) => Before(a, b)
    BY <1>1, <1>2, <1>5, <1>7, <1>8 DEF Before
<1>10. ASSUME PlaceOf(bs, a) = PlaceOf(bs, b) PROVE a = b
  <2>1. a.blockNumber = b.blockNumber
    <3>1. ~(a.blockNumber < b.blockNumber) /\ ~(b.blockNumber < a.blockNumber)
        BY <1>1, <1>2, <1>4, <1>8, <1>10
    <3> QED BY <1>7, <3>1
  <2>2. a.logIndex = b.logIndex
      BY <1>5, <1>10, <2>1
  <2> QED BY <1>1, <1>2, <1>10, <2>1, <2>2
<1> QED BY <1>6, <1>9, <1>10

-----------------------------------------------------------------------------
Distinct(h) == \A i, j \in 1..Len(h) : h[i] = h[j] => i = j

(* The logs of a prefix of the chain are neither ambiguous nor out of      *)
(* order.                                                                  *)
EntryAt(A, bs, j) == CHOOSE e \in A : PlaceOf(bs, e) = Position(All(bs), j)

LEMMA EntriesListed ==
    ASSUME NEW bs \in Chains, NEW n \in 1..Len(bs), NEW A, WholeAnswer(A, bs, n)
    PROVE  /\ Len(Upto(bs, n)) \in Nat /\ Len(Upto(bs, n)) \in 0..Len(All(bs))
           /\ \A j \in 0..Len(Upto(bs, n)) :
                 /\ EntryAt(A, bs, j) \in A
                 /\ PlaceOf(bs, EntryAt(A, bs, j)) = Position(All(bs), j)
                 /\ EntryAt(A, bs, j).log = Accepts(All(bs), j)
           /\ \A e \in A : \E j \in 0..Len(Upto(bs, n)) : EntryAt(A, bs, j) = e
<1> DEFINE h == All(bs)
           m == Len(Upto(bs, n))
<1>1. Len(bs) \in Nat /\ n \in 0..Len(bs) /\ bs \in Seq(Seq(Commitments))
    BY DEF Chains
<1>2. h \in Histories /\ m \in 0..Len(h)
    BY <1>1, ChainPrefix
<1>3. Len(h) \in Nat /\ m \in Nat
    BY <1>2, HistoriesAre
<1>4. \A j \in 0..m : \E e \in A : PlaceOf(bs, e) = Position(h, j) /\ e.log = Accepts(h, j)
    BY EntryFor
<1>5. \A e \in A : AnswerOf(bs, e) /\ e.blockNumber <= n
    BY DEF WholeAnswer
<1>6. \A a, b \in A : PlaceOf(bs, a) = PlaceOf(bs, b) => a = b
    BY <1>5, PlaceOrder
<1>7. ASSUME NEW j \in 0..m
      PROVE  /\ EntryAt(A, bs, j) \in A
             /\ PlaceOf(bs, EntryAt(A, bs, j)) = Position(h, j)
             /\ EntryAt(A, bs, j).log = Accepts(h, j)
  <2>1. PICK e \in A : PlaceOf(bs, e) = Position(h, j) /\ e.log = Accepts(h, j)
      BY <1>4
  <2>2. EntryAt(A, bs, j) \in A /\ PlaceOf(bs, EntryAt(A, bs, j)) = Position(h, j)
      BY <2>1 DEF EntryAt
  <2>3. EntryAt(A, bs, j) = e
      BY <1>6, <2>1, <2>2
  <2> QED BY <2>1, <2>2, <2>3
<1>8. ASSUME NEW e \in A PROVE \E j \in 0..m : EntryAt(A, bs, j) = e
  <2>1. AnswerOf(bs, e) /\ e.blockNumber <= n
      BY <1>5
  <2> DEFINE k == e.blockNumber
  <2>2. k \in 1..Len(bs) /\ e \in Entries(bs, k) /\ e.log.event = "RootAccepted"
      BY <2>1 DEF AnswerOf
  <2>3. PICK j \in 0..Len(Upto(bs, k)) : PlaceOf(bs, e) = Position(h, j)
      BY <2>2, EntryIs
  <2>4. k \in 0..n /\ k \in 0..Len(bs)
      BY <1>1, <2>1, <2>2
  <2>5. Len(Upto(bs, k)) <= m
      BY <1>1, <2>4, UptoOrder DEF PrefixOf
  <2>6. Len(Upto(bs, k)) \in 0..Len(h)
      BY <2>4, ChainPrefix
  <2> HIDE DEF h, m
  <2>7. j \in 0..m
      BY <1>3, <2>5, <2>6
  <2>8. EntryAt(A, bs, j) \in A /\ PlaceOf(bs, EntryAt(A, bs, j)) = PlaceOf(bs, e)
      BY <1>7, <2>3, <2>7
  <2>9. EntryAt(A, bs, j) = e
      BY <1>6, <2>8
  <2> QED BY <2>7, <2>9
<1> QED BY <1>2, <1>3, <1>7, <1>8

LEMMA NotAmbiguous ==
    ASSUME NEW bs \in Chains, Distinct(All(bs)), NEW n \in 1..Len(bs), NEW A, WholeAnswer(A, bs, n)
    PROVE  ~Ambiguous(A)
<1> DEFINE h == All(bs)
           m == Len(Upto(bs, n))
<1>1. Len(bs) \in Nat /\ n \in 0..Len(bs)
    BY DEF Chains
<1>2. h \in Histories /\ Len(h) \in Nat /\ m \in Nat /\ m <= Len(h)
  <2>1. h \in Histories /\ m \in 0..Len(h)
      BY <1>1, ChainPrefix
  <2> QED BY <2>1, HistoriesAre
<1>3. /\ \A j \in 0..m : EntryAt(A, bs, j).log = Accepts(h, j)
      /\ \A e \in A : \E j \in 0..m : EntryAt(A, bs, j) = e
    BY EntriesListed
<1>4. h \in Seq(Commitments) /\ ZERO \notin Commitments
    BY <1>2, HistoriesAre, ChainAssumption
<1>5. \A j \in 1..Len(h) : h[j] \in Commitments
    BY <1>4, ElementIn
<1>6. \A i, j \in 1..Len(h) : h[i] = h[j] => i = j
    BY DEF Distinct
<1> HIDE DEF h, m
<1>7. ASSUME NEW a \in A, NEW b \in A, a # b, a.logIndex = b.logIndex, a.blockNumber = b.blockNumber
      PROVE  FALSE
  <2>1. AnswerOf(bs, a) /\ AnswerOf(bs, b)
      BY <1>7 DEF WholeAnswer
  <2>2. PlaceOf(bs, a) = PlaceOf(bs, b)
      BY <1>7 DEF PlaceOf
  <2> QED BY <1>7, <2>1, <2>2, PlaceOrder
<1>8. ASSUME NEW a \in A, NEW b \in A, a # b, TransactionOf(a) = TransactionOf(b)
      PROVE  FALSE
  <2>1. PICK i \in 0..m : EntryAt(A, bs, i) = a
      BY <1>3
  <2>2. PICK j \in 0..m : EntryAt(A, bs, j) = b
      BY <1>3
  <2>3. /\ TransactionOf(a) = (IF i = 0 THEN ZERO ELSE h[i])
        /\ TransactionOf(b) = (IF j = 0 THEN ZERO ELSE h[j])
    <3>1. a.log = Accepts(h, i) /\ b.log = Accepts(h, j)
        BY <1>3, <2>1, <2>2
    <3>2. \A k \in 0..m : Accepts(h, k).insertedCommitment = IF k = 0 THEN ZERO ELSE h[k]
        BY DEF Accepts, RootAccepted
    <3>3. TransactionOf(a) = Accepts(h, i).insertedCommitment /\ TransactionOf(b) = Accepts(h, j).insertedCommitment
        BY <3>1 DEF TransactionOf
    <3> QED BY <3>2, <3>3
  <2>4. (i # 0 => i \in 1..Len(h)) /\ (j # 0 => j \in 1..Len(h))
      BY <1>2
  <2>5. i = j
      BY <1>4, <1>5, <1>6, <1>8, <2>3, <2>4
  <2> QED BY <1>8, <2>1, <2>2, <2>5
<1> QED BY <1>7, <1>8 DEF Ambiguous

LEMMA DecodedLog ==
    ASSUME NEW bs \in Chains, Distinct(All(bs)), NEW n \in 1..Len(bs), NEW A, WholeAnswer(A, bs, n)
    PROVE  /\ Decoded(A) \in Seq({e.log : e \in A})
           /\ Len(Decoded(A)) = Len(Upto(bs, n)) + 1
           /\ \A k \in 1..(Len(Upto(bs, n)) + 1) : Decoded(A)[k] = Accepts(All(bs), k - 1)
<1> DEFINE h == All(bs)
           m == Len(Upto(bs, n))
           f == [j \in 0..m |-> EntryAt(A, bs, j)]
           R == Order(A)
<1>1. Len(bs) \in Nat /\ n \in 0..Len(bs)
    BY DEF Chains
<1>2. m \in Nat /\ m <= Len(h) /\ Len(h) \in Nat /\ h \in Histories
  <2>1. h \in Histories /\ m \in 0..Len(h)
      BY <1>1, ChainPrefix
  <2> QED BY <2>1, HistoriesAre
<1>3. /\ \A j \in 0..m : /\ f[j] \in A
                         /\ PlaceOf(bs, f[j]) = Position(h, j)
                         /\ f[j].log = Accepts(h, j)
      /\ \A e \in A : \E j \in 0..m : f[j] = e
    BY EntriesListed
<1>4. \A e \in A : AnswerOf(bs, e)
    BY DEF WholeAnswer
<1>5. \A a, b \in A : <<a, b>> \in R <=> PlaceOf(bs, a) < PlaceOf(bs, b)
  <2> TAKE a, b \in A
  <2>1. <<a, b>> \in R <=> Before(a, b)
      BY DEF Order
  <2> QED BY <1>4, <2>1, PlaceOrder
<1>6. \A i, j \in 0..m : Position(h, i) < Position(h, j) <=> i < j
  <2> TAKE i, j \in 0..m
  <2>1. i \in 0..Len(h) /\ j \in 0..Len(h)
      BY <1>2
  <2>2. i < j => Position(h, i) < Position(h, j)
      BY <1>2, <2>1, PositionOrder
  <2>3. j < i => Position(h, j) < Position(h, i)
      BY <1>2, <2>1, PositionOrder
  <2>4. Position(h, i) \in Nat /\ Position(h, j) \in Nat
      BY <1>2, <2>1, PoolAlong DEF PoolIs, Announces
  <2> QED BY <2>2, <2>3, <2>4
<1> HIDE DEF f, R
<1>7. Lists(f, A, R, m)
  <2>1. \A i, j \in 0..m : <<f[i], f[j]>> \in R <=> i < j
      BY <1>3, <1>5, <1>6
  <2> QED BY <1>3, <2>1 DEF Lists
<1>8. /\ IsFiniteSet(A) /\ Cardinality(A) = m + 1
      /\ \A j \in 0..m : Cardinality(Under(A, R, f[j])) = j
    BY <1>2, <1>7, ListedRanks
<1>9. Placed(A)
  <2>1. \A e \in A : e.blockNumber \in Nat /\ e.logIndex \in Nat
      BY <1>4, AnswerIs
  <2> QED BY <2>1 DEF Placed
<1>10. /\ Decoded(A) \in Seq({e.log : e \in A})
       /\ Len(Decoded(A)) = Cardinality(A)
       /\ \A k \in 1..Cardinality(A) : \E e \in A :
             /\ Decoded(A)[k] = e.log
             /\ Cardinality(Under(A, R, e)) = k - 1
    BY <1>8, <1>9, NotAmbiguous, DecodedIs DEF R
<1> HIDE DEF m
<1>11. ASSUME NEW k \in 1..(m + 1) PROVE Decoded(A)[k] = Accepts(h, k - 1)
  <2>1. k \in 1..Cardinality(A)
      BY <1>8
  <2>2. PICK e \in A : Decoded(A)[k] = e.log /\ Cardinality(Under(A, R, e)) = k - 1
      BY <1>10, <2>1
  <2>3. PICK j \in 0..m : f[j] = e
      BY <1>3
  <2>4. j = k - 1
      BY <1>8, <2>2, <2>3
  <2> QED BY <1>3, <2>2, <2>3, <2>4
<1>12. Len(Decoded(A)) = m + 1
    BY <1>8, <1>10
<1> QED BY <1>10, <1>11, <1>12 DEF m, h

(* The records of a history, from the deployment's on, verify.             *)
RecordsOf(records, h, m) ==
    Len(records) = m + 1 /\ \A k \in 1..(m + 1) : records[k] = Accepts(h, k - 1)

StartOf(s, h, k) ==
    s \in Seq(Commitments) /\ Len(s) = k /\ \A i \in 1..k : s[i] = h[i]

LEMMA StartGrows ==
    ASSUME NEW h, NEW k \in Nat, NEW s, StartOf(s, h, k), h[k + 1] \in Commitments
    PROVE  StartOf(Append(s, h[k + 1]), h, k + 1)
<1> DEFINE c == h[k + 1]
           t == Append(s, c)
<1>1. s \in Seq(Commitments) /\ Len(s) = k /\ c \in Commitments
    BY DEF StartOf
<1> HIDE DEF c
<1>2. t \in Seq(Commitments) /\ Len(t) = k + 1 /\ (\A i \in 1..k : t[i] = s[i]) /\ t[k + 1] = c
    BY <1>1
<1> HIDE DEF t
<1>3. \A i \in 1..(k + 1) : t[i] = h[i]
  <2> TAKE i \in 1..(k + 1)
  <2>1. i \in 1..k \/ i = k + 1
      OBVIOUS
  <2> QED BY <1>2, <2>1 DEF StartOf, c
<1>4. StartOf(t, h, k + 1)
    BY <1>2, <1>3 DEF StartOf
<1> QED BY <1>4 DEF t, c

LEMMA PushedHistory ==
    ASSUME NEW T, NEW records \in Seq(T), NEW h \in Histories, NEW m \in 0..Len(h), RecordsOf(records, h, m)
    PROVE  \A k \in 0..m : StartOf(Pushed(records, k + 1), h, k)
<1> DEFINE Bad == {k \in 0..m : ~StartOf(Pushed(records, k + 1), h, k)}
<1>1. /\ Len(h) \in Nat /\ m \in Nat /\ h \in Seq(Commitments) /\ ZERO \notin Commitments
      /\ Len(records) = m + 1
    BY HistoriesAre, ChainAssumption DEF RecordsOf
<1>2. /\ Pushed(records, 0) = << >>
      /\ \A k \in 1..(m + 1) : Pushed(records, k) = PushLeaf(Pushed(records, k - 1), records[k])
    BY <1>1, PushedSteps
<1>3. 0 \notin Bad
  <2>1. 1 \in 1..(m + 1) /\ 1 - 1 = 0 /\ 0 + 1 = 1
      BY <1>1
  <2>2. records[1].insertedCommitment = ZERO
      BY <2>1 DEF RecordsOf, Accepts, RootAccepted
  <2>3. Pushed(records, 1) = << >>
      BY <1>2, <2>1, <2>2 DEF PushLeaf
  <2>4. StartOf(<< >>, h, 0)
    <3> DEFINE e == << >>
    <3>1. e \in Seq(Commitments) /\ Len(e) = 0
        BY NothingIn
    <3> HIDE DEF e
    <3>2. StartOf(e, h, 0)
        BY <3>1 DEF StartOf
    <3> QED BY <3>2 DEF e
  <2> QED BY <2>1, <2>3, <2>4
<1>4. ASSUME NEW k \in 0..(m - 1), k \notin Bad PROVE k + 1 \notin Bad
  <2>1. /\ k \in 0..m /\ k \in Nat /\ k + 1 \in 1..Len(h) /\ (k + 1) + 1 \in 1..(m + 1)
        /\ ((k + 1) + 1) - 1 = k + 1 /\ k + 1 # 0
      BY <1>1
  <2>2. StartOf(Pushed(records, k + 1), h, k)
      BY <1>4, <2>1
  <2>3. h[k + 1] \in Commitments /\ h[k + 1] # ZERO
      BY <1>1, <2>1, ElementIn
  <2>4. records[(k + 1) + 1].insertedCommitment = h[k + 1]
      BY <2>1 DEF RecordsOf, Accepts, RootAccepted
  <2>5. Pushed(records, (k + 1) + 1) = Append(Pushed(records, k + 1), h[k + 1])
    <3>1. Pushed(records, (k + 1) + 1) = PushLeaf(Pushed(records, k + 1), records[(k + 1) + 1])
        BY <1>2, <2>1
    <3> QED BY <2>3, <2>4, <3>1 DEF PushLeaf
  <2>6. StartOf(Append(Pushed(records, k + 1), h[k + 1]), h, k + 1)
      BY <2>1, <2>2, <2>3, StartGrows
  <2> QED BY <2>5, <2>6
<1>5. Bad \in SUBSET (0..m)
    OBVIOUS
<1> HIDE DEF Bad
<1>6. Bad = {}
    BY <1>1, <1>3, <1>4, <1>5, NoBadNumber
<1> QED BY <1>6 DEF Bad

LEMMA StartRoot ==
    ASSUME NEW h \in Histories, NEW k \in 1..Len(h), NEW s, StartOf(s, h, k)
    PROVE  s \in Histories /\ Len(s) <= Capacity /\ ComputedRoot[s] = Root(h, k)
<1>1. Len(h) \in Nat /\ Len(h) <= Capacity /\ Capacity \in Nat
    BY HistoriesAre, DepthAssumption, PowerPositive DEF Capacity
<1>2. s \in Seq(Commitments) /\ Len(s) = k /\ \A i \in 1..k : s[i] = h[i]
    BY DEF StartOf
<1>3. s \in Histories /\ Len(s) <= Capacity
    BY <1>1, <1>2, HistoriesAre
<1>4. s # << >>
    BY <1>2
<1>5. ComputedRoot[s] = Root(s, k)
    BY <1>2, <1>3, <1>4, ComputedRootIs
<1>6. Cut(s, k) = Cut(h, k)
  <2>1. \A i \in 0..(k - 1) : i + 1 \in 1..k
      OBVIOUS
  <2>2. \A i \in 0..(k - 1) : s[i + 1] = h[i + 1]
      BY <1>2, <2>1
  <2> QED BY <2>2 DEF Cut
<1> QED BY <1>3, <1>5, <1>6 DEF Root

LEMMA HistoryVerifies ==
    ASSUME NEW T, NEW records \in Seq(T), NEW h \in Histories, NEW m \in 0..Len(h), RecordsOf(records, h, m)
    PROVE  VerifyRootAcceptedChain(records) /\ StartOf(InsertedLeaves(records), h, m)
<1>1. /\ Len(h) \in Nat /\ m \in Nat /\ h \in Seq(Commitments) /\ ZERO \notin Commitments
      /\ Len(records) = m + 1 /\ DOMAIN records = 1..(m + 1)
    BY HistoriesAre, ChainAssumption DEF RecordsOf
<1>2. \A k \in 0..m : StartOf(Pushed(records, k + 1), h, k)
    BY PushedHistory
<1>3. StartOf(InsertedLeaves(records), h, m)
  <2>1. InsertedLeaves(records) = Pushed(records, m + 1)
      BY <1>1, PushedSteps
  <2> QED BY <1>1, <1>2, <2>1
<1>4. ASSUME NEW k \in DOMAIN records
      PROVE  LET acceptedRoot == IF k = 1 THEN InitialRoot ELSE records[k - 1].root
                 ls == InsertedLeaves(SubSeq(records, 1, k))
             IN  \/ /\ records[k].insertedCommitment = ZERO
                    /\ records[k].previousRoot = ZERO
                    /\ records[k].root = InitialRoot
                 \/ /\ records[k].insertedCommitment # ZERO
                    /\ Len(ls) <= Capacity
                    /\ LinksTo(records[k], acceptedRoot, ComputedRoot[ls])
  <2>1. k \in 1..(m + 1) /\ records[k] = Accepts(h, k - 1)
      BY <1>1 DEF RecordsOf
  <2>2. CASE k = 1
    <3>1. records[k] = RootAccepted(Root(h, 0), ZERO, ZERO)
        BY <2>1, <2>2 DEF Accepts
    <3>2. Root(h, 0) = InitialRoot
      <4>1. DOMAIN Cut(h, 0) = {}
          BY DEF Cut
      <4> QED BY <4>1, EmptyTree DEF Root
    <3> QED BY <3>1, <3>2 DEF RootAccepted
  <2>3. CASE k # 1
    <3> DEFINE j == k - 1
               ls == InsertedLeaves(SubSeq(records, 1, k))
    <3>1. j \in 1..m /\ j \in 1..Len(h) /\ j \in 0..m /\ k = j + 1 /\ j \in 1..(m + 1) /\ k \in 0..Len(records) /\ j # 0
        BY <1>1, <2>1, <2>3
    <3>2. records[k] = RootAccepted(Root(h, j), Root(h, j - 1), h[j])
        BY <2>1, <3>1 DEF Accepts
    <3>3. records[j].root = Root(h, j - 1)
      <4>1. records[j] = Accepts(h, j - 1)
          BY <3>1 DEF RecordsOf
      <4> QED BY <3>1, <4>1 DEF Accepts, RootAccepted
    <3>4. ls = Pushed(records, k)
        BY <3>1, PushedPrefix
    <3> HIDE DEF j, ls
    <3>5. StartOf(ls, h, j)
        BY <1>2, <3>1, <3>4
    <3>6. Len(ls) <= Capacity /\ ComputedRoot[ls] = Root(h, j)
        BY <3>1, <3>5, StartRoot
    <3>7. h[j] # ZERO
        BY <1>1, <3>1, ElementIn
    <3>8. /\ records[k].insertedCommitment # ZERO
          /\ LinksTo(records[k], records[j].root, ComputedRoot[ls])
        BY <3>2, <3>3, <3>6, <3>7 DEF RootAccepted, LinksTo
    <3> QED BY <2>3, <3>6, <3>8 DEF j, ls
  <2> QED BY <2>2, <2>3
<1>5. VerifyRootAcceptedChain(records)
    BY <1>4 DEF VerifyRootAcceptedChain
<1> QED BY <1>3, <1>5

(* So the whole answer for blocks that hold the note gives its path.       *)
LEMMA CompleteReconstructs ==
    ASSUME NEW bs \in Chains, Distinct(All(bs)), NEW n \in 1..Len(bs), NEW A, WholeAnswer(A, bs, n)
    PROVE  /\ ~Ambiguous(A)
           /\ VerifyRootAcceptedChain(Decoded(A))
           /\ Wanted \in ToSet(InsertedLeaves(Decoded(A))) <=> Wanted \in ToSet(Upto(bs, n))
<1> DEFINE h == All(bs)
           u == Upto(bs, n)
           m == Len(u)
           T == {e.log : e \in A}
           r == Decoded(A)
           w == InsertedLeaves(r)
<1>1. Len(bs) \in Nat /\ n \in 0..Len(bs)
    BY DEF Chains
<1>2. h \in Histories /\ u \in Histories /\ PrefixOf(u, h) /\ m \in 0..Len(h)
    BY <1>1, ChainPrefix
<1>3. r \in Seq(T) /\ RecordsOf(r, h, m)
    BY DecodedLog DEF RecordsOf
<1>4. u \in Seq(Commitments)
    BY <1>2, HistoriesAre
<1> HIDE DEF T, r, h
<1>5. VerifyRootAcceptedChain(r) /\ StartOf(w, h, m)
    BY <1>2, <1>3, HistoryVerifies
<1> HIDE DEF w, u
<1>6. w \in Seq(Commitments) /\ Len(w) = Len(u) /\ \A i \in 1..Len(u) : w[i] = u[i]
    BY <1>2, <1>5 DEF StartOf, PrefixOf
<1>7. w = u
    BY <1>4, <1>6
<1> QED BY <1>5, <1>7, NotAmbiguous DEF u, w, r

-----------------------------------------------------------------------------
(* A note behind the boundary stays behind it, and the client has all logs *)
(* of the blocks it went through.                                          *)
Due == dueAtStart /\ Confirmations > 0 /\ Confirmations >= MaxReorgDepth

DueInv ==
    /\ Distinct(All(blocks))
    /\ rpcErrors \in Nat
    /\ pc \in {"start", "receipt", "finality"} => finalizedToBlock = None
    /\ pc = "start" => ~dueAtStart
    /\ Due => /\ Latest > Confirmations
              /\ Wanted \in ToSet(Upto(blocks, Latest - Confirmations))
              /\ finalizedToBlock # None =>
                    finalizedToBlock >= 1 /\ Wanted \in ToSet(Upto(blocks, finalizedToBlock))

FetchInv ==
    pc = "chunk" /\ Confirmations > 0 /\ Confirmations >= MaxReorgDepth =>
        /\ source = "fallback" => toBlock = finalizedToBlock
        /\ cursor >= 1 /\ cursor <= toBlock + 1
        /\ WholeAnswer(logs, blocks, cursor - 1)

HintInv == DueInv /\ FetchInv /\ WrongHintsDoNotHide

LEMMA AnswerLocal ==
    ASSUME NEW bs \in Chains, NEW cs \in Chains, NEW m \in Nat, m <= Len(bs), m <= Len(cs),
           \A k \in 1..m : bs[k] = cs[k]
    PROVE  \A e : AnswerOf(bs, e) /\ e.blockNumber <= m <=> AnswerOf(cs, e) /\ e.blockNumber <= m
<1>1. Len(bs) \in Nat /\ Len(cs) \in Nat
  <2>1. bs \in Seq(Seq(Commitments)) /\ cs \in Seq(Seq(Commitments))
      BY DEF Chains
  <2> QED BY <2>1
<1>2. ASSUME NEW as \in Chains, NEW ds \in Chains, m <= Len(as), m <= Len(ds),
             \A k \in 1..m : as[k] = ds[k], NEW e, AnswerOf(as, e), e.blockNumber <= m,
             Len(as) \in Nat, Len(ds) \in Nat
      PROVE  AnswerOf(ds, e)
  <2> DEFINE n == e.blockNumber
  <2>1. n \in 1..Len(as) /\ e \in Entries(as, n) /\ e.log.event = "RootAccepted"
      BY <1>2 DEF AnswerOf
  <2> HIDE DEF n
  <2>2. n \in Nat /\ n >= 1 /\ n <= m /\ n <= Len(ds)
    <3>1. Len(as) \in Nat /\ Len(ds) \in Nat /\ m <= Len(ds) /\ m \in Nat
        BY <1>2
    <3>2. n <= m
        BY <1>2 DEF n
    <3> QED BY <2>1, <3>1, <3>2
  <2>3. n \in 1..Len(ds) /\ \A k \in 1..n : k \in 1..m
    <3>1. Len(ds) \in Nat /\ m \in Nat
        BY <1>2
    <3> QED BY <2>2, <3>1
  <2>4. \A k \in 1..n : as[k] = ds[k]
      BY <1>2, <2>3
  <2>5. EventsOfBlock(as, n) = EventsOfBlock(ds, n)
      BY <1>2, <2>1, <2>2, <2>4, BlockEventsLocal
  <2> QED BY <2>1, <2>3, <2>5 DEF AnswerOf, Entries, n
<1> QED BY <1>1, <1>2

LEMMA CompleteStays ==
    ASSUME NEW bs \in Chains, NEW cs \in Chains, Moved(bs, cs), NEW A, NEW m \in Nat,
           m <= Len(bs) - MaxReorgDepth, WholeAnswer(A, bs, m)
    PROVE  WholeAnswer(A, cs, m)
<1>1. Len(bs) \in Nat /\ Len(cs) \in Nat /\ MaxReorgDepth \in Nat
  <2>1. MaxReorgDepth \in Nat
      BY ChainAssumption
  <2>2. bs \in Seq(Seq(Commitments)) /\ cs \in Seq(Seq(Commitments))
      BY DEF Chains
  <2> QED BY <2>1, <2>2
<1>2. m <= Len(bs) /\ m <= Len(cs) /\ \A k \in 1..m : bs[k] = cs[k]
    BY <1>1 DEF Moved
<1> QED BY <1>2, AnswerLocal DEF WholeAnswer

(* The leaves of settled blocks stay. *)
LEMMA UptoStays ==
    ASSUME NEW bs \in Chains, NEW cs \in Chains, Moved(bs, cs), NEW m \in Nat,
           m <= Len(bs) - MaxReorgDepth
    PROVE  Upto(cs, m) = Upto(bs, m)
<1>1. bs \in Seq(Seq(Commitments)) /\ cs \in Seq(Seq(Commitments))
    BY DEF Chains
<1>2. Len(bs) \in Nat /\ Len(cs) \in Nat /\ MaxReorgDepth \in Nat
  <2>1. MaxReorgDepth \in Nat
      BY ChainAssumption
  <2> QED BY <1>1, <2>1
<1>3. m <= Len(bs) /\ m <= Len(cs) /\ \A k \in 1..m : bs[k] = cs[k]
    BY <1>2 DEF Moved
<1>4. m \in 0..Len(bs)
    BY <1>2, <1>3
<1> QED BY <1>1, <1>3, <1>4, UptoLocal

LEMMA UptoHolds ==
    ASSUME NEW bs \in Chains, NEW n \in 0..Len(bs), NEW m \in 0..n, NEW c, c \in ToSet(Upto(bs, m))
    PROVE  c \in ToSet(Upto(bs, n))
<1>1. bs \in Seq(Seq(Commitments)) /\ m \in 0..Len(bs)
  <2>1. bs \in Seq(Seq(Commitments))
      BY DEF Chains
  <2> QED BY <2>1
<1>2. PrefixOf(Upto(bs, m), Upto(bs, n)) /\ Upto(bs, m) \in Seq(Commitments) /\ Upto(bs, n) \in Seq(Commitments)
    BY <1>1, UptoOrder, UptoSteps
<1> DEFINE a == Upto(bs, m)
           b == Upto(bs, n)
<1> HIDE DEF a, b
<1>3. /\ a \in Seq(Commitments) /\ b \in Seq(Commitments)
      /\ Len(a) <= Len(b) /\ \A i \in 1..Len(a) : a[i] = b[i]
    BY <1>2 DEF a, b, PrefixOf
<1>4. c \in ToSet(a)
    BY DEF a
<1>5. PICK i \in 1..Len(a) : a[i] = c
    BY <1>3, <1>4 DEF ToSet
<1>6. i \in 1..Len(b) /\ b[i] = c
    BY <1>3, <1>5
<1>7. c \in ToSet(b)
    BY <1>3, <1>6 DEF ToSet
<1> QED BY <1>7 DEF b

(* No logs, no note. *)
LEMMA NothingDecoded ==
    Wanted \notin ToSet(InsertedLeaves(Decoded({})))
<1> DEFINE A == {}
           T == {e.log : e \in A}
           r == Decoded(A)
<1>1. IsFiniteSet(A) /\ Cardinality(A) = 0
    BY FS_EmptySet
<1>2. Placed(A) /\ ~Ambiguous(A)
    BY DEF Placed, Ambiguous
<1> HIDE DEF A
<1>3. r \in Seq(T) /\ Len(r) = 0
    BY <1>1, <1>2, DecodedIs
<1> HIDE DEF r, T
<1>4. InsertedLeaves(r) = << >>
    BY <1>3, PushedSteps
<1>5. ToSet(<< >>) = {}
    BY DEF ToSet
<1> QED BY <1>4, <1>5 DEF r, A

(* The client at the end of a range, in the situation of the property.     *)
LEMMA RangeEnds ==
    ASSUME RecoveryInv, FinalInv, HintInv, pc = "chunk", cursor > toBlock,
           Confirmations > 0, Confirmations >= MaxReorgDepth
    PROVE  /\ Wanted \in ToSet(InsertedLeaves(Decoded(logs))) => Reconstructs(Decoded(logs))
           /\ Due /\ source = "fallback" => ~Ambiguous(logs) /\ Reconstructs(Decoded(logs))
<1>1. /\ blocks \in Chains /\ Len(blocks) \in Nat /\ cursor \in Nat /\ toBlock \in Nat
      /\ Confirmations \in Nat /\ finalizedToBlock # None /\ finalizedToBlock \in Nat
      /\ toBlock <= finalizedToBlock /\ finalizedToBlock <= Len(blocks) - Confirmations
  <2>1. blocks \in Chains /\ cursor \in Nat /\ toBlock \in Nat
      BY DEF RecoveryInv, ChainInv, ClientInv
  <2>2. Len(blocks) \in Nat
    <3>1. blocks \in Seq(Seq(Commitments))
        BY <2>1 DEF Chains
    <3> QED BY <3>1
  <2>3. Confirmations \in Nat
      BY RecoveryAssumption DEF RecoveryInv, ClientInv, Confirmations
  <2>4. /\ finalizedToBlock # None /\ toBlock <= finalizedToBlock
        /\ finalizedToBlock <= Len(blocks) - Confirmations
      BY DEF FinalInv, BoundaryInv, Latest
  <2>5. finalizedToBlock \in Nat
      BY <2>4 DEF RecoveryInv, ClientInv
  <2> QED BY <2>1, <2>2, <2>3, <2>4, <2>5
<1>2. /\ cursor >= 1 /\ cursor <= toBlock + 1 /\ WholeAnswer(logs, blocks, cursor - 1)
      /\ source = "fallback" => toBlock = finalizedToBlock
    BY DEF HintInv, FetchInv
<1>3. cursor - 1 = toBlock
    BY <1>1, <1>2
<1>4. WholeAnswer(logs, blocks, toBlock) /\ toBlock \in 0..Len(blocks)
    BY <1>1, <1>2, <1>3
<1>5. Distinct(All(blocks))
    BY DEF HintInv, DueInv
<1>6. CASE toBlock = 0
  <2>1. \A e : e \notin logs
    <3>1. \A e : AnswerOf(blocks, e) => e.blockNumber \in 1..Len(blocks)
        BY DEF AnswerOf
    <3>2. \A e : ~(AnswerOf(blocks, e) /\ e.blockNumber <= 0)
        BY <1>1, <3>1
    <3> QED BY <1>4, <1>6, <3>2 DEF WholeAnswer
  <2>2. logs = {}
      BY <2>1
  <2>3. Due => finalizedToBlock >= 1
      BY <1>1 DEF HintInv, DueInv
  <2>4. ~(Due /\ source = "fallback")
      BY <1>1, <1>2, <1>6, <2>3
  <2> QED BY <2>2, <2>4, NothingDecoded
<1>7. CASE toBlock # 0
  <2>1. toBlock \in 1..Len(blocks)
      BY <1>4, <1>7
  <2>2. /\ ~Ambiguous(logs)
        /\ VerifyRootAcceptedChain(Decoded(logs))
        /\ Wanted \in ToSet(InsertedLeaves(Decoded(logs))) <=> Wanted \in ToSet(Upto(blocks, toBlock))
      BY <1>1, <1>4, <1>5, <2>1, CompleteReconstructs
  <2>3. Due => Wanted \in ToSet(Upto(blocks, finalizedToBlock))
      BY <1>1 DEF HintInv, DueInv
  <2> QED BY <1>2, <2>2, <2>3 DEF Reconstructs
<1> QED BY <1>6, <1>7

(* The chain moves. *)
LEMMA HintMoves ==
    ASSUME RecoveryInv, FinalInv, HintInv, UNCHANGED readerVars, Moved(blocks, blocks'),
           ChainInv', Distinct(All(blocks'))
    PROVE  HintInv'
<1>1. /\ UNCHANGED <<policy, pc, hintedToBlock, finalizedToBlock, source, toBlock, cursor, logs,
                     rpcErrors, dueAtStart>>
      /\ Confirmations' = Confirmations /\ (Due <=> Due')
    BY DEF readerVars, Confirmations, Due
<1>2. blocks \in Chains /\ blocks' \in Chains
    BY DEF RecoveryInv, ChainInv
<1>3. Latest = Len(blocks) /\ Latest' = Len(blocks') /\ Latest \in Nat /\ Latest' \in Nat
  <2>1. blocks \in Seq(Seq(Commitments)) /\ blocks' \in Seq(Seq(Commitments))
      BY <1>2 DEF Chains
  <2> QED BY <2>1 DEF Latest
<1>4. Confirmations \in Nat /\ MaxReorgDepth \in Nat /\ Latest <= Latest'
  <2>1. MaxReorgDepth \in Nat
      BY ChainAssumption
  <2>2. Confirmations \in Nat
      BY RecoveryAssumption DEF RecoveryInv, ClientInv, Confirmations
  <2> QED BY <1>3, <2>1, <2>2 DEF Moved
<1>5. ASSUME NEW m \in Nat, m <= Latest - Confirmations, Confirmations >= MaxReorgDepth
      PROVE  m <= Len(blocks) - MaxReorgDepth
    BY <1>3, <1>4, <1>5
<1>6. ASSUME Due
      PROVE  /\ Latest' > Confirmations
             /\ Wanted \in ToSet(Upto(blocks', Latest' - Confirmations))
             /\ finalizedToBlock # None =>
                   finalizedToBlock >= 1 /\ Wanted \in ToSet(Upto(blocks', finalizedToBlock))
  <2>1. Confirmations >= MaxReorgDepth
      BY <1>6 DEF Due
  <2>2. Latest > Confirmations /\ Wanted \in ToSet(Upto(blocks, Latest - Confirmations))
      BY <1>6 DEF HintInv, DueInv
  <2>3. Latest - Confirmations \in Nat /\ Latest - Confirmations \in 0..(Latest' - Confirmations)
        /\ Latest' - Confirmations \in 0..Len(blocks') /\ Latest' > Confirmations
      BY <1>3, <1>4, <2>2
  <2>4. Latest - Confirmations <= Len(blocks) - MaxReorgDepth
      BY <1>5, <2>1, <2>3
  <2>5. Upto(blocks', Latest - Confirmations) = Upto(blocks, Latest - Confirmations)
      BY <1>2, <2>3, <2>4, UptoStays
  <2>6. Wanted \in ToSet(Upto(blocks', Latest' - Confirmations))
      BY <1>2, <2>2, <2>3, <2>5, UptoHolds
  <2>7. ASSUME finalizedToBlock # None
        PROVE  finalizedToBlock >= 1 /\ Wanted \in ToSet(Upto(blocks', finalizedToBlock))
    <3>1. finalizedToBlock \in Nat /\ finalizedToBlock <= Latest - Confirmations
        BY <2>7 DEF RecoveryInv, ClientInv, FinalInv, BoundaryInv
    <3>2. finalizedToBlock <= Len(blocks) - MaxReorgDepth
        BY <1>5, <2>1, <3>1
    <3>3. Upto(blocks', finalizedToBlock) = Upto(blocks, finalizedToBlock)
        BY <1>2, <3>1, <3>2, UptoStays
    <3> QED BY <1>6, <2>7, <3>3 DEF HintInv, DueInv
  <2> QED BY <2>3, <2>6, <2>7
<1>7. DueInv'
    BY <1>1, <1>6 DEF HintInv, DueInv
<1>8. FetchInv'
  <2> SUFFICES ASSUME pc = "chunk", Confirmations > 0, Confirmations >= MaxReorgDepth
               PROVE  /\ source = "fallback" => toBlock = finalizedToBlock
                      /\ cursor >= 1 /\ cursor <= toBlock + 1
                      /\ WholeAnswer(logs, blocks', cursor - 1)
      BY <1>1 DEF FetchInv
  <2>1. /\ source = "fallback" => toBlock = finalizedToBlock
        /\ cursor >= 1 /\ cursor <= toBlock + 1
        /\ WholeAnswer(logs, blocks, cursor - 1)
      BY DEF HintInv, FetchInv
  <2>2. finalizedToBlock # None /\ toBlock <= finalizedToBlock /\ finalizedToBlock <= Latest - Confirmations
      BY DEF FinalInv, BoundaryInv
  <2>3. finalizedToBlock \in Nat /\ cursor \in Nat /\ toBlock \in Nat
      BY <2>2 DEF RecoveryInv, ClientInv
  <2>4. cursor - 1 \in Nat /\ cursor - 1 <= Latest - Confirmations
      BY <1>3, <1>4, <2>1, <2>2, <2>3
  <2>5. cursor - 1 <= Len(blocks) - MaxReorgDepth
      BY <1>5, <2>4
  <2>6. WholeAnswer(logs, blocks', cursor - 1)
      BY <1>2, <2>1, <2>4, <2>5, CompleteStays
  <2> QED BY <2>1, <2>6
<1>9. WrongHintsDoNotHide'
    BY <1>1 DEF HintInv, WrongHintsDoNotHide
<1> QED BY <1>7, <1>8, <1>9 DEF HintInv

-----------------------------------------------------------------------------
(* The client's steps.                                                     *)
LEMMA DueSteps ==
    ASSUME RecoveryInv, FinalInv, HintInv, Reader
    PROVE  DueInv'
<1>1. policy' = policy /\ blocks' = blocks /\ Latest' = Latest /\ Confirmations' = Confirmations
    BY DEF Reader, Start, Receipt, Finality, LatestBlock, Chunk, Finish, chainVars, Latest, Confirmations
<1>2. blocks \in Chains /\ Latest \in Nat /\ Latest = Len(blocks)
  <2>1. blocks \in Chains
      BY DEF RecoveryInv, ChainInv
  <2>2. blocks \in Seq(Seq(Commitments))
      BY <2>1 DEF Chains
  <2> QED BY <2>1, <2>2 DEF Latest
<1>3. Confirmations \in Nat /\ None \notin Nat
    BY RecoveryAssumption DEF RecoveryInv, ClientInv, Confirmations
<1>4. /\ Distinct(All(blocks)) /\ rpcErrors \in Nat
      /\ pc \in {"start", "receipt", "finality"} => finalizedToBlock = None
      /\ pc = "start" => ~dueAtStart
      /\ Due => /\ Latest > Confirmations
                /\ Wanted \in ToSet(Upto(blocks, Latest - Confirmations))
                /\ finalizedToBlock # None =>
                      finalizedToBlock >= 1 /\ Wanted \in ToSet(Upto(blocks, finalizedToBlock))
    BY DEF HintInv, DueInv
<1>5. rpcErrors' \in Nat
  <2>1. rpcErrors' = rpcErrors \/ RpcError
      BY DEF Reader, Start, Receipt, Finality, LatestBlock, Chunk, Finish
  <2> QED BY <1>4, <2>1 DEF RpcError
<1>6. CASE Start
  <2>1. /\ finalizedToBlock' = None /\ pc' \in {"receipt", "finality"}
        /\ dueAtStart' => /\ Latest > Confirmations
                          /\ Wanted \in ToSet(LeavesAt(Latest - Confirmations))
      BY <1>4, <1>6 DEF Start
  <2>2. ASSUME Latest > Confirmations
        PROVE  LeavesAt(Latest - Confirmations) = Upto(blocks, Latest - Confirmations)
    <3>1. Latest - Confirmations \in 0..Len(blocks)
        BY <1>2, <1>3, <2>2
    <3>2. blocks \in Seq(Seq(Commitments))
        BY <1>2 DEF Chains
    <3> QED BY <3>1, <3>2, FlattenPrefix DEF LeavesAt
  <2>3. Due' => dueAtStart'
      BY DEF Due
  <2> QED BY <1>1, <1>4, <1>5, <2>1, <2>2, <2>3 DEF DueInv
<1>7. ASSUME dueAtStart' = dueAtStart, pc' # "start",
             pc' \in {"receipt", "finality"} => finalizedToBlock' = None,
             \/ finalizedToBlock' = finalizedToBlock
             \/ finalizedToBlock' = Latest - Confirmations
      PROVE  DueInv'
  <2>1. Due' <=> Due
      BY <1>1, <1>7 DEF Due
  <2>2. Due /\ finalizedToBlock' # None =>
            finalizedToBlock' >= 1 /\ Wanted \in ToSet(Upto(blocks, finalizedToBlock'))
      BY <1>2, <1>3, <1>4, <1>7
  <2> QED BY <1>1, <1>4, <1>5, <1>7, <2>1, <2>2 DEF DueInv
<1>8. CASE Receipt
    BY <1>4, <1>7, <1>8 DEF Receipt
<1>9. CASE Finality
  <2>1. /\ dueAtStart' = dueAtStart
        /\ finalizedToBlock' = finalizedToBlock \/ finalizedToBlock' = Latest - Confirmations
      BY <1>9 DEF Finality, FinalityBoundary
  <2>2. pc' \in {"chunk", "latest", "failed"}
      BY <1>9 DEF Finality, BeginFetch, Fetch, Fail
  <2> QED BY <1>7, <2>1, <2>2
<1>10. CASE LatestBlock
    BY <1>7, <1>10 DEF LatestBlock, Fetch, Fail
<1>11. ASSUME Fallback PROVE pc' \in {"chunk", "latest"}
    BY <1>11 DEF Fallback, Fetch
<1>12. CASE Chunk
  <2>1. dueAtStart' = dueAtStart /\ finalizedToBlock' = finalizedToBlock
      BY <1>12 DEF Chunk
  <2>2. pc' \in {"chunk", "latest", "failed"}
      BY <1>11, <1>12 DEF Chunk, Fail
  <2> QED BY <1>7, <2>1, <2>2
<1>13. CASE Finish
  <2>1. dueAtStart' = dueAtStart /\ finalizedToBlock' = finalizedToBlock
      BY <1>13 DEF Finish
  <2>2. pc' \in {"chunk", "latest", "failed", "done"}
      BY <1>11, <1>13 DEF Finish, Fail
  <2> QED BY <1>7, <2>1, <2>2
<1> QED BY <1>6, <1>8, <1>9, <1>10, <1>12, <1>13 DEF Reader

LEMMA NoneComplete ==
    ASSUME NEW bs \in Chains
    PROVE  WholeAnswer({}, bs, 0)
<1>1. Len(bs) \in Nat
    BY DEF Chains
<1>2. \A e : AnswerOf(bs, e) => e.blockNumber \in 1..Len(bs)
    BY DEF AnswerOf
<1>3. \A e : ~(AnswerOf(bs, e) /\ e.blockNumber <= 0)
    BY <1>1, <1>2
<1> QED BY <1>3 DEF WholeAnswer

LEMMA MoreComplete ==
    ASSUME blocks \in Chains, NEW A, NEW m \in Nat, WholeAnswer(A, blocks, m),
           NEW n \in Nat, m <= n
    PROVE  WholeAnswer(A \cup GetLogs(m + 1, n), blocks, n)
<1> DEFINE G == GetLogs(m + 1, n)
<1>1. \A e : e \in G <=> AnswerOf(blocks, e) /\ e.blockNumber >= m + 1 /\ e.blockNumber <= n
    BY AnswersAre
<1>2. \A e : AnswerOf(blocks, e) => e.blockNumber \in Nat
    BY AnswerIs
<1> HIDE DEF G
<1>3. \A e : AnswerOf(blocks, e) /\ e.blockNumber <= m => e.blockNumber <= n
    BY <1>2
<1>4. \A e : AnswerOf(blocks, e) /\ e.blockNumber <= n =>
                e.blockNumber <= m \/ e.blockNumber >= m + 1
    BY <1>2
<1>5. \A e : e \in A \cup G <=> AnswerOf(blocks, e) /\ e.blockNumber <= n
    BY <1>1, <1>3, <1>4 DEF WholeAnswer
<1> QED BY <1>5 DEF WholeAnswer, G

LEMMA FetchSteps ==
    ASSUME RecoveryInv, FinalInv, HintInv, Reader
    PROVE  FetchInv'
<1>1. policy' = policy /\ blocks' = blocks /\ Latest' = Latest /\ Confirmations' = Confirmations
    BY DEF Reader, Start, Receipt, Finality, LatestBlock, Chunk, Finish, chainVars, Latest, Confirmations
<1>2. /\ blocks \in Chains /\ Confirmations \in Nat /\ None \notin Nat /\ Latest \in Nat
      /\ pc = "chunk" => toBlock \in Nat /\ cursor \in Nat
      /\ hintedToBlock \in Nat \cup {None} /\ finalizedToBlock \in Nat \cup {None}
  <2>1. blocks \in Chains
      BY DEF RecoveryInv, ChainInv
  <2>2. Latest \in Nat
    <3>1. blocks \in Seq(Seq(Commitments))
        BY <2>1 DEF Chains
    <3> QED BY <3>1 DEF Latest
  <2> QED BY <2>1, <2>2, RecoveryAssumption DEF RecoveryInv, ClientInv, Confirmations
<1>3. ASSUME NEW from, NEW last \in Nat, Fetch(from, last), from = "fallback" => last = finalizedToBlock'
      PROVE  FetchInv'
  <2>1. source' = from /\ toBlock' = last /\ cursor' = 1 /\ logs' = {}
      BY <1>3 DEF Fetch
  <2>2. WholeAnswer({}, blocks, 1 - 1)
      BY <1>2, NoneComplete
  <2>3. cursor' >= 1 /\ cursor' <= toBlock' + 1 /\ WholeAnswer(logs', blocks', cursor' - 1)
      BY <1>1, <2>1, <2>2
  <2> QED BY <1>3, <2>1, <2>3 DEF FetchInv
<1>4. ASSUME pc' # "chunk" \/ ~(Confirmations > 0) PROVE FetchInv'
    BY <1>1, <1>4 DEF FetchInv
<1>5. CASE Start
    BY <1>4, <1>5 DEF Start
<1>6. CASE Receipt
    BY <1>4, <1>6 DEF Receipt
<1>7. CASE Finality
  <2>1. CASE ~(Confirmations > 0)
      BY <1>4, <2>1
  <2>2. CASE Fail
      BY <1>4, <2>2 DEF Fail
  <2>3. CASE /\ DeepEnough(Latest)
             /\ finalizedToBlock' = FinalityBoundary(Latest)
             /\ BeginFetch(FinalityBoundary(Latest))
    <3> DEFINE b == FinalityBoundary(Latest)
    <3>1. b \in Nat /\ b # None
        BY <1>2, <2>3 DEF DeepEnough, FinalityBoundary
    <3> HIDE DEF b
    <3>2. finalizedToBlock' = b /\ BeginFetch(b)
        BY <2>3 DEF b
    <3>3. CASE Fetch("hint", hintedToBlock) /\ hintedToBlock # None
      <4>1. hintedToBlock \in Nat
          BY <1>2, <3>3
      <4> QED BY <1>3, <3>3, <4>1
    <3>4. CASE Fetch("fallback", b)
        BY <1>3, <3>1, <3>2, <3>4
    <3>5. CASE pc' # "chunk"
        BY <1>4, <3>5
    <3> QED BY <3>1, <3>2, <3>3, <3>4, <3>5 DEF BeginFetch, Fail
  <2> QED BY <1>2, <1>7, <2>1, <2>2, <2>3 DEF Finality
<1>8. CASE LatestBlock
  <2>1. ~(Confirmations > 0)
      BY <1>8 DEF LatestBlock, FinalInv, BoundaryInv
  <2> QED BY <1>4, <2>1
<1>9. ASSUME Fallback, finalizedToBlock' = finalizedToBlock PROVE FetchInv'
  <2>1. CASE finalizedToBlock # None
    <3>1. Fetch("fallback", finalizedToBlock) /\ finalizedToBlock \in Nat
        BY <1>2, <1>9, <2>1 DEF Fallback
    <3> QED BY <1>3, <1>9, <3>1
  <2>2. CASE finalizedToBlock = None
      BY <1>4, <1>9, <2>2 DEF Fallback
  <2> QED BY <2>1, <2>2
<1>10. CASE Chunk
  <2>1. pc = "chunk" /\ cursor <= toBlock /\ finalizedToBlock' = finalizedToBlock
      BY <1>10 DEF Chunk
  <2>2. CASE /\ logs' = logs \cup GetLogs(cursor, ChunkEnd)
             /\ cursor' = NextCursor(ChunkEnd)
             /\ UNCHANGED <<pc, source, toBlock>>
    <3> SUFFICES ASSUME Confirmations > 0, Confirmations >= MaxReorgDepth
                 PROVE  /\ source' = "fallback" => toBlock' = finalizedToBlock'
                        /\ cursor' >= 1 /\ cursor' <= toBlock' + 1
                        /\ WholeAnswer(logs', blocks', cursor' - 1)
        BY <1>1 DEF FetchInv
    <3>1. /\ source = "fallback" => toBlock = finalizedToBlock
          /\ cursor >= 1 /\ cursor <= toBlock + 1
          /\ WholeAnswer(logs, blocks, cursor - 1)
        BY <2>1 DEF HintInv, FetchInv
    <3>2. cursor \in Nat /\ toBlock \in Nat /\ ChunkSize \in Nat
        BY <1>2, <2>1, RecoveryAssumption
    <3>3. ChunkEnd \in Nat /\ cursor <= ChunkEnd /\ ChunkEnd <= toBlock
        BY <2>1, <3>2 DEF ChunkEnd
    <3>4. cursor' = ChunkEnd + 1
        BY <2>2 DEF NextCursor
    <3> DEFINE m == cursor - 1
               n == ChunkEnd
    <3>5. m \in Nat /\ m + 1 = cursor /\ n \in Nat /\ m <= n /\ cursor' - 1 = n
        BY <3>1, <3>2, <3>3, <3>4
    <3>6. WholeAnswer(logs, blocks, m)
        BY <3>1
    <3> HIDE DEF m, n
    <3>7. WholeAnswer(logs \cup GetLogs(m + 1, n), blocks, n)
        BY <1>2, <3>5, <3>6, MoreComplete
    <3>8. WholeAnswer(logs', blocks', cursor' - 1)
        BY <1>1, <2>2, <3>5, <3>7 DEF n
    <3>9. cursor' >= 1 /\ cursor' <= toBlock' + 1
        BY <2>2, <3>2, <3>3, <3>4
    <3> QED BY <2>1, <2>2, <3>1, <3>8, <3>9
  <2>3. CASE Fallback
      BY <1>9, <2>1, <2>3
  <2>4. CASE Fail
      BY <1>4, <2>4 DEF Fail
  <2> QED BY <1>10, <2>2, <2>3, <2>4 DEF Chunk
<1>11. CASE Finish
  <2>1. finalizedToBlock' = finalizedToBlock
      BY <1>11 DEF Finish
  <2>2. CASE Fallback
      BY <1>9, <2>1, <2>2
  <2>3. CASE Fail
      BY <1>4, <2>3 DEF Fail
  <2>4. CASE pc' = "done"
      BY <1>4, <2>4
  <2> QED BY <1>11, <2>2, <2>3, <2>4 DEF Finish
<1> QED BY <1>5, <1>6, <1>7, <1>8, <1>10, <1>11 DEF Reader

LEMMA FailSteps ==
    ASSUME RecoveryInv, FinalInv, StageInv, HintInv, Reader
    PROVE  WrongHintsDoNotHide'
<1>1. policy' = policy /\ Latest' = Latest /\ Confirmations' = Confirmations
    BY DEF Reader, Start, Receipt, Finality, LatestBlock, Chunk, Finish, chainVars, Latest, Confirmations
<1>2. Confirmations \in Nat /\ rpcErrors \in Nat /\ Latest \in Nat
  <2>1. blocks \in Seq(Seq(Commitments))
      BY DEF RecoveryInv, ChainInv, Chains
  <2>2. Latest \in Nat
      BY <2>1 DEF Latest
  <2> QED BY <2>2, RecoveryAssumption DEF RecoveryInv, ClientInv, Confirmations, HintInv, DueInv
<1> SUFFICES ASSUME pc' = "failed", Confirmations > 0, Confirmations >= MaxReorgDepth, dueAtStart', rpcErrors' = 0
             PROVE  hintedToBlock' > finalizedToBlock'
    BY <1>1 DEF WrongHintsDoNotHide
<1>3. ~RpcError
    BY <1>2 DEF RpcError
<1>4. ~Start /\ ~Receipt
    BY DEF Start, Receipt
<1>5. dueAtStart
    BY <1>4 DEF Reader, Finality, LatestBlock, Chunk, Finish
<1>6. Due /\ Latest > Confirmations
    BY <1>5 DEF Due, HintInv, DueInv
<1>7. ~Fallback
    BY DEF Fallback, Fetch
<1>8. CASE Finality
  <2>1. DeepEnough(Latest)
      BY <1>2, <1>6 DEF DeepEnough
  <2>2. /\ finalizedToBlock' = FinalityBoundary(Latest) /\ hintedToBlock' = hintedToBlock
        /\ BeginFetch(FinalityBoundary(Latest))
      BY <1>2, <1>3, <1>8, <2>1 DEF Finality
  <2>3. hintedToBlock > FinalityBoundary(Latest)
      BY <2>2 DEF BeginFetch, Fetch
  <2> QED BY <2>2, <2>3
<1>9. CASE LatestBlock
    BY <1>9 DEF LatestBlock, FinalInv, BoundaryInv
<1>10. CASE Chunk
    BY <1>3, <1>10 DEF Chunk
<1>11. CASE Finish
  <2>1. pc = "chunk" /\ cursor > toBlock
      BY <1>11 DEF Finish
  <2>2. /\ Wanted \in ToSet(InsertedLeaves(Decoded(logs))) => Reconstructs(Decoded(logs))
        /\ source = "fallback" => ~Ambiguous(logs) /\ Reconstructs(Decoded(logs))
      BY <1>6, <2>1, RangeEnds
  <2>3. source = "hint" \/ source = "fallback"
      BY DEF StageInv
  <2> QED BY <1>7, <1>11, <2>2, <2>3 DEF Finish, ConfirmHint
<1> QED BY <1>4, <1>8, <1>9, <1>10, <1>11 DEF Reader

LEMMA HintInvHolds == Spec => []HintInv
<1>1. Init => HintInv
  <2> SUFFICES ASSUME Init PROVE HintInv
      OBVIOUS
  <2>1. blocks = << << >> >>
      BY DEF Init, ChainInit
  <2>2. All(blocks) = << >>
    <3>1. ChainInv
        BY ChainStarts DEF Init
    <3>2. everLeaves = {<< >>}
        BY DEF Init, ChainInit
    <3> QED BY <3>1, <3>2 DEF ChainInv
  <2>3. Distinct(<< >>)
      BY DEF Distinct
  <2> QED BY <2>2, <2>3 DEF Init, ReaderInit, HintInv, DueInv, FetchInv, WrongHintsDoNotHide, Due
<1>2. /\ RecoveryInv /\ RecoveryInv' /\ FinalInv /\ StageInv /\ HintInv /\ [Next]_vars
      => HintInv'
  <2> SUFFICES ASSUME RecoveryInv, RecoveryInv', FinalInv, StageInv, HintInv, [Next]_vars
               PROVE  HintInv'
      OBVIOUS
  <2>1. ChainInv /\ ChainInv' /\ Distinct(All(blocks))
      BY DEF RecoveryInv, HintInv, DueInv
  <2>2. CASE Reader
      BY <2>2, DueSteps, FetchSteps, FailSteps DEF HintInv
  <2>3. ASSUME UNCHANGED readerVars, Moved(blocks, blocks'), Possible(All(blocks'))
        PROVE  HintInv'
    <3>1. Distinct(All(blocks'))
      <4>1. All(blocks') \in Histories
          BY <2>1 DEF ChainInv, Chains, All
      <4>2. DOMAIN All(blocks') = 1..Len(All(blocks'))
        <5>1. All(blocks') \in Seq(Commitments)
            BY <4>1, HistoriesAre
        <5> QED BY <5>1
      <4> QED BY <2>3, <4>2 DEF Possible, IsInjective, Distinct
    <3> QED BY <2>1, <2>3, <3>1, HintMoves
  <2>4. CASE Mine /\ UNCHANGED readerVars
      BY <2>1, <2>3, <2>4, MineMoves
  <2>5. CASE Reorg /\ UNCHANGED readerVars
      BY <2>1, <2>3, <2>5, ReorgMoves
  <2>6. CASE UNCHANGED vars
    <3>1. UNCHANGED readerVars /\ blocks' = blocks
        BY <2>6 DEF vars, chainVars
    <3>2. Moved(blocks, blocks')
      <4>1. blocks \in Seq(Seq(Commitments))
          BY <2>1 DEF ChainInv, Chains
      <4>2. Len(blocks) \in Nat
          BY <4>1
      <4> QED BY <3>1, <4>2 DEF Moved
    <3> QED BY <2>1, <3>1, <3>2, HintMoves
  <2> QED BY <2>2, <2>4, <2>5, <2>6 DEF Next
<1> QED BY <1>1, <1>2, RecoveryInvHolds, FinalInvHolds, StageInvHolds, PTL DEF Spec

(* Hints are advisory: under a finality policy of at least the depth of    *)
(* reorganisations, a note that was behind the boundary when recovery      *)
(* started is recovered unless RPC requests fail or the hinted block is    *)
(* beyond the boundary. What the client holds at the end of a range are    *)
(* all the logs of its blocks, sorted they are the chain's history, and    *)
(* that history verifies; when it lacks the note the range was a hint, and *)
(* the range up to the boundary is fetched (fetchRootAcceptedLogs and its  *)
(* fallback).                                                              *)
THEOREM WrongHintsNeverHide == Spec => []WrongHintsDoNotHide
<1>1. HintInv => WrongHintsDoNotHide
    BY DEF HintInv
<1> QED BY <1>1, HintInvHolds, PTL

-----------------------------------------------------------------------------
IngestStep(c, s, log) == IngestLog(s, log)
Ingests == INSTANCE FoldInduction WITH Op <- IngestStep
MergeStep(c, merged, next) == MergeRange(merged, next)
Merges == INSTANCE FoldInduction WITH Op <- MergeStep
Visits == INSTANCE FoldInduction WITH Op <- VisitRange

LEMMA ServiceFoldsInduct == \A n \in Nat :
    /\ Ingests!Inducts(n)
    /\ Merges!Inducts(n)
    /\ Visits!Inducts(n)
BY NoBadNumber DEF Ingests!Inducts, Merges!Inducts, Visits!Inducts

(* The state of the indexer as a batch is started on, and while its logs   *)
(* are processed one after the other.                                      *)
IndexNow ==
    [leaves |-> leavesByIndex, byCommitment |-> indexByCommitment, cache |-> pathCache,
     roots |-> roots, expired |-> expiredRoots, nullifiers |-> nullifiers,
     notes |-> encryptedNotes, ok |-> TRUE]

Goes(st, batch) ==
    /\ st[0] = IndexNow
    /\ \A k \in 1..Len(batch) : st[k] = IngestLog(st[k - 1], batch[k])
    /\ IngestLogs(batch) = st[Len(batch)]

LEMMA IngestGoes ==
    ASSUME NEW T, NEW batch \in Seq(T)
    PROVE  \E st : Goes(st, batch)
<1> DEFINE n == Len(batch)
<1>1. n \in Nat /\ DOMAIN batch = 1..n
    OBVIOUS
<1>2. PICK st : Ingests!Passes(st, 0, IndexNow, batch, n) /\ Ingests!Folded(0, IndexNow, batch) = st[n]
    BY <1>1, Ingests!FoldPasses, ServiceFoldsInduct
<1>3. st[0] = IndexNow /\ \A k \in 1..n : st[k] = IngestLog(st[k - 1], batch[k])
    BY <1>2 DEF Ingests!Passes, IngestStep
<1>4. IngestLogs(batch) = FoldLeft(IngestLog, IndexNow, batch)
    BY DEF IngestLogs, IndexNow
<1>5. FoldLeft(IngestLog, IndexNow, batch) = Ingests!Folded(0, IndexNow, batch)
    BY DEF FoldLeft, MapThenFoldSet, Ingests!Folded, Ingests!Unfolds, Max, Ingests!Largest, IngestStep
<1> QED BY <1>2, <1>3, <1>4, <1>5 DEF Goes

-----------------------------------------------------------------------------
(* Whatever forks its logs are from, the index is consistent with itself,  *)
(* what it remembers is up to date and the roots it accepts are the pool's. *)
IndexOK(L, by) ==
    /\ DOMAIN L \subseteq 0..(Capacity - 1)
    /\ \A i \in DOMAIN L : L[i] \in Commitments
    /\ \A c \in DOMAIN by : by[c] \in DOMAIN L /\ L[by[c]] = c

PathsFor(L, by) == {PathOf(L, by[c]) : c \in DOMAIN by}

PoolRoots == UNION {RootsOf(h) : h \in everLeaves}

IndexState(s) ==
    /\ s = [leaves |-> s.leaves, byCommitment |-> s.byCommitment, cache |-> s.cache,
            roots |-> s.roots, expired |-> s.expired, nullifiers |-> s.nullifiers,
            notes |-> s.notes, ok |-> s.ok]
    /\ IndexOK(s.leaves, s.byCommitment)
    /\ s.cache \in Seq(PathsFor(s.leaves, s.byCommitment))
    /\ s.roots \subseteq PoolRoots

LEMMA InsertKeeps ==
    ASSUME NEW L, NEW by, IndexOK(L, by), NEW c \in Commitments, NEW i \in 0..(Capacity - 1),
           c \in DOMAIN by => by[c] = i, i \in DOMAIN L => L[i] = c
    PROVE  IndexOK(SetEntry(L, i, c), SetEntry(by, c, i))
BY DEF IndexOK, SetEntry

LEMMA InsertState ==
    ASSUME NEW s, IndexState(s), NEW c \in Commitments, NEW i \in 0..(Capacity - 1)
    PROVE  IndexState(InsertIndexedCommitment(s, c, i))
<1>1. CASE Conflict(s, c, i)
    BY <1>1 DEF InsertIndexedCommitment, IndexState
<1>2. CASE ~Conflict(s, c, i)
  <2> DEFINE t == InsertIndexedCommitment(s, c, i)
             L == SetEntry(s.leaves, i, c)
             by == SetEntry(s.byCommitment, c, i)
  <2>1. IndexOK(L, by)
      BY <1>2, InsertKeeps DEF IndexState, Conflict
  <2>2. << >> \in Seq(PathsFor(L, by))
      BY NothingIn
  <2>3. t = [s EXCEPT !.leaves = L, !.byCommitment = by, !.cache = << >>]
      BY <1>2 DEF InsertIndexedCommitment, ClearCache
  <2> HIDE DEF L, by, t
  <2>4. /\ t = [leaves |-> L, byCommitment |-> by, cache |-> << >>, roots |-> s.roots,
                expired |-> s.expired, nullifiers |-> s.nullifiers, notes |-> s.notes, ok |-> s.ok]
      BY <2>3 DEF IndexState
  <2>5. IndexState(t)
      BY <2>1, <2>2, <2>4 DEF IndexState
  <2> QED BY <2>5 DEF t
<1> QED BY <1>1, <1>2

LEMMA LogState ==
    ASSUME NEW h \in everLeaves, h \in Histories, NEW e \in EventsOf(h), NEW s, IndexState(s)
    PROVE  IndexState(IngestLog(s, e))
<1>1. CASE ~s.ok
    BY <1>1 DEF IngestLog
<1>2. CASE s.ok
  <2>1. ASSUME NEW j \in 0..Len(h), e = Accepts(h, j)
        PROVE  IndexState(IngestLog(s, e))
    <3>1. e.event = "RootAccepted" /\ e.root = Root(h, j)
        BY <2>1 DEF Accepts, RootAccepted
    <3>2. e.root \in PoolRoots
        BY <3>1, RootsOfHistory DEF RootsUpto, PoolRoots
    <3>3. IngestLog(s, e) = [s EXCEPT !.expired = @ \ {e.root}, !.roots = @ \cup {e.root}]
        BY <1>2, <3>1 DEF IngestLog
    <3> QED BY <3>2, <3>3 DEF IndexState
  <2>2. ASSUME NEW j \in 0..Len(h), e = RootExpired(Root(h, j))
        PROVE  IndexState(IngestLog(s, e))
    <3>1. e.event = "RootExpired"
        BY <2>2 DEF RootExpired
    <3>2. IngestLog(s, e) = [s EXCEPT !.roots = @ \ {e.root}, !.expired = @ \cup {e.root}]
        BY <1>2, <3>1 DEF IngestLog
    <3> QED BY <3>2 DEF IndexState
  <2>3. ASSUME NEW j \in 1..Len(h), e = NullifierSpent(h[j])
        PROVE  IndexState(IngestLog(s, e))
    <3>1. e.event = "NullifierSpent"
        BY <2>3 DEF NullifierSpent
    <3>2. IngestLog(s, e) = [s EXCEPT !.nullifiers = @ \cup {e.nullifier}]
        BY <1>2, <3>1 DEF IngestLog
    <3> QED BY <3>2 DEF IndexState
  <2>4. ASSUME NEW j \in 1..Len(h), e = NoteCreated(h[j], j - 1)
        PROVE  IndexState(IngestLog(s, e))
    <3> DEFINE t == InsertIndexedCommitment(s, h[j], j - 1)
    <3>1. e.event = "NoteCreated" /\ e.commitment = h[j] /\ e.leafIndex = j - 1
        BY <2>4 DEF NoteCreated
    <3>2. h[j] \in Commitments /\ j - 1 \in 0..(Capacity - 1)
      <4>1. h \in Seq(Commitments) /\ Len(h) <= Capacity /\ Capacity \in Nat
          BY HistoriesAre, DepthAssumption, PowerPositive DEF Capacity
      <4> QED BY <4>1
    <3>3. IndexState(t)
        BY <3>2, InsertState
    <3>4. IngestLog(s, e) = IF t.ok THEN [t EXCEPT !.notes = @ \cup {<<h[j], j - 1>>}] ELSE t
        BY <1>2, <3>1 DEF IngestLog, AddEncryptedNoteEvent
    <3> HIDE DEF t
    <3> QED BY <3>3, <3>4 DEF IndexState
  <2> QED BY <2>1, <2>2, <2>3, <2>4 DEF EventsOf
<1> QED BY <1>1, <1>2

LEMMA BatchState ==
    ASSUME NEW h \in everLeaves, h \in Histories, NEW batch \in Seq(EventsOf(h)), IndexState(IndexNow)
    PROVE  IndexState(IngestLogs(batch))
<1> DEFINE n == Len(batch)
<1>1. PICK st : Goes(st, batch)
    BY IngestGoes
<1> DEFINE Bad == {k \in 0..n : ~IndexState(st[k])}
<1>2. n \in Nat
    OBVIOUS
<1>3. 0 \notin Bad
    BY <1>1 DEF Goes
<1>4. ASSUME NEW k \in 0..(n - 1), k \notin Bad PROVE k + 1 \notin Bad
  <2>1. k \in 0..n /\ k + 1 \in 1..n /\ (k + 1) - 1 = k
      OBVIOUS
  <2>2. st[k + 1] = IngestLog(st[k], batch[k + 1]) /\ batch[k + 1] \in EventsOf(h)
      BY <1>1, <2>1, ElementIn DEF Goes
  <2> QED BY <1>4, <2>1, <2>2, LogState
<1>5. Bad \in SUBSET (0..n)
    OBVIOUS
<1> HIDE DEF Bad
<1>6. Bad = {}
    BY <1>2, <1>3, <1>4, <1>5, NoBadNumber
<1>7. n \in 0..n
    BY <1>2
<1> QED BY <1>1, <1>6, <1>7 DEF Bad, Goes

-----------------------------------------------------------------------------
(* The logs of a range of blocks are those of its blocks.                  *)
LEMMA JoinSet ==
    ASSUME NEW S, NEW a \in Seq(S), NEW b \in Seq(S)
    PROVE  ToSet(a \o b) = ToSet(a) \cup ToSet(b)
<1> DEFINE c == a \o b
<1>1. c \in Seq(S) /\ Len(c) = Len(a) + Len(b)
    BY JoinIn
<1>2. (\A i \in 1..Len(a) : c[i] = a[i]) /\ (\A i \in 1..Len(b) : c[Len(a) + i] = b[i])
    BY JoinIn
<1>3. Len(a) \in Nat /\ Len(b) \in Nat /\ DOMAIN a = 1..Len(a) /\ DOMAIN b = 1..Len(b) /\ DOMAIN c = 1..Len(c)
    BY <1>1
<1> HIDE DEF c
<1>4. ASSUME NEW i \in DOMAIN c PROVE c[i] \in ToSet(a) \cup ToSet(b)
  <2>1. CASE i <= Len(a)
      BY <1>1, <1>2, <1>3, <2>1 DEF ToSet
  <2>2. CASE i > Len(a)
    <3>1. i - Len(a) \in 1..Len(b) /\ Len(a) + (i - Len(a)) = i
        BY <1>1, <1>3, <2>2
    <3>2. c[i] = b[i - Len(a)]
        BY <1>2, <3>1
    <3> QED BY <1>3, <3>1, <3>2 DEF ToSet
  <2> QED BY <1>1, <1>3, <2>1, <2>2
<1>5. \A i \in DOMAIN a : a[i] \in ToSet(c)
  <2> TAKE i \in DOMAIN a
  <2>1. i \in DOMAIN c /\ c[i] = a[i]
      BY <1>1, <1>2, <1>3
  <2> QED BY <2>1 DEF ToSet
<1>6. \A i \in DOMAIN b : b[i] \in ToSet(c)
  <2> TAKE i \in DOMAIN b
  <2>1. Len(a) + i \in DOMAIN c /\ c[Len(a) + i] = b[i]
      BY <1>1, <1>2, <1>3
  <2> QED BY <2>1 DEF ToSet
<1>7. ToSet(c) = ToSet(a) \cup ToSet(b)
    BY <1>4, <1>5, <1>6 DEF ToSet
<1> QED BY <1>7 DEF c

SetsUpto(bs, n) == UNION {ToSet(bs[k]) : k \in 1..n}

LEMMA UptoSet ==
    ASSUME NEW S, NEW bs \in Seq(Seq(S)), NEW m \in 0..Len(bs)
    PROVE  ToSet(Upto(bs, m)) = SetsUpto(bs, m)
<1> DEFINE Bad == {k \in 0..m : ToSet(Upto(bs, k)) # SetsUpto(bs, k)}
<1>1. Len(bs) \in Nat /\ m \in Nat
    OBVIOUS
<1>2. 0 \notin Bad
  <2>1. Upto(bs, 0) = << >> /\ ToSet(Upto(bs, 0)) = {}
    <3>1. Upto(bs, 0) = << >>
        BY UptoSteps
    <3>2. Len(<< >>) = 0 /\ << >> \in Seq(S)
        BY NothingIn
    <3>3. DOMAIN Upto(bs, 0) = {}
        BY <3>1, <3>2
    <3> QED BY <3>1, <3>3 DEF ToSet
  <2>2. SetsUpto(bs, 0) = {}
      BY DEF SetsUpto
  <2> QED BY <2>1, <2>2
<1>3. ASSUME NEW k \in 0..(m - 1), k \notin Bad PROVE k + 1 \notin Bad
  <2>1. k \in 0..m /\ k + 1 \in 1..Len(bs) /\ (k + 1) - 1 = k /\ k \in 0..Len(bs)
      BY <1>1
  <2>2. Upto(bs, k + 1) = Upto(bs, k) \o bs[k + 1] /\ Upto(bs, k) \in Seq(S)
      BY <2>1, UptoSteps
  <2>3. bs[k + 1] \in Seq(S)
      BY <2>1, ElementIn
  <2>4. ToSet(Upto(bs, k + 1)) = ToSet(Upto(bs, k)) \cup ToSet(bs[k + 1])
      BY <2>2, <2>3, JoinSet
  <2>5. 1..(k + 1) = (1..k) \cup {k + 1}
      BY <2>1
  <2>6. SetsUpto(bs, k + 1) = SetsUpto(bs, k) \cup ToSet(bs[k + 1])
      BY <2>5 DEF SetsUpto
  <2>7. ToSet(Upto(bs, k)) = SetsUpto(bs, k)
      BY <1>3, <2>1
  <2> QED BY <2>4, <2>6, <2>7
<1>4. Bad \in SUBSET (0..m) /\ m \in 0..m
    BY <1>1
<1> HIDE DEF Bad
<1>5. Bad = {}
    BY <1>1, <1>2, <1>3, <1>4, NoBadNumber
<1> QED BY <1>4, <1>5 DEF Bad

(* The events of the blocks in a set. *)
SeenIn(bs, N) == UNION {ToSet(EventsOfBlock(bs, n)) : n \in N}

LEMMA RangeLogs ==
    ASSUME blocks \in Chains, NEW r \in Ranges
    PROVE  /\ LogsIn(r) \in Seq(EventsOf(All(blocks)))
           /\ ToSet(LogsIn(r)) = SeenIn(blocks, r.fromBlock..r.toBlock)
<1> DEFINE E == EventsOf(All(blocks))
           m == r.toBlock - r.fromBlock + 1
           parts == [k \in 1..m |-> EventsIn(r.fromBlock + k - 1)]
<1>1. /\ r.fromBlock \in 1..Len(blocks) /\ r.toBlock \in 1..Len(blocks) /\ r.fromBlock <= r.toBlock
      /\ Len(blocks) \in Nat
    BY DEF Ranges, Latest, Chains
<1>2. m \in Nat /\ \A k \in 1..m : r.fromBlock + k - 1 \in r.fromBlock..r.toBlock
    BY <1>1
<1>3. \A n : EventsIn(n) = EventsOfBlock(blocks, n)
    BY DEF EventsIn, LeavesAt, EventsOfBlock
<1>4. \A n \in r.fromBlock..r.toBlock : EventsIn(n) \in Seq(E)
  <2> TAKE n \in r.fromBlock..r.toBlock
  <2>1. n \in 1..Len(blocks)
      BY <1>1
  <2> QED BY <1>3, <2>1, BlockEvents
<1>5. \A k \in 1..m : parts[k] = EventsIn(r.fromBlock + k - 1) /\ parts[k] \in Seq(E)
    BY <1>2, <1>4
<1>6. parts \in Seq(Seq(E)) /\ Len(parts) = m
    BY <1>2, <1>5
<1>7. LogsIn(r) = FlattenSeq(parts)
    BY DEF LogsIn
<1> HIDE DEF parts, E
<1>8. LogsIn(r) = Upto(parts, m) /\ m \in 0..Len(parts)
    BY <1>2, <1>6, <1>7, FlattenIs
<1>9. LogsIn(r) \in Seq(E)
    BY <1>6, <1>8, UptoSteps
<1>10. ToSet(LogsIn(r)) = SetsUpto(parts, m)
    BY <1>6, <1>8, UptoSet
<1>11. \A n \in r.fromBlock..r.toBlock : n - r.fromBlock + 1 \in 1..m /\ r.fromBlock + (n - r.fromBlock + 1) - 1 = n
    BY <1>1
<1>12. SetsUpto(parts, m) = SeenIn(blocks, r.fromBlock..r.toBlock)
  <2>1. ASSUME NEW k \in 1..m
        PROVE  \E n \in r.fromBlock..r.toBlock : parts[k] = EventsOfBlock(blocks, n)
      BY <1>2, <1>3, <1>5
  <2>2. ASSUME NEW n \in r.fromBlock..r.toBlock
        PROVE  \E k \in 1..m : parts[k] = EventsOfBlock(blocks, n)
      BY <1>3, <1>5, <1>11
  <2> HIDE DEF m
  <2> QED BY <2>1, <2>2 DEF SetsUpto, SeenIn
<1> QED BY <1>9, <1>10, <1>12 DEF E

-----------------------------------------------------------------------------
(* A query.                                                                *)
IndexInv == ChainInv /\ IndexState(IndexNow)

LEMMA IndexParts ==
    ASSUME IndexState(IndexNow)
    PROVE  /\ IndexOK(leavesByIndex, indexByCommitment)
           /\ pathCache \in Seq(PathsFor(leavesByIndex, indexByCommitment))
           /\ roots \subseteq PoolRoots
BY DEF IndexState, IndexNow

LEMMA PathForIs ==
    ASSUME IndexState(IndexNow), NEW c \in DOMAIN indexByCommitment
    PROVE  /\ PathFor(c) = PathOf(leavesByIndex, indexByCommitment[c])
           /\ PathFor(c).commitment = c
           /\ indexByCommitment[c] \in Nat /\ indexByCommitment[c] < Capacity
           /\ Cached(c) # {} => CachedAt(c) \in 1..Len(pathCache)
           /\ PathFor(c) \in PathsFor(leavesByIndex, indexByCommitment)
<1> DEFINE L == leavesByIndex
           by == indexByCommitment
<1>1. IndexOK(L, by) /\ pathCache \in Seq(PathsFor(L, by))
    BY IndexParts
<1>2. Capacity \in Nat
    BY DepthAssumption, PowerPositive DEF Capacity
<1>3. DOMAIN L \subseteq Nat /\ by[c] \in DOMAIN L /\ by[c] \in Nat /\ by[c] < Capacity
    BY <1>1, <1>2 DEF IndexOK
<1>4. \A d \in DOMAIN by : PathOf(L, by[d]).commitment = d
    BY <1>1 DEF IndexOK, PathOf, NodeAt
<1>5. CASE Cached(c) = {}
  <2>1. PathFor(c) = IndexedPath(L, by[c])
      BY <1>5 DEF PathFor
  <2>2. PathFor(c) = PathOf(L, by[c])
      BY <1>3, <2>1, IndexedPathIs
  <2> QED BY <1>3, <1>4, <1>5, <2>2 DEF PathsFor
<1>6. CASE Cached(c) # {}
  <2> DEFINE k == CachedAt(c)
  <2>1. k \in DOMAIN pathCache /\ pathCache[k].commitment = c
      BY <1>6 DEF CachedAt, Cached
  <2>2. DOMAIN pathCache = 1..Len(pathCache)
      BY <1>1
  <2>3. pathCache[k] \in PathsFor(L, by)
      BY <1>1, <2>1, <2>2, ElementIn
  <2>4. PICK d \in DOMAIN by : pathCache[k] = PathOf(L, by[d])
      BY <2>3 DEF PathsFor
  <2>5. d = c
      BY <1>4, <2>1, <2>4
  <2>6. PathFor(c) = pathCache[k]
      BY <1>6 DEF PathFor
  <2> QED BY <1>3, <1>4, <2>1, <2>2, <2>3, <2>4, <2>5, <2>6
<1> QED BY <1>5, <1>6

LEMMA RemoveOne ==
    ASSUME NEW T, NEW s \in Seq(T), NEW k \in 1..Len(s)
    PROVE  RemoveAt(s, k) \in Seq(T)
BY DEF RemoveAt

LEMMA RememberKeeps ==
    ASSUME IndexState(IndexNow), NEW c \in DOMAIN indexByCommitment
    PROVE  Remember(PathFor(c)) \in Seq(PathsFor(leavesByIndex, indexByCommitment))
<1> DEFINE T == PathsFor(leavesByIndex, indexByCommitment)
           p == PathFor(c)
           others == IF Cached(c) # {} THEN RemoveAt(pathCache, CachedAt(c)) ELSE pathCache
           all == Append(others, p)
<1>1. p.commitment = c /\ p \in T /\ (Cached(c) # {} => CachedAt(c) \in 1..Len(pathCache))
    BY PathForIs
<1>2. pathCache \in Seq(T)
    BY IndexParts
<1> HIDE DEF T, p
<1>3. others \in Seq(T)
    BY <1>1, <1>2, RemoveOne
<1>4. Remember(p) = IF Len(all) > MaxPathCacheEntries THEN Tail(all) ELSE all
    BY <1>1 DEF Remember
<1> HIDE DEF others
<1>5. all \in Seq(T) /\ all # << >>
    BY <1>1, <1>3
<1> HIDE DEF all
<1>6. Tail(all) \in Seq(T)
    BY <1>5
<1>7. Remember(p) \in Seq(T)
    BY <1>4, <1>5, <1>6
<1> QED BY <1>7 DEF T, p

LEMMA ServiceStarts ==
    ASSUME ServiceInit
    PROVE  IndexInv
<1>1. ChainInv
    BY ChainStarts DEF ServiceInit
<1>2. IndexOK(leavesByIndex, indexByCommitment) /\ roots \subseteq PoolRoots
    BY DEF ServiceInit, IndexerInit, IndexOK
<1>3. pathCache \in Seq(PathsFor(leavesByIndex, indexByCommitment))
    BY NothingIn DEF ServiceInit, IndexerInit
<1> QED BY <1>1, <1>2, <1>3 DEF IndexInv, IndexState, IndexNow

LEMMA IngestState ==
    ASSUME IndexInv, NEW r \in Ranges, Ingest(r)
    PROVE  IndexState(IndexNow)' /\ UNCHANGED chainVars
<1> DEFINE h == All(blocks)
           s == IngestLogs(LogsIn(r))
<1>1. h \in everLeaves /\ h \in Histories /\ blocks \in Chains
    BY DEF IndexInv, ChainInv
<1>2. LogsIn(r) \in Seq(EventsOf(h))
    BY <1>1, RangeLogs
<1>3. IndexState(s)
    BY <1>1, <1>2, BatchState DEF IndexInv
<1>4. /\ leavesByIndex' = s.leaves /\ indexByCommitment' = s.byCommitment
      /\ pathCache' = s.cache /\ roots' = s.roots /\ UNCHANGED chainVars
    BY DEF Ingest
<1> HIDE DEF s
<1>5. PoolRoots' = PoolRoots
    BY <1>4 DEF PoolRoots, chainVars
<1>6. /\ IndexOK(leavesByIndex, indexByCommitment)'
      /\ (pathCache \in Seq(PathsFor(leavesByIndex, indexByCommitment)))'
      /\ (roots \subseteq PoolRoots)'
    BY <1>3, <1>4, <1>5 DEF IndexState
<1>7. IndexState(IndexNow)'
    BY <1>6 DEF IndexState, IndexNow
<1> QED BY <1>4, <1>7

LEMMA ServiceSteps ==
    ASSUME IndexInv, [ServiceNext]_serviceVars
    PROVE  IndexInv'
<1>1. CASE (Mine \/ Reorg) /\ UNCHANGED indexerVars
  <2>1. ChainInv' /\ everLeaves \subseteq everLeaves'
      BY <1>1, MineMoves, ReorgMoves DEF IndexInv
  <2>2. IndexNow' = IndexNow /\ PoolRoots \subseteq PoolRoots'
      BY <1>1, <2>1 DEF IndexNow, indexerVars, stateVars, PoolRoots
  <2>3. IndexState(IndexNow)'
      BY <2>2 DEF IndexInv, IndexState
  <2> QED BY <2>1, <2>3 DEF IndexInv
<1>2. ASSUME NEW r \in Ranges, Ingest(r) PROVE IndexInv'
  <2>1. IndexState(IndexNow)' /\ UNCHANGED chainVars
      BY <1>2, IngestState
  <2> QED BY <2>1 DEF IndexInv, ChainInv, chainVars
<1>3. ASSUME NEW c \in Commitments, NEW v12 \in BOOLEAN, NEW n \in 1..Latest, Query(c, v12, n)
      PROVE  IndexInv'
  <2>1. c \in DOMAIN indexByCommitment
      BY <1>3 DEF Query, Status
  <2>2. Remember(PathFor(c)) \in Seq(PathsFor(leavesByIndex, indexByCommitment))
      BY <2>1, RememberKeeps DEF IndexInv
  <2>3. /\ pathCache' = Remember(PathFor(c))
        /\ UNCHANGED <<chainVars, leavesByIndex, indexByCommitment, roots>>
      BY <1>3 DEF Query
  <2>4. /\ IndexOK(leavesByIndex, indexByCommitment)'
        /\ (pathCache \in Seq(PathsFor(leavesByIndex, indexByCommitment)))'
        /\ (roots \subseteq PoolRoots)'
      BY <2>2, <2>3, IndexParts DEF IndexInv, PoolRoots, chainVars
  <2>5. IndexState(IndexNow)'
      BY <2>4 DEF IndexState, IndexNow
  <2> QED BY <2>3, <2>5 DEF IndexInv, ChainInv, chainVars
<1>4. CASE UNCHANGED serviceVars
  <2>1. IndexNow' = IndexNow /\ UNCHANGED chainVars
      BY <1>4 DEF IndexNow, serviceVars, indexerVars, stateVars
  <2> QED BY <2>1 DEF IndexInv, ChainInv, chainVars, IndexState, PoolRoots
<1> QED BY <1>1, <1>2, <1>3, <1>4 DEF ServiceNext

LEMMA IndexInvHolds == ServiceSpec => []IndexInv
<1>1. ServiceInit => IndexInv
    BY ServiceStarts
<1>2. IndexInv /\ [ServiceNext]_serviceVars => IndexInv'
    BY ServiceSteps
<1> QED BY <1>1, <1>2, PTL DEF ServiceSpec

(* A path the indexer serves opens the note under a root the pool really   *)
(* computed, whichever forks its logs came from. Its index is consistent   *)
(* with itself (insertIndexedCommitment throws otherwise and clears the    *)
(* cache), so a cached path is the one it would build now, and the handler *)
(* answers 409 to a root that no log announced.                            *)
THEOREM ServedPathsAreOfOneFork == ServiceSpec => []ServedPathIsOfOneFork
<1>1. ASSUME IndexInv, NEW c \in Commitments, NEW v12 \in BOOLEAN, NEW n \in 1..Latest,
             Served(c, v12, n)
      PROVE  \A path \in {PathFor(c)} :
                /\ path.commitment = c
                /\ VerifyMerklePath(path)
                /\ path.root \in UNION {RootsOf(h) : h \in everLeaves}
  <2>1. c \in DOMAIN indexByCommitment /\ PathFor(c).root \in roots
      BY <1>1 DEF Served, Status, RootConfirmed
  <2>2. VerifyMerklePath(PathFor(c)) /\ PathFor(c).commitment = c
      BY <1>1, <2>1, PathForIs, TreePathVerifies DEF IndexInv
  <2>3. PathFor(c).root \in PoolRoots
      BY <1>1, <2>1, IndexParts DEF IndexInv
  <2> QED BY <2>2, <2>3 DEF PoolRoots
<1>2. IndexInv => ServedPathIsOfOneFork
    BY <1>1 DEF ServedPathIsOfOneFork
<1> QED BY <1>2, IndexInvHolds, PTL

-----------------------------------------------------------------------------
(* The events of each transaction, and of each block.                      *)
From(n, s) == {s[i] : i \in (n + 1)..Len(s)}

LEMMA FromJoin ==
    ASSUME NEW T, NEW a \in Seq(T), NEW b \in Seq(T), NEW n \in 0..Len(a)
    PROVE  From(n, a \o b) = From(n, a) \cup ToSet(b)
<1> DEFINE c == a \o b
<1>1. c \in Seq(T) /\ Len(c) = Len(a) + Len(b)
    BY JoinIn
<1>2. (\A i \in 1..Len(a) : c[i] = a[i]) /\ (\A i \in 1..Len(b) : c[Len(a) + i] = b[i])
    BY JoinIn
<1>3. Len(a) \in Nat /\ Len(b) \in Nat /\ DOMAIN b = 1..Len(b)
    OBVIOUS
<1> HIDE DEF c
<1>4. ASSUME NEW i \in (n + 1)..Len(c) PROVE c[i] \in From(n, a) \cup ToSet(b)
  <2>1. CASE i <= Len(a)
    <3>1. i \in (n + 1)..Len(a) /\ c[i] = a[i]
        BY <1>2, <1>3, <2>1
    <3> QED BY <3>1 DEF From
  <2>2. CASE i > Len(a)
    <3>1. i - Len(a) \in 1..Len(b) /\ Len(a) + (i - Len(a)) = i
        BY <1>1, <1>3, <2>2
    <3>2. c[i] = b[i - Len(a)]
        BY <1>2, <3>1
    <3> QED BY <1>3, <3>1, <3>2 DEF ToSet
  <2> QED BY <1>3, <2>1, <2>2
<1>5. \A i \in (n + 1)..Len(a) : a[i] \in From(n, c)
  <2> TAKE i \in (n + 1)..Len(a)
  <2>1. i \in (n + 1)..Len(c) /\ c[i] = a[i]
      BY <1>1, <1>2, <1>3
  <2> QED BY <2>1 DEF From
<1>6. \A i \in DOMAIN b : b[i] \in From(n, c)
  <2> TAKE i \in DOMAIN b
  <2>1. Len(a) + i \in (n + 1)..Len(c) /\ c[Len(a) + i] = b[i]
      BY <1>1, <1>2, <1>3
  <2> QED BY <2>1 DEF From
<1>7. From(n, c) = From(n, a) \cup ToSet(b)
    BY <1>4, <1>5, <1>6 DEF ToSet, From
<1> QED BY <1>7 DEF c

LEMMA OneElement == ASSUME NEW T, NEW x \in T PROVE <<x>> \in Seq(T) /\ ToSet(<<x>>) = {x}
<1>1. <<x>> \in Seq(T) /\ Len(<<x>>) = 1 /\ DOMAIN <<x>> = 1..1 /\ <<x>>[1] = x
    OBVIOUS
<1> QED BY <1>1 DEF ToSet

LEMMA NoElement == ToSet(<< >>) = {}
<1>1. << >> \in Seq({}) /\ Len(<< >>) = 0
    OBVIOUS
<1>2. DOMAIN << >> = {}
    BY <1>1
<1> QED BY <1>2 DEF ToSet

LEMMA FromWritten ==
    ASSUME NEW T, NEW old \in Seq(T), NEW expired \in Seq(T), NEW accepted \in T,
           NEW used \in Seq(T), NEW note \in T
    PROVE  From(Len(old), Written(old, expired, accepted, used, note))
               = ToSet(expired) \cup {accepted} \cup ToSet(used) \cup {note}
<1> DEFINE a == old \o expired
           b == a \o <<accepted>>
           c == b \o used
<1>1. a \in Seq(T) /\ Len(a) = Len(old) + Len(expired)
    BY JoinIn
<1>2. <<accepted>> \in Seq(T) /\ <<note>> \in Seq(T)
    BY OneElement
<1>3. b \in Seq(T) /\ Len(b) = Len(a) + Len(<<accepted>>)
    BY <1>1, <1>2, JoinIn
<1>4. c \in Seq(T) /\ Len(c) = Len(b) + Len(used)
    BY <1>3, JoinIn
<1>5. Len(old) \in Nat /\ Len(expired) \in Nat /\ Len(used) \in Nat /\ Len(<<accepted>>) = 1
    OBVIOUS
<1>6. Written(old, expired, accepted, used, note) = c \o <<note>>
    BY DEF Written
<1>7. From(Len(old), old) = {}
    BY <1>5 DEF From
<1>8. From(Len(old), a) = From(Len(old), old) \cup ToSet(expired)
    BY <1>5, FromJoin
<1>9. Len(old) \in 0..Len(a)
    BY <1>1, <1>5
<1> HIDE DEF a
<1>10. From(Len(old), b) = From(Len(old), a) \cup ToSet(<<accepted>>)
    BY <1>1, <1>2, <1>9, FromJoin
<1>11. Len(old) \in 0..Len(b)
    BY <1>1, <1>3, <1>5
<1> HIDE DEF b
<1>12. From(Len(old), c) = From(Len(old), b) \cup ToSet(used)
    BY <1>3, <1>11, FromJoin
<1>13. Len(old) \in 0..Len(c)
    BY <1>3, <1>4, <1>5, <1>11
<1> HIDE DEF c
<1>14. From(Len(old), c \o <<note>>) = From(Len(old), c) \cup ToSet(<<note>>)
    BY <1>2, <1>4, <1>13, FromJoin
<1>15. ToSet(<<accepted>>) = {accepted} /\ ToSet(<<note>>) = {note}
    BY OneElement
<1> QED BY <1>6, <1>7, <1>8, <1>10, <1>12, <1>14, <1>15

(* Transaction j, from 1, and the deployment of the pool as the 0th.       *)
Expiry(h, j) ==
    IF j >= ROOT_HISTORY_SIZE THEN {RootExpired(Root(h, j - ROOT_HISTORY_SIZE))} ELSE {}
Spending(h, j) == IF j > 0 /\ h[j] \in Spends THEN {NullifierSpent(h[j])} ELSE {}
Creation(h, j) == IF j > 0 THEN {NoteCreated(h[j], j - 1)} ELSE {}

Emits(h, j) == {Accepts(h, j)} \cup Expiry(h, j) \cup Spending(h, j) \cup Creation(h, j)

Log(h, j) == PoolSt(h, j).events

LEMMA LogIs ==
    ASSUME NEW h \in Histories, NEW k \in 0..Len(h)
    PROVE  Log(h, k) \in Seq(EventsOf(h)) /\ Len(Log(h, k)) \in Nat
<1>1. Log(h, k) \in Seq(EventsOf(h))
    BY PoolAlong DEF PoolIs, Announces, Log
<1> QED BY <1>1

LEMMA TransactionEmits ==
    ASSUME NEW h \in Histories, NEW k \in 1..Len(h)
    PROVE  From(Len(Log(h, k - 1)), Log(h, k)) = Emits(h, k)
<1> DEFINE E == EventsOf(h)
           s == PoolSt(h, k - 1)
           old == Log(h, k - 1)
<1>1. k \in Nat /\ k # 0 /\ k > 0 /\ k \in 0..Len(h) /\ k - 1 \in 0..Len(h) /\ Len(h) \in Nat
    BY HistoriesAre
<1>2. ROOT_HISTORY_SIZE \in Nat /\ ROOT_HISTORY_SIZE > 0
    BY ChainAssumption
<1>3. PoolIs(s, h, k - 1)
    BY <1>1, PoolAlong
<1>4. Log(h, k) = Written(old, ExpiredBy(s), Accepts(h, k), SpentBy(h[k]), NoteCreated(h[k], k - 1))
    BY <1>3, OneTransaction DEF Log
<1>5. old \in Seq(E)
    BY <1>1, LogIs
<1>6. Accepts(h, k) \in E /\ NoteCreated(h[k], k - 1) \in E
    BY <1>1 DEF EventsOf
<1>7. ExpiredBy(s) \in Seq(E) /\ ToSet(ExpiredBy(s)) = Expiry(h, k)
  <2>1. Len(s.roots) = k /\ \A j \in 0..(k - 1) : s.roots[j + 1] = Root(h, j)
      BY <1>1, <1>3 DEF PoolIs, RootsAre
  <2>2. CASE k >= ROOT_HISTORY_SIZE
    <3> DEFINE x == RootExpired(Root(h, k - ROOT_HISTORY_SIZE))
    <3>1. k - ROOT_HISTORY_SIZE \in 0..(k - 1) /\ k - ROOT_HISTORY_SIZE \in 0..Len(h)
        BY <1>1, <1>2, <2>2
    <3>2. s.roots[k - ROOT_HISTORY_SIZE + 1] = Root(h, k - ROOT_HISTORY_SIZE)
        BY <2>1, <3>1
    <3>3. ExpiredBy(s) = <<x>>
        BY <2>1, <2>2, <3>2 DEF ExpiredBy
    <3>4. x \in E
        BY <3>1 DEF EventsOf
    <3>5. Expiry(h, k) = {x}
        BY <2>2 DEF Expiry
    <3> HIDE DEF x, E
    <3> QED BY <3>3, <3>4, <3>5, OneElement
  <2>3. CASE ~(k >= ROOT_HISTORY_SIZE)
    <3>1. ExpiredBy(s) = << >>
        BY <2>1, <2>3 DEF ExpiredBy
    <3>2. Expiry(h, k) = {}
        BY <2>3 DEF Expiry
    <3> QED BY <3>1, <3>2, NothingIn, NoElement
  <2> QED BY <2>2, <2>3
<1>8. SpentBy(h[k]) \in Seq(E) /\ ToSet(SpentBy(h[k])) = Spending(h, k)
  <2> DEFINE x == NullifierSpent(h[k])
  <2>1. CASE h[k] \in Spends
    <3>1. x \in E
        BY <1>1, <2>1 DEF EventsOf
    <3>2. SpentBy(h[k]) = <<x>> /\ Spending(h, k) = {x}
        BY <1>1, <2>1 DEF SpentBy, Spending
    <3> HIDE DEF x, E
    <3> QED BY <3>1, <3>2, OneElement
  <2>2. CASE h[k] \notin Spends
    <3>1. SpentBy(h[k]) = << >> /\ Spending(h, k) = {}
        BY <2>2 DEF SpentBy, Spending
    <3> QED BY <3>1, NothingIn, NoElement
  <2> QED BY <2>1, <2>2
<1>9. Creation(h, k) = {NoteCreated(h[k], k - 1)}
    BY <1>1 DEF Creation
<1> HIDE DEF E, s, old
<1>10. From(Len(old), Log(h, k))
           = ToSet(ExpiredBy(s)) \cup {Accepts(h, k)} \cup ToSet(SpentBy(h[k])) \cup {NoteCreated(h[k], k - 1)}
    BY <1>4, <1>5, <1>6, <1>7, <1>8, FromWritten
<1> QED BY <1>7, <1>8, <1>9, <1>10 DEF Emits, old

LEMMA FromTwice ==
    ASSUME NEW T, NEW s \in Seq(T), NEW t \in Seq(T), PrefixOf(s, t), NEW n \in 0..Len(s)
    PROVE  From(n, t) = From(n, s) \cup From(Len(s), t)
<1>1. Len(s) \in Nat /\ Len(t) \in Nat /\ Len(s) <= Len(t)
    BY DEF PrefixOf
<1>2. \A i \in (n + 1)..Len(s) : t[i] = s[i]
    BY <1>1 DEF PrefixOf
<1>3. (n + 1)..Len(t) = ((n + 1)..Len(s)) \cup ((Len(s) + 1)..Len(t))
    BY <1>1
<1> QED BY <1>2, <1>3 DEF From

EmitsIn(h, J) == UNION {Emits(h, j) : j \in J}

LEMMA LogSegment ==
    ASSUME NEW h \in Histories, NEW m \in 0..Len(h), NEW k \in m..Len(h)
    PROVE  From(Len(Log(h, m)), Log(h, k)) = EmitsIn(h, (m + 1)..k)
<1> DEFINE Seg(j) == From(Len(Log(h, m)), Log(h, j))
           Bad == {j \in 0..k : j >= m /\ Seg(j) # EmitsIn(h, (m + 1)..j)}
<1>1. Len(h) \in Nat /\ m \in Nat /\ k \in Nat /\ m <= k /\ k <= Len(h)
    BY HistoriesAre
<1>2. Seg(m) = EmitsIn(h, (m + 1)..m)
  <2>1. Len(Log(h, m)) \in Nat
      BY LogIs
  <2>2. Seg(m) = {}
      BY <2>1 DEF From
  <2>3. (m + 1)..m = {}
      BY <1>1
  <2>4. EmitsIn(h, (m + 1)..m) = {}
      BY <2>3 DEF EmitsIn
  <2> QED BY <2>2, <2>4
<1>3. ASSUME NEW j \in 0..(k - 1), j >= m, Seg(j) = EmitsIn(h, (m + 1)..j)
      PROVE  Seg(j + 1) = EmitsIn(h, (m + 1)..(j + 1))
  <2>1. /\ j + 1 \in 1..Len(h) /\ (j + 1) - 1 = j /\ j \in 0..Len(h) /\ j + 1 \in 0..Len(h)
        /\ j \in m..Len(h) /\ j + 1 \in j..Len(h)
      BY <1>1, <1>3
  <2>2. PrefixOf(Log(h, m), Log(h, j)) /\ PrefixOf(Log(h, j), Log(h, j + 1))
      BY <2>1, LogOrder DEF Log
  <2>3. /\ Log(h, m) \in Seq(EventsOf(h)) /\ Log(h, j) \in Seq(EventsOf(h)) /\ Log(h, j + 1) \in Seq(EventsOf(h))
        /\ Len(Log(h, m)) \in Nat /\ Len(Log(h, j)) \in Nat
      BY <2>1, LogIs
  <2>4. Len(Log(h, m)) \in 0..Len(Log(h, j))
      BY <2>2, <2>3 DEF PrefixOf
  <2>5. Seg(j + 1) = Seg(j) \cup From(Len(Log(h, j)), Log(h, j + 1))
      BY <2>2, <2>3, <2>4, FromTwice
  <2>6. From(Len(Log(h, j)), Log(h, j + 1)) = Emits(h, j + 1)
    <3>1. From(Len(Log(h, (j + 1) - 1)), Log(h, j + 1)) = Emits(h, j + 1)
        BY <2>1, TransactionEmits
    <3> QED BY <2>1, <3>1
  <2>7. (m + 1)..(j + 1) = ((m + 1)..j) \cup {j + 1}
      BY <1>1, <1>3
  <2>8. EmitsIn(h, (m + 1)..(j + 1)) = EmitsIn(h, (m + 1)..j) \cup Emits(h, j + 1)
      BY <2>7 DEF EmitsIn
  <2> QED BY <1>3, <2>5, <2>6, <2>8
<1> HIDE DEF Seg
<1>4. 0 \notin Bad
    BY <1>1, <1>2
<1>5. ASSUME NEW j \in 0..(k - 1), j \notin Bad PROVE j + 1 \notin Bad
  <2>1. j + 1 >= m => j >= m \/ j + 1 = m
      BY <1>1
  <2> QED BY <1>1, <1>2, <1>3, <1>5, <2>1
<1>6. Bad \in SUBSET (0..k) /\ k \in 0..k /\ k >= m
    BY <1>1
<1> HIDE DEF Bad
<1>7. Bad = {}
    BY <1>1, <1>4, <1>5, <1>6, NoBadNumber
<1>8. Seg(k) = EmitsIn(h, (m + 1)..k)
    BY <1>6, <1>7 DEF Bad
<1> QED BY <1>8 DEF Seg

(* The transactions of a block; the first block deploys the pool.          *)
TxsOf(bs, n) == IF n = 1 THEN {0} ELSE (Len(Upto(bs, n - 1)) + 1)..Len(Upto(bs, n))
TxsIn(bs, N) == UNION {TxsOf(bs, n) : n \in N}

LEMMA FirstBlock ==
    ASSUME NEW bs \in Chains
    PROVE  Upto(bs, 1) = << >> /\ Len(Upto(bs, 1)) = 0
<1>1. bs \in Seq(Seq(Commitments)) /\ Len(bs) \in Nat /\ bs[1] = << >> /\ 1 \in 1..Len(bs)
    BY DEF Chains
<1>2. Upto(bs, 1) = Upto(bs, 1 - 1) \o bs[1] /\ Upto(bs, 0) = << >>
    BY <1>1, UptoSteps
<1>3. Upto(bs, 1) = << >>
    BY <1>1, <1>2
<1> QED BY <1>3

LEMMA BlockEmits ==
    ASSUME NEW bs \in Chains, NEW n \in 1..Len(bs)
    PROVE  ToSet(EventsOfBlock(bs, n)) = EmitsIn(All(bs), TxsOf(bs, n))
<1> DEFINE h == All(bs)
           s == EventsOfBlock(bs, n)
           m == EndOf(bs, n - 1)
           log == LogAt(bs, n)
<1>1. Len(bs) \in Nat /\ n \in 0..Len(bs) /\ n - 1 \in 0..Len(bs) /\ n # 0 /\ n \in (n - 1)..Len(bs)
    BY DEF Chains
<1>2. /\ m \in Nat /\ EndOf(bs, n) \in Nat /\ m <= EndOf(bs, n)
      /\ DOMAIN s = 1..(EndOf(bs, n) - m)
      /\ \A i \in 1..(EndOf(bs, n) - m) : s[i] = log[m + i]
    BY BlockEvents
<1>3. EndOf(bs, n) = Len(log)
    BY <1>1 DEF EndOf
<1>4. log = Log(h, Len(Upto(bs, n)))
    BY DEF LogAt, Log
<1>5. h \in Histories /\ Len(Upto(bs, n)) \in 0..Len(h) /\ Len(Upto(bs, n - 1)) \in 0..Len(h)
    BY <1>1, ChainPrefix
<1>6. ToSet(s) = From(m, log)
  <2> HIDE DEF s, m, log
  <2>1. \A i \in DOMAIN s : m + i \in (m + 1)..Len(log) /\ s[i] = log[m + i]
      BY <1>2, <1>3
  <2>2. \A i \in (m + 1)..Len(log) : i - m \in DOMAIN s /\ s[i - m] = log[i]
    <3> TAKE i \in (m + 1)..Len(log)
    <3>1. i - m \in 1..(EndOf(bs, n) - m) /\ m + (i - m) = i
        BY <1>2, <1>3
    <3> QED BY <1>2, <3>1
  <2> QED BY <2>1, <2>2 DEF ToSet, From
<1>7. CASE n = 1
  <2>1. m = 0 /\ TxsOf(bs, n) = {0} /\ Len(Upto(bs, n)) = 0
      BY <1>7, FirstBlock DEF EndOf, TxsOf
  <2>2. log = NewPool.events
      BY <1>4, <1>5, <2>1, PoolSteps DEF Log
  <2>3. NewPool.events = <<Accepts(h, 0)>>
    <3>1. Root(h, 0) = InitialRoot
        BY EmptyTree DEF Root, Cut
    <3> QED BY <3>1 DEF NewPool, Accepts
  <2>4. From(0, log) = {Accepts(h, 0)}
    <3> DEFINE x == Accepts(h, 0)
    <3>1. log = <<x>> /\ Len(<<x>>) = 1 /\ <<x>>[1] = x
        BY <2>2, <2>3
    <3> HIDE DEF x, log
    <3>2. (0 + 1)..Len(log) = {1} /\ log[1] = x
        BY <3>1
    <3>3. From(0, log) = {x}
        BY <3>2 DEF From
    <3> QED BY <3>3 DEF x
  <2>5. Emits(h, 0) = {Accepts(h, 0)}
      BY ChainAssumption DEF Emits, Expiry, Spending, Creation
  <2>6. EmitsIn(h, {0}) = Emits(h, 0)
      BY DEF EmitsIn
  <2> QED BY <1>6, <2>1, <2>4, <2>5, <2>6
<1>8. CASE n # 1
  <2>1. m = Len(Log(h, Len(Upto(bs, n - 1))))
      BY <1>1, <1>8 DEF EndOf, LogAt, Log
  <2>2. Len(Upto(bs, n - 1)) <= Len(Upto(bs, n))
    <3>1. bs \in Seq(Seq(Commitments)) /\ n - 1 \in 0..n
        BY <1>1 DEF Chains
    <3> QED BY <1>1, <3>1, UptoOrder DEF PrefixOf
  <2>3. Len(h) \in Nat
      BY <1>5, HistoriesAre
  <2>4. Len(Upto(bs, n)) \in Len(Upto(bs, n - 1))..Len(h)
      BY <1>5, <2>2, <2>3
  <2>5. From(m, log) = EmitsIn(h, (Len(Upto(bs, n - 1)) + 1)..Len(Upto(bs, n)))
      BY <1>4, <1>5, <2>1, <2>4, LogSegment
  <2> QED BY <1>6, <1>8, <2>5 DEF TxsOf
<1> QED BY <1>7, <1>8

LEMMA SeenEmits ==
    ASSUME NEW bs \in Chains, NEW N \in SUBSET (1..Len(bs))
    PROVE  SeenIn(bs, N) = EmitsIn(All(bs), TxsIn(bs, N))
<1>1. \A n \in N : ToSet(EventsOfBlock(bs, n)) = EmitsIn(All(bs), TxsOf(bs, n))
    BY BlockEmits
<1>2. \A x : x \in SeenIn(bs, N) <=> \E n \in N : x \in EmitsIn(All(bs), TxsOf(bs, n))
    BY <1>1 DEF SeenIn
<1>3. \A x : x \in EmitsIn(All(bs), TxsIn(bs, N)) <=> \E n \in N : x \in EmitsIn(All(bs), TxsOf(bs, n))
    BY DEF EmitsIn, TxsIn
<1> QED BY <1>2, <1>3

LEMMA TxsUpto ==
    ASSUME NEW bs \in Chains, NEW n \in 1..Len(bs)
    PROVE  TxsIn(bs, 1..n) = 0..Len(Upto(bs, n))
<1> DEFINE Bad == {k \in 0..n : k # 0 /\ TxsIn(bs, 1..k) # 0..Len(Upto(bs, k))}
<1>1. Len(bs) \in Nat /\ n \in Nat /\ bs \in Seq(Seq(Commitments))
    BY DEF Chains
<1>2. TxsIn(bs, 1..1) = 0..Len(Upto(bs, 1))
  <2>1. 0..Len(Upto(bs, 1)) = {0} /\ 1..1 = {1}
      BY FirstBlock
  <2> QED BY <2>1 DEF TxsIn, TxsOf
<1>3. 0 \notin Bad
    OBVIOUS
<1>4. ASSUME NEW k \in 0..(n - 1), k \notin Bad PROVE k + 1 \notin Bad
  <2>1. CASE k = 0
      BY <1>2, <2>1
  <2>2. CASE k # 0
    <3>1. /\ k \in 0..n /\ k \in 0..Len(bs) /\ k + 1 \in 0..Len(bs) /\ (k + 1) - 1 = k /\ k \in 0..(k + 1)
          /\ k + 1 # 1
        BY <1>1, <2>2
    <3>2. Len(Upto(bs, k)) <= Len(Upto(bs, k + 1))
        BY <1>1, <3>1, UptoOrder DEF PrefixOf
    <3>3. Upto(bs, k) \in Seq(Commitments) /\ Upto(bs, k + 1) \in Seq(Commitments)
        BY <1>1, <3>1, UptoSteps
    <3>4. Len(Upto(bs, k)) \in Nat /\ Len(Upto(bs, k + 1)) \in Nat
        BY <3>3
    <3>5. 1..(k + 1) = (1..k) \cup {k + 1}
        BY <3>1
    <3>6. TxsIn(bs, 1..(k + 1)) = TxsIn(bs, 1..k) \cup TxsOf(bs, k + 1)
        BY <3>5 DEF TxsIn
    <3>7. TxsOf(bs, k + 1) = (Len(Upto(bs, k)) + 1)..Len(Upto(bs, k + 1))
        BY <3>1 DEF TxsOf
    <3>8. TxsIn(bs, 1..k) = 0..Len(Upto(bs, k))
        BY <1>4, <2>2, <3>1
    <3>9. 0..Len(Upto(bs, k + 1)) = (0..Len(Upto(bs, k))) \cup ((Len(Upto(bs, k)) + 1)..Len(Upto(bs, k + 1)))
        BY <3>2, <3>4
    <3> QED BY <3>6, <3>7, <3>8, <3>9
  <2> QED BY <2>1, <2>2
<1>5. Bad \in SUBSET (0..n) /\ n \in 0..n /\ n # 0
    BY <1>1
<1> HIDE DEF Bad
<1>6. Bad = {}
    BY <1>1, <1>3, <1>4, <1>5, NoBadNumber
<1> QED BY <1>5, <1>6 DEF Bad

-----------------------------------------------------------------------------
(* Without reorganisations the index is what the events seen so far say it *)
(* is, whatever order they came in: notes and nullifiers exactly, and the  *)
(* accepted roots at least where none of these events expires them.        *)
Notes(X) == {x \in X : x.event = "NoteCreated"}
Announced(X) == {x \in X : x.event = "RootAccepted"}
Expired(X) == {x \in X : x.event = "RootExpired"}
Nullified(X) == {x \in X : x.event = "NullifierSpent"}

(* A commitment has one index and an index one commitment. *)
OneToOne(X) == \A x, y \in Notes(X) : x.commitment = y.commitment <=> x.leafIndex = y.leafIndex

NotesKnown(L, by, X) ==
    /\ DOMAIN L = {x.leafIndex : x \in Notes(X)}
    /\ DOMAIN by = {x.commitment : x \in Notes(X)}
    /\ \A x \in Notes(X) : L[x.leafIndex] = x.commitment /\ by[x.commitment] = x.leafIndex

RootsKnown(accepted, X) ==
    /\ accepted \subseteq {x.root : x \in Announced(X)}
    /\ \A x \in Announced(X) :
          x.root \in {y.root : y \in Expired(X)} \/ x.root \in accepted

Knows(s, X) ==
    /\ s.ok
    /\ NotesKnown(s.leaves, s.byCommitment, X)
    /\ RootsKnown(s.roots, X)
    /\ s.nullifiers = {x.nullifier : x \in Nullified(X)}

HasFields(s) ==
    s = [leaves |-> s.leaves, byCommitment |-> s.byCommitment, cache |-> s.cache,
         roots |-> s.roots, expired |-> s.expired, nullifiers |-> s.nullifiers,
         notes |-> s.notes, ok |-> s.ok]

LEMMA KnowsNote ==
    ASSUME NEW L, NEW by, NEW X, NEW e, e.event = "NoteCreated", OneToOne(X \cup {e}),
           NotesKnown(L, by, X)
    PROVE  /\ e.commitment \in DOMAIN by => by[e.commitment] = e.leafIndex
           /\ e.leafIndex \in DOMAIN L => L[e.leafIndex] = e.commitment
           /\ NotesKnown(SetEntry(L, e.leafIndex, e.commitment),
                         SetEntry(by, e.commitment, e.leafIndex), X \cup {e})
<1> DEFINE Y == X \cup {e}
           M == SetEntry(L, e.leafIndex, e.commitment)
           of == SetEntry(by, e.commitment, e.leafIndex)
<1>1. Notes(Y) = Notes(X) \cup {e}
    BY DEF Notes
<1>2. \A x \in Notes(X) : x.commitment = e.commitment <=> x.leafIndex = e.leafIndex
    BY <1>1 DEF OneToOne
<1>3. /\ e.commitment \in DOMAIN by => by[e.commitment] = e.leafIndex
      /\ e.leafIndex \in DOMAIN L => L[e.leafIndex] = e.commitment
    BY <1>2 DEF NotesKnown
<1>4. /\ DOMAIN M = DOMAIN L \cup {e.leafIndex} /\ M[e.leafIndex] = e.commitment
      /\ \A i \in DOMAIN L : i # e.leafIndex => M[i] = L[i]
      /\ DOMAIN of = DOMAIN by \cup {e.commitment} /\ of[e.commitment] = e.leafIndex
      /\ \A c \in DOMAIN by : c # e.commitment => of[c] = by[c]
    BY DEF SetEntry
<1> HIDE DEF M, of, Y
<1>5. DOMAIN M = {x.leafIndex : x \in Notes(Y)} /\ DOMAIN of = {x.commitment : x \in Notes(Y)}
    BY <1>1, <1>4 DEF NotesKnown
<1>6. \A x \in Notes(Y) : M[x.leafIndex] = x.commitment /\ of[x.commitment] = x.leafIndex
  <2> TAKE x \in Notes(Y)
  <2>1. CASE x = e
      BY <1>4, <2>1
  <2>2. CASE x \in Notes(X) /\ x.commitment = e.commitment
      BY <1>2, <1>4, <2>2
  <2>3. CASE x \in Notes(X) /\ x.commitment # e.commitment
    <3>1. x.leafIndex \in DOMAIN L /\ x.commitment \in DOMAIN by /\ x.leafIndex # e.leafIndex
        BY <1>2, <2>3 DEF NotesKnown
    <3> QED BY <1>4, <2>3, <3>1 DEF NotesKnown
  <2> QED BY <1>1, <2>1, <2>2, <2>3
<1>7. NotesKnown(M, of, Y)
    BY <1>5, <1>6 DEF NotesKnown
<1> QED BY <1>3, <1>7 DEF M, of, Y

LEMMA OtherEvent ==
    ASSUME NEW X, NEW e
    PROVE  /\ e.event # "NoteCreated" => Notes(X \cup {e}) = Notes(X)
           /\ e.event # "RootAccepted" => Announced(X \cup {e}) = Announced(X)
           /\ e.event # "RootExpired" => Expired(X \cup {e}) = Expired(X)
           /\ e.event # "NullifierSpent" => Nullified(X \cup {e}) = Nullified(X)
           /\ e.event = "RootAccepted" => Announced(X \cup {e}) = Announced(X) \cup {e}
           /\ e.event = "RootExpired" => Expired(X \cup {e}) = Expired(X) \cup {e}
           /\ e.event = "NullifierSpent" => Nullified(X \cup {e}) = Nullified(X) \cup {e}
BY DEF Notes, Announced, Expired, Nullified

LEMMA KnowsMore ==
    ASSUME NEW s, HasFields(s), NEW X, NEW e, Knows(s, X), OneToOne(X \cup {e}),
           e.event \in {"NoteCreated", "RootAccepted", "RootExpired", "NullifierSpent"}
    PROVE  HasFields(IngestLog(s, e)) /\ Knows(IngestLog(s, e), X \cup {e})
<1> DEFINE Y == X \cup {e}
           t == IngestLog(s, e)
<1>1. CASE e.event = "NoteCreated"
  <2> DEFINE c == e.commitment
             i == e.leafIndex
             L == SetEntry(s.leaves, i, c)
             by == SetEntry(s.byCommitment, c, i)
             u == [s EXCEPT !.leaves = L, !.byCommitment = by, !.cache = << >>]
  <2>1. /\ ~Conflict(s, c, i)
        /\ NotesKnown(L, by, Y)
      BY <1>1, KnowsNote DEF Knows, Conflict
  <2>2. InsertIndexedCommitment(s, c, i) = u
      BY <2>1 DEF InsertIndexedCommitment, ClearCache
  <2>3. t = AddEncryptedNoteEvent(u, c, i)
      BY <1>1, <2>2 DEF IngestLog, Knows
  <2> HIDE DEF L, by, Y, c, i
  <2>4. /\ HasFields(u) /\ u.ok = s.ok /\ u.leaves = L /\ u.byCommitment = by /\ u.roots = s.roots
        /\ u.nullifiers = s.nullifiers
    <3>1. u = [s EXCEPT !.leaves = L, !.byCommitment = by, !.cache = << >>]
        OBVIOUS
    <3> HIDE DEF u
    <3>2. u = [leaves |-> L, byCommitment |-> by, cache |-> << >>, roots |-> s.roots,
               expired |-> s.expired, nullifiers |-> s.nullifiers, notes |-> s.notes, ok |-> s.ok]
      <4>1. s = [leaves |-> s.leaves, byCommitment |-> s.byCommitment, cache |-> s.cache,
                 roots |-> s.roots, expired |-> s.expired, nullifiers |-> s.nullifiers,
                 notes |-> s.notes, ok |-> s.ok]
          BY DEF HasFields
      <4> QED BY <3>1, <4>1
    <3> QED BY <3>2 DEF HasFields
  <2> HIDE DEF u
  <2>5. t = [u EXCEPT !.notes = @ \cup {<<c, i>>}]
      BY <2>3, <2>4 DEF AddEncryptedNoteEvent, Knows
  <2> HIDE DEF t
  <2>6. /\ HasFields(t) /\ t.ok = s.ok /\ t.leaves = L /\ t.byCommitment = by /\ t.roots = s.roots
        /\ t.nullifiers = s.nullifiers
      BY <2>4, <2>5 DEF HasFields
  <2>7. Announced(Y) = Announced(X) /\ Expired(Y) = Expired(X) /\ Nullified(Y) = Nullified(X)
      BY <1>1, OtherEvent DEF Y
  <2>8. Knows(t, Y)
      BY <2>1, <2>6, <2>7 DEF Knows, RootsKnown
  <2> QED BY <2>6, <2>8 DEF t, Y
<1>2. CASE e.event = "RootAccepted"
  <2>1. t = [s EXCEPT !.expired = @ \ {e.root}, !.roots = @ \cup {e.root}]
      BY <1>2 DEF IngestLog, Knows
  <2>2. /\ Announced(Y) = Announced(X) \cup {e} /\ Expired(Y) = Expired(X)
        /\ Nullified(Y) = Nullified(X) /\ Notes(Y) = Notes(X)
      BY <1>2, OtherEvent
  <2> HIDE DEF Y, t
  <2>3. /\ HasFields(t) /\ t.ok = s.ok /\ t.leaves = s.leaves /\ t.byCommitment = s.byCommitment
        /\ t.roots = s.roots \cup {e.root} /\ t.nullifiers = s.nullifiers
      BY <2>1 DEF HasFields
  <2>4. RootsKnown(t.roots, Y)
      BY <2>2, <2>3 DEF Knows, RootsKnown
  <2>5. Knows(t, Y)
      BY <2>2, <2>3, <2>4 DEF Knows, NotesKnown
  <2> QED BY <2>3, <2>5 DEF t, Y
<1>3. CASE e.event = "RootExpired"
  <2>1. t = [s EXCEPT !.roots = @ \ {e.root}, !.expired = @ \cup {e.root}]
      BY <1>3 DEF IngestLog, Knows
  <2>2. /\ Announced(Y) = Announced(X) /\ Expired(Y) = Expired(X) \cup {e}
        /\ Nullified(Y) = Nullified(X) /\ Notes(Y) = Notes(X)
      BY <1>3, OtherEvent
  <2> HIDE DEF Y, t
  <2>3. /\ HasFields(t) /\ t.ok = s.ok /\ t.leaves = s.leaves /\ t.byCommitment = s.byCommitment
        /\ t.roots = s.roots \ {e.root} /\ t.nullifiers = s.nullifiers
      BY <2>1 DEF HasFields
  <2>4. RootsKnown(t.roots, Y)
      BY <2>2, <2>3 DEF Knows, RootsKnown
  <2>5. Knows(t, Y)
      BY <2>2, <2>3, <2>4 DEF Knows, NotesKnown
  <2> QED BY <2>3, <2>5 DEF t, Y
<1>4. CASE e.event = "NullifierSpent"
  <2>1. t = [s EXCEPT !.nullifiers = @ \cup {e.nullifier}]
      BY <1>4 DEF IngestLog, Knows
  <2>2. /\ Announced(Y) = Announced(X) /\ Expired(Y) = Expired(X)
        /\ Nullified(Y) = Nullified(X) \cup {e} /\ Notes(Y) = Notes(X)
      BY <1>4, OtherEvent
  <2> HIDE DEF Y, t
  <2>3. /\ HasFields(t) /\ t.ok = s.ok /\ t.leaves = s.leaves /\ t.byCommitment = s.byCommitment
        /\ t.roots = s.roots /\ t.nullifiers = s.nullifiers \cup {e.nullifier}
      BY <2>1 DEF HasFields
  <2>4. RootsKnown(t.roots, Y)
      BY <2>2, <2>3 DEF Knows, RootsKnown
  <2>5. t.nullifiers = {x.nullifier : x \in Nullified(Y)}
      BY <2>2, <2>3 DEF Knows
  <2>6. Knows(t, Y)
      BY <2>2, <2>3, <2>4, <2>5 DEF Knows, NotesKnown
  <2> QED BY <2>3, <2>6 DEF t, Y
<1> QED BY <1>1, <1>2, <1>3, <1>4

LEMMA EventIs ==
    ASSUME NEW h \in Histories, NEW e \in EventsOf(h)
    PROVE  /\ e.event \in {"NoteCreated", "RootAccepted", "RootExpired", "NullifierSpent"}
           /\ e.event = "NoteCreated" => \E j \in 1..Len(h) : e.commitment = h[j] /\ e.leafIndex = j - 1
<1>1. \A j \in 0..Len(h) : Accepts(h, j).event = "RootAccepted"
    BY DEF Accepts, RootAccepted
<1>2. \A r : RootExpired(r).event = "RootExpired"
    BY DEF RootExpired
<1>3. \A c : NullifierSpent(c).event = "NullifierSpent"
    BY DEF NullifierSpent
<1>4. \A c, i : NoteCreated(c, i).event = "NoteCreated" /\ NoteCreated(c, i).commitment = c
                /\ NoteCreated(c, i).leafIndex = i
    BY DEF NoteCreated
<1> QED BY <1>1, <1>2, <1>3, <1>4 DEF EventsOf

LEMMA EventsOneToOne ==
    ASSUME NEW h \in Histories, IsInjective(h), NEW X, X \subseteq EventsOf(h)
    PROVE  OneToOne(X)
<1> SUFFICES ASSUME NEW x \in Notes(X), NEW y \in Notes(X)
             PROVE  x.commitment = y.commitment <=> x.leafIndex = y.leafIndex
    BY DEF OneToOne
<1>1. PICK j \in 1..Len(h) : x.commitment = h[j] /\ x.leafIndex = j - 1
    BY EventIs DEF Notes
<1>2. PICK k \in 1..Len(h) : y.commitment = h[k] /\ y.leafIndex = k - 1
    BY EventIs DEF Notes
<1>3. h[j] = h[k] <=> j = k
    BY HistoriesAre DEF IsInjective
<1> QED BY <1>1, <1>2, <1>3

LEMMA BatchKnows ==
    ASSUME NEW h \in Histories, IsInjective(h), NEW batch \in Seq(EventsOf(h)),
           NEW X, X \subseteq EventsOf(h), Knows(IndexNow, X)
    PROVE  Knows(IngestLogs(batch), X \cup ToSet(batch))
<1> DEFINE n == Len(batch)
           Done(k) == X \cup {batch[i] : i \in 1..k}
           E == EventsOf(h)
<1>1. PICK st : Goes(st, batch)
    BY IngestGoes
<1> DEFINE Bad == {k \in 0..n : ~(HasFields(st[k]) /\ Knows(st[k], Done(k)))}
<1>2. n \in Nat /\ DOMAIN batch = 1..n
    OBVIOUS
<1>3. 0 \notin Bad
  <2>1. Done(0) = X
      OBVIOUS
  <2>2. HasFields(IndexNow)
      BY DEF HasFields, IndexNow
  <2> QED BY <1>1, <2>1, <2>2 DEF Goes
<1>4. ASSUME NEW k \in 0..(n - 1), k \notin Bad PROVE k + 1 \notin Bad
  <2> DEFINE e == batch[k + 1]
  <2>1. k \in 0..n /\ k + 1 \in 1..n /\ (k + 1) - 1 = k /\ 1..(k + 1) = (1..k) \cup {k + 1}
      BY <1>2
  <2>2. st[k + 1] = IngestLog(st[k], e) /\ e \in E
      BY <1>1, <2>1, ElementIn DEF Goes
  <2>3. Done(k + 1) = Done(k) \cup {e}
      BY <2>1
  <2>4. \A i \in 1..(k + 1) : batch[i] \in E
    <3> TAKE i \in 1..(k + 1)
    <3>1. i \in 1..n
        BY <2>1
    <3> QED BY <3>1, ElementIn
  <2>5. Done(k + 1) \subseteq E
      BY <2>4
  <2>6. OneToOne(Done(k) \cup {e})
      BY <2>3, <2>5, EventsOneToOne
  <2>7. HasFields(st[k]) /\ Knows(st[k], Done(k))
      BY <1>4, <2>1
  <2>8. e.event \in {"NoteCreated", "RootAccepted", "RootExpired", "NullifierSpent"}
      BY <2>2, EventIs
  <2> HIDE DEF Done, e, E
  <2> DEFINE s == st[k]
             Y == Done(k)
  <2>9. HasFields(s) /\ Knows(s, Y) /\ OneToOne(Y \cup {e})
      BY <2>6, <2>7
  <2> HIDE DEF s, Y
  <2>10. HasFields(IngestLog(s, e)) /\ Knows(IngestLog(s, e), Y \cup {e})
      BY <2>8, <2>9, KnowsMore
  <2>11. HasFields(st[k + 1]) /\ Knows(st[k + 1], Done(k + 1))
      BY <2>2, <2>3, <2>10 DEF s, Y
  <2> QED BY <2>11
<1>5. Bad \in SUBSET (0..n) /\ n \in 0..n
    BY <1>2
<1>6. Done(n) = X \cup ToSet(batch)
    BY <1>2 DEF ToSet
<1> HIDE DEF Bad, Done
<1>7. Bad = {}
    BY <1>2, <1>3, <1>4, <1>5, NoBadNumber
<1>8. Knows(st[n], Done(n))
    BY <1>5, <1>7 DEF Bad
<1> QED BY <1>1, <1>6, <1>8 DEF Goes

-----------------------------------------------------------------------------
(* Checked ranges: what markCheckedRange keeps and findMissingRanges finds. *)
BlockRanges == {r \in [fromBlock : Nat \ {0}, toBlock : Nat] : r.fromBlock <= r.toBlock}

BlocksIn(r) == r.fromBlock..r.toBlock
CoverUpto(rs, k) == UNION {BlocksIn(rs[i]) : i \in 1..k}
Cover(rs) == CoverUpto(rs, Len(rs))

Separate(rs) ==
    \A i, j \in 1..Len(rs) : i < j => rs[i].toBlock + 1 < rs[j].fromBlock

InOrder(rs) ==
    \A i, j \in 1..Len(rs) : i < j => rs[i].fromBlock <= rs[j].fromBlock

LEMMA RangeAt ==
    ASSUME NEW rs \in Seq(BlockRanges), NEW k \in 1..Len(rs)
    PROVE  /\ rs[k] \in BlockRanges
           /\ rs[k].fromBlock \in Nat /\ rs[k].fromBlock > 0 /\ rs[k].toBlock \in Nat
           /\ rs[k].fromBlock <= rs[k].toBlock
           /\ rs[k] = [fromBlock |-> rs[k].fromBlock, toBlock |-> rs[k].toBlock]
<1>1. rs[k] \in BlockRanges
    BY ElementIn
<1> QED BY <1>1 DEF BlockRanges

Precedence(rs) == {p \in (1..Len(rs)) \X (1..Len(rs)) : Precedes(rs, p[1], p[2])}

LEMMA PrecedenceOrders ==
    ASSUME NEW rs \in Seq(BlockRanges)
    PROVE  Orders(1..Len(rs), Precedence(rs))
<1> DEFINE S == 1..Len(rs)
<1>1. \A a, b \in S : <<a, b>> \in Precedence(rs) <=> Precedes(rs, a, b)
    BY DEF Precedence
<1>2. \A a \in S : rs[a].fromBlock \in Nat /\ a \in Nat
  <2> TAKE a \in S
  <2>1. rs[a].fromBlock \in Nat
      BY RangeAt
  <2>2. Len(rs) \in Nat
      OBVIOUS
  <2> QED BY <2>1, <2>2
<1>3. \A a \in S : ~Precedes(rs, a, a)
    BY <1>2 DEF Precedes
<1>4. \A a, b, c \in S : Precedes(rs, a, b) /\ Precedes(rs, b, c) => Precedes(rs, a, c)
    BY <1>2 DEF Precedes
<1>5. \A a, b \in S : a = b \/ Precedes(rs, a, b) \/ Precedes(rs, b, a)
    BY <1>2 DEF Precedes
<1> QED BY <1>1, <1>3, <1>4, <1>5 DEF Orders

Rank(rs, i) == Cardinality(Under(1..Len(rs), Precedence(rs), i))

LEMMA RankIs ==
    ASSUME NEW rs \in Seq(BlockRanges)
    PROVE  /\ \A i \in 1..Len(rs) : Rank(rs, i) \in 0..(Len(rs) - 1)
           /\ \A k \in 1..Len(rs) : \E i \in 1..Len(rs) : Rank(rs, i) = k - 1
           /\ \A i, j \in 1..Len(rs) :
                 /\ Precedes(rs, i, j) => Rank(rs, i) < Rank(rs, j)
                 /\ Rank(rs, i) = Rank(rs, j) => i = j
<1> DEFINE S == 1..Len(rs)
           R == Precedence(rs)
<1>1. Len(rs) \in Nat /\ IsFiniteSet(S) /\ Cardinality(S) = Len(rs)
  <2>1. Len(rs) \in Nat
      OBVIOUS
  <2>2. IsFiniteSet(1..Len(rs))
      BY <2>1, FS_Interval
  <2>3. Cardinality(1..Len(rs)) = IF 1 > Len(rs) THEN 0 ELSE Len(rs) - 1 + 1
      BY <2>1, FS_Interval
  <2> QED BY <2>1, <2>2, <2>3
<1>2. Orders(S, R)
    BY PrecedenceOrders
<1>3. \A i, j \in S : <<i, j>> \in R <=> Precedes(rs, i, j)
    BY DEF Precedence
<1>4. \A i \in S : Rank(rs, i) = Cardinality(Under(S, R, i))
    BY DEF Rank
<1> HIDE DEF S, R
<1>5. \A i \in S : Rank(rs, i) \in 0..(Len(rs) - 1)
    BY <1>1, <1>2, <1>4, RankBelow
<1>6. \A k \in 1..Len(rs) : \E i \in S : Rank(rs, i) = k - 1
    BY <1>1, <1>2, <1>4, EachRank
<1>7. \A i, j \in S : <<i, j>> \in R => Rank(rs, i) < Rank(rs, j)
    BY <1>1, <1>2, <1>4, LowerRank
<1>8. \A i, j \in S : Rank(rs, i) = Rank(rs, j) => i = j
  <2> SUFFICES ASSUME NEW i \in S, NEW j \in S, i # j PROVE Rank(rs, i) # Rank(rs, j)
      OBVIOUS
  <2>1. <<i, j>> \in R \/ <<j, i>> \in R
      BY <1>2 DEF Orders
  <2>2. Rank(rs, i) \in Nat /\ Rank(rs, j) \in Nat
      BY <1>1, <1>5
  <2> QED BY <1>7, <2>1, <2>2
<1> QED BY <1>3, <1>5, <1>6, <1>7, <1>8 DEF S

LEMMA SortedIs ==
    ASSUME NEW rs \in Seq(BlockRanges)
    PROVE  /\ Sorted(rs) \in Seq(BlockRanges) /\ Len(Sorted(rs)) = Len(rs)
           /\ InOrder(Sorted(rs))
           /\ Cover(Sorted(rs)) = Cover(rs)
<1> DEFINE n == Len(rs)
           ss == Sorted(rs)
           at(k) == CHOOSE i \in 1..n : Rank(rs, i) = k - 1
<1>1. n \in Nat /\ DOMAIN rs = 1..n
    OBVIOUS
<1>2. \A k \in 1..n : at(k) \in 1..n /\ Rank(rs, at(k)) = k - 1
    BY RankIs
<1>3. \A i \in 1..n : Rank(rs, i) = Cardinality({j \in 1..n : Precedes(rs, j, i)})
  <2> TAKE i \in 1..n
  <2>1. Under(1..n, Precedence(rs), i) = {j \in 1..n : Precedes(rs, j, i)}
      BY DEF Under, Precedence
  <2> QED BY <2>1 DEF Rank
<1>4. ss = [k \in 1..n |-> rs[at(k)]]
  <2>1. ASSUME NEW k
        PROVE  (CHOOSE i \in 1..n : Cardinality({j \in 1..n : Precedes(rs, j, i)}) = k - 1) = at(k)
      BY <1>3
  <2>2. ss = [k \in 1..n |-> rs[CHOOSE i \in 1..n : Cardinality({j \in 1..n : Precedes(rs, j, i)}) = k - 1]]
      BY <1>1 DEF Sorted
  <2> QED BY <2>1, <2>2
<1> HIDE DEF at, ss
<1>5. \A k \in 1..n : ss[k] = rs[at(k)] /\ ss[k] \in BlockRanges
  <2> TAKE k \in 1..n
  <2>1. ss[k] = rs[at(k)]
      BY <1>4
  <2> QED BY <1>2, <2>1, RangeAt
<1>6. ss \in Seq(BlockRanges) /\ Len(ss) = n
    BY <1>1, <1>4, <1>5
<1>7. InOrder(ss)
  <2> SUFFICES ASSUME NEW i \in 1..n, NEW j \in 1..n, i < j
               PROVE  ss[i].fromBlock <= ss[j].fromBlock
      BY <1>6 DEF InOrder
  <2>1. rs[at(i)].fromBlock \in Nat /\ rs[at(j)].fromBlock \in Nat
      BY <1>2, RangeAt
  <2>2. CASE rs[at(j)].fromBlock < rs[at(i)].fromBlock
    <3>1. Precedes(rs, at(j), at(i))
        BY <2>2 DEF Precedes
    <3>2. Rank(rs, at(j)) < Rank(rs, at(i))
        BY <1>2, <3>1, RankIs
    <3>3. j - 1 < i - 1
        BY <1>2, <3>2
    <3> QED BY <3>3
  <2> QED BY <1>5, <2>1, <2>2
<1>8. Cover(ss) = Cover(rs)
  <2>1. \A i \in 1..n : \E k \in 1..n : ss[k] = rs[i]
    <3> TAKE i \in 1..n
    <3> DEFINE k == Rank(rs, i) + 1
    <3>1. Rank(rs, i) \in 0..(n - 1)
        BY RankIs
    <3>2. k \in 1..n /\ Rank(rs, i) = k - 1
        BY <1>1, <3>1
    <3> HIDE DEF k
    <3>3. at(k) = i
        BY <1>2, <3>2, RankIs
    <3> QED BY <1>5, <3>2, <3>3
  <2>2. \A k \in 1..n : \E i \in 1..n : ss[k] = rs[i]
      BY <1>2, <1>5
  <2> QED BY <1>6, <2>1, <2>2 DEF Cover, CoverUpto
<1> QED BY <1>6, <1>7, <1>8 DEF ss

-----------------------------------------------------------------------------
(* Merging.                                                                *)
MergeOK(m, rs, k) ==
    /\ m \in Seq(BlockRanges)
    /\ Separate(m)
    /\ Cover(m) = CoverUpto(rs, k)
    /\ \A i \in 1..Len(m), j \in (k + 1)..Len(rs) : m[i].fromBlock <= rs[j].fromBlock

LEMMA AppendIs ==
    ASSUME NEW T, NEW s \in Seq(T), NEW x \in T, NEW t, t = Append(s, x)
    PROVE  /\ t \in Seq(T) /\ Len(t) = Len(s) + 1
           /\ \A i \in 1..Len(s) : t[i] = s[i]
           /\ t[Len(s) + 1] = x
OBVIOUS

LEMMA ReplaceLast ==
    ASSUME NEW T, NEW s \in Seq(T), s # << >>, NEW x \in T, NEW t, t = [s EXCEPT ![Len(s)] = x]
    PROVE  /\ t \in Seq(T) /\ Len(t) = Len(s)
           /\ \A i \in 1..(Len(s) - 1) : t[i] = s[i]
           /\ t[Len(s)] = x
           /\ Len(s) \in Nat /\ Len(s) > 0
OBVIOUS

LEMMA CoverNext ==
    ASSUME NEW rs, NEW k \in Nat
    PROVE  CoverUpto(rs, k + 1) = CoverUpto(rs, k) \cup BlocksIn(rs[k + 1])
<1>1. 1..(k + 1) = (1..k) \cup {k + 1}
    OBVIOUS
<1> QED BY <1>1 DEF CoverUpto

LEMMA CoverLocal ==
    ASSUME NEW rs, NEW ss, NEW k \in Nat, \A i \in 1..k : rs[i] = ss[i]
    PROVE  CoverUpto(rs, k) = CoverUpto(ss, k)
BY DEF CoverUpto

LEMMA MergeOne ==
    ASSUME NEW rs \in Seq(BlockRanges), InOrder(rs), NEW k \in 1..Len(rs),
           NEW m, MergeOK(m, rs, k - 1)
    PROVE  MergeOK(MergeRange(m, rs[k]), rs, k)
<1> DEFINE x == rs[k]
           n == Len(m)
           t == MergeRange(m, x)
<1>1. /\ m \in Seq(BlockRanges) /\ Separate(m) /\ Cover(m) = CoverUpto(rs, k - 1)
      /\ \A i \in 1..n, j \in ((k - 1) + 1)..Len(rs) : m[i].fromBlock <= rs[j].fromBlock
    BY DEF MergeOK
<1>2. /\ x \in BlockRanges /\ x.fromBlock \in Nat /\ x.fromBlock > 0 /\ x.toBlock \in Nat
      /\ x.fromBlock <= x.toBlock
    BY RangeAt
<1>3. n \in Nat /\ Len(rs) \in Nat /\ k \in Nat /\ k - 1 \in Nat /\ (k - 1) + 1 = k
    BY <1>1
<1>4. \A i \in 1..n : /\ m[i] \in BlockRanges /\ m[i].fromBlock \in Nat /\ m[i].toBlock \in Nat
                      /\ m[i].fromBlock <= m[i].toBlock
    BY <1>1, RangeAt
<1>5. CoverUpto(rs, k) = CoverUpto(rs, k - 1) \cup BlocksIn(x)
    BY <1>3, CoverNext
<1>6. \A j \in (k + 1)..Len(rs) : rs[j].fromBlock \in Nat /\ x.fromBlock <= rs[j].fromBlock
  <2> TAKE j \in (k + 1)..Len(rs)
  <2>1. j \in 1..Len(rs) /\ k < j
      BY <1>3
  <2> QED BY <2>1, RangeAt DEF InOrder
<1>7. \A i \in 1..n : /\ m[i].fromBlock <= x.fromBlock
                      /\ \A j \in (k + 1)..Len(rs) : m[i].fromBlock <= rs[j].fromBlock
  <2> TAKE i \in 1..n
  <2>1. k \in ((k - 1) + 1)..Len(rs) /\ \A j \in (k + 1)..Len(rs) : j \in ((k - 1) + 1)..Len(rs)
      BY <1>3
  <2> QED BY <1>1, <2>1
<1>8. CASE m = << >> \/ ~Touches(Last(m), x)
  <2>1. t = Append(m, x)
      BY <1>8 DEF MergeRange
  <2> HIDE DEF t, x
  <2>2. /\ t \in Seq(BlockRanges) /\ Len(t) = n + 1 /\ (\A i \in 1..n : t[i] = m[i]) /\ t[n + 1] = x
      BY <1>1, <1>2, <2>1, AppendIs
  <2>3. ASSUME NEW i \in 1..n PROVE m[i].toBlock + 1 < x.fromBlock
    <3>1. m # << >> /\ n \in 1..n
        BY <1>1, <1>3, <2>3
    <3>2. m[n].toBlock + 1 < x.fromBlock
        BY <1>2, <1>4, <1>8, <3>1 DEF Touches, Last
    <3>3. CASE i = n
        BY <3>2, <3>3
    <3>4. CASE i < n
      <4>1. m[i].toBlock + 1 < m[n].fromBlock
          BY <1>1, <3>1, <3>4 DEF Separate
      <4>2. m[i].toBlock \in Nat /\ m[n].fromBlock \in Nat /\ m[n].fromBlock <= x.fromBlock
          BY <1>4, <1>7, <3>1
      <4> QED BY <1>2, <4>1, <4>2
    <3> QED BY <1>3, <3>3, <3>4
  <2>4. Separate(t)
    <3> SUFFICES ASSUME NEW i \in 1..Len(t), NEW j \in 1..Len(t), i < j
                 PROVE  t[i].toBlock + 1 < t[j].fromBlock
        BY DEF Separate
    <3>1. Len(t) = n + 1 /\ n \in Nat
        BY <1>3, <2>2
    <3> HIDE DEF n
    <3>2. i \in 1..n /\ (j = n + 1 \/ j \in 1..n)
        BY <3>1
    <3>3. CASE j = n + 1
        BY <2>2, <2>3, <3>2, <3>3
    <3>4. CASE j \in 1..n
      <4>1. m[i].toBlock + 1 < m[j].fromBlock
          BY <1>1, <3>2, <3>4 DEF Separate, n
      <4> QED BY <2>2, <3>2, <3>4, <4>1
    <3> QED BY <3>2, <3>3, <3>4
  <2>5. Cover(t) = Cover(m) \cup BlocksIn(x)
    <3>1. CoverUpto(t, n + 1) = CoverUpto(t, n) \cup BlocksIn(t[n + 1])
        BY <1>3, CoverNext
    <3>2. CoverUpto(t, n) = CoverUpto(m, n)
        BY <1>3, <2>2, CoverLocal
    <3> QED BY <2>2, <3>1, <3>2 DEF Cover
  <2>6. \A i \in 1..Len(t), j \in (k + 1)..Len(rs) : t[i].fromBlock <= rs[j].fromBlock
    <3> TAKE i \in 1..Len(t), j \in (k + 1)..Len(rs)
    <3>1. i \in 1..n \/ i = n + 1
        BY <1>3, <2>2
    <3> QED BY <1>6, <1>7, <2>2, <3>1
  <2>7. MergeOK(t, rs, k)
      BY <1>1, <1>5, <2>2, <2>4, <2>5, <2>6 DEF MergeOK
  <2> QED BY <2>7 DEF t, x
<1>9. CASE ~(m = << >> \/ ~Touches(Last(m), x))
  <2> DEFINE last == m[n]
             y == Stretched(last, x)
  <2>1. t = [m EXCEPT ![n] = y]
      BY <1>9 DEF MergeRange
  <2>2. n \in 1..n /\ n > 0 /\ m # << >>
      BY <1>1, <1>3, <1>9
  <2>3. x.fromBlock <= last.toBlock + 1
      BY <1>9 DEF Touches, Last
  <2>4. /\ last \in BlockRanges /\ last.fromBlock \in Nat /\ last.toBlock \in Nat
        /\ last.fromBlock <= last.toBlock /\ last.fromBlock <= x.fromBlock
        /\ last = [fromBlock |-> last.fromBlock, toBlock |-> last.toBlock]
      BY <1>1, <1>7, <2>2, RangeAt
  <2> DEFINE end == IF x.toBlock > last.toBlock THEN x.toBlock ELSE last.toBlock
  <2> HIDE DEF last, x
  <2>5. y = [fromBlock |-> last.fromBlock, toBlock |-> end]
    <3>1. y = [last EXCEPT !.toBlock = end]
        BY DEF Stretched
    <3> HIDE DEF y, end
    <3> QED BY <2>4, <3>1
  <2>6. end \in Nat /\ end >= last.toBlock
      BY <1>2, <2>4
  <2>7. y.fromBlock = last.fromBlock /\ y.toBlock = end
      BY <2>5
  <2>8. y \in BlockRanges
    <3>1. last.fromBlock \in Nat \ {0}
        BY <2>4 DEF BlockRanges
    <3> HIDE DEF y, end
    <3> QED BY <2>4, <2>5, <2>6, <3>1 DEF BlockRanges
  <2>9. last.fromBlock..end = (last.fromBlock..last.toBlock) \cup (x.fromBlock..x.toBlock)
      BY <1>2, <2>3, <2>4
  <2>10. BlocksIn(y) = BlocksIn(last) \cup BlocksIn(x)
      BY <2>7, <2>9 DEF BlocksIn
  <2> HIDE DEF t, y, end
  <2>11. /\ t \in Seq(BlockRanges) /\ Len(t) = n
         /\ \A i \in 1..(n - 1) : t[i] = m[i]
         /\ t[n] = y
      BY <1>1, <2>1, <2>2, <2>8, ReplaceLast
  <2>12. \A i \in 1..n : t[i].fromBlock = m[i].fromBlock
    <3> TAKE i \in 1..n
    <3>1. i \in 1..(n - 1) \/ i = n
        BY <1>3
    <3> QED BY <2>7, <2>11, <3>1 DEF last
  <2>13. Separate(t)
    <3> SUFFICES ASSUME NEW i \in 1..n, NEW j \in 1..n, i < j
                 PROVE  t[i].toBlock + 1 < t[j].fromBlock
        BY <2>11 DEF Separate
    <3>1. i \in 1..(n - 1)
        BY <1>3
    <3>2. m[i].toBlock + 1 < m[j].fromBlock
        BY <1>1 DEF Separate
    <3> QED BY <2>11, <2>12, <3>1, <3>2
  <2>14. Cover(t) = Cover(m) \cup BlocksIn(x)
    <3>1. n - 1 \in Nat /\ (n - 1) + 1 = n
        BY <1>3, <2>2
    <3>2. CoverUpto(t, (n - 1) + 1) = CoverUpto(t, n - 1) \cup BlocksIn(t[(n - 1) + 1])
        BY <3>1, CoverNext
    <3>3. CoverUpto(m, (n - 1) + 1) = CoverUpto(m, n - 1) \cup BlocksIn(m[(n - 1) + 1])
        BY <3>1, CoverNext
    <3>4. CoverUpto(t, n - 1) = CoverUpto(m, n - 1)
        BY <2>11, <3>1, CoverLocal
    <3>5. CoverUpto(t, n) = CoverUpto(m, n) \cup BlocksIn(x)
        BY <2>10, <2>11, <3>1, <3>2, <3>3, <3>4 DEF last
    <3> QED BY <2>11, <3>5 DEF Cover
  <2>15. \A i \in 1..Len(t), j \in (k + 1)..Len(rs) : t[i].fromBlock <= rs[j].fromBlock
      BY <1>7, <2>11, <2>12
  <2>16. MergeOK(t, rs, k)
      BY <1>1, <1>5, <2>11, <2>13, <2>14, <2>15 DEF MergeOK, x
  <2> QED BY <2>16 DEF t, x
<1> QED BY <1>8, <1>9

LEMMA MarkedIs ==
    ASSUME NEW rs \in Seq(BlockRanges), NEW r \in BlockRanges
    PROVE  /\ MarkCheckedRange(rs, r) \in Seq(BlockRanges)
           /\ Separate(MarkCheckedRange(rs, r))
           /\ Cover(MarkCheckedRange(rs, r)) = Cover(rs) \cup BlocksIn(r)
<1> DEFINE us == Append(rs, r)
           ss == Sorted(us)
           n == Len(ss)
<1>1. us \in Seq(BlockRanges) /\ Len(us) = Len(rs) + 1 /\ (\A i \in 1..Len(rs) : us[i] = rs[i]) /\ us[Len(rs) + 1] = r
    BY AppendIs
<1>2. Cover(us) = Cover(rs) \cup BlocksIn(r)
  <2>1. Len(rs) \in Nat
      OBVIOUS
  <2>2. CoverUpto(us, Len(rs) + 1) = CoverUpto(us, Len(rs)) \cup BlocksIn(us[Len(rs) + 1])
      BY <2>1, CoverNext
  <2>3. CoverUpto(us, Len(rs)) = CoverUpto(rs, Len(rs))
      BY <1>1, <2>1, CoverLocal
  <2> QED BY <1>1, <2>2, <2>3 DEF Cover
<1> HIDE DEF us
<1>3. ss \in Seq(BlockRanges) /\ InOrder(ss) /\ Cover(ss) = Cover(us)
    BY <1>1, SortedIs
<1>4. MarkCheckedRange(rs, r) = FoldLeft(MergeRange, << >>, ss)
    BY DEF MarkCheckedRange, us
<1> HIDE DEF ss
<1>5. n \in Nat /\ DOMAIN ss = 1..n
    BY <1>3
<1>6. PICK st : Merges!Passes(st, 0, << >>, ss, n) /\ Merges!Folded(0, << >>, ss) = st[n]
    BY <1>5, Merges!FoldPasses, ServiceFoldsInduct
<1>7. st[0] = << >> /\ \A k \in 1..n : st[k] = MergeRange(st[k - 1], ss[k])
    BY <1>6 DEF Merges!Passes, MergeStep
<1>8. FoldLeft(MergeRange, << >>, ss) = Merges!Folded(0, << >>, ss)
    BY DEF FoldLeft, MapThenFoldSet, Merges!Folded, Merges!Unfolds, Max, Merges!Largest, MergeStep
<1> DEFINE Bad == {k \in 0..n : ~MergeOK(st[k], ss, k)}
<1>9. 0 \notin Bad
  <2>1. << >> \in Seq(BlockRanges) /\ Len(<< >>) = 0
      BY NothingIn
  <2>2. Separate(<< >>) /\ Cover(<< >>) = CoverUpto(ss, 0)
      BY <2>1 DEF Separate, Cover, CoverUpto
  <2>3. MergeOK(<< >>, ss, 0)
      BY <2>1, <2>2 DEF MergeOK
  <2> QED BY <1>7, <2>3
<1>10. ASSUME NEW k \in 0..(n - 1), k \notin Bad PROVE k + 1 \notin Bad
  <2>1. k \in 0..n /\ k + 1 \in 1..n /\ (k + 1) - 1 = k
      BY <1>5
  <2>2. st[k + 1] = MergeRange(st[k], ss[k + 1]) /\ MergeOK(st[k], ss, (k + 1) - 1)
      BY <1>7, <1>10, <2>1
  <2>3. MergeOK(MergeRange(st[k], ss[k + 1]), ss, k + 1)
      BY <1>3, <2>1, <2>2, MergeOne
  <2> QED BY <2>2, <2>3
<1>11. Bad \in SUBSET (0..n) /\ n \in 0..n
    BY <1>5
<1> HIDE DEF Bad
<1>12. Bad = {}
    BY <1>5, <1>9, <1>10, <1>11, NoBadNumber
<1>13. MergeOK(st[n], ss, n)
    BY <1>11, <1>12 DEF Bad
<1> QED BY <1>2, <1>3, <1>4, <1>6, <1>8, <1>13 DEF MergeOK, Cover

-----------------------------------------------------------------------------
(* Searching the checked ranges for gaps.                                  *)
BlocksTo(last) == [fromBlock |-> 1, toBlock |-> last]
Gaps == [fromBlock : Int, toBlock : Int]

Searches(st, rs, last) ==
    /\ st[0] = [cursor |-> 1, missing |-> << >>]
    /\ \A k \in 1..Len(rs) : st[k] = VisitRange(BlocksTo(last), st[k - 1], rs[k])
    /\ FindMissingRanges(rs, BlocksTo(last)) =
           IF st[Len(rs)].cursor <= last
           THEN Append(st[Len(rs)].missing, [fromBlock |-> st[Len(rs)].cursor, toBlock |-> last])
           ELSE st[Len(rs)].missing

LEMMA SearchGoes ==
    ASSUME NEW T, NEW rs \in Seq(T), NEW last
    PROVE  \E st : Searches(st, rs, last)
<1> DEFINE n == Len(rs)
           wanted == BlocksTo(last)
           start == [cursor |-> wanted.fromBlock, missing |-> << >>]
<1>1. n \in Nat /\ DOMAIN rs = 1..n
    OBVIOUS
<1>2. wanted.fromBlock = 1 /\ wanted.toBlock = last
    BY DEF BlocksTo
<1>3. start = [cursor |-> 1, missing |-> << >>]
    BY <1>2
<1> HIDE DEF wanted, start
<1>4. PICK st : Visits!Passes(st, wanted, start, rs, n) /\ Visits!Folded(wanted, start, rs) = st[n]
    BY <1>1, Visits!FoldPasses, ServiceFoldsInduct
<1>5. st[0] = start /\ \A k \in 1..n : st[k] = VisitRange(wanted, st[k - 1], rs[k])
    BY <1>4 DEF Visits!Passes
<1> DEFINE end == FoldLeft(LAMBDA s, checked : VisitRange(wanted, s, checked), start, rs)
<1>6. end = Visits!Folded(wanted, start, rs)
    BY DEF FoldLeft, MapThenFoldSet, Visits!Folded, Visits!Unfolds, Max, Visits!Largest
<1>7. FindMissingRanges(rs, wanted) =
          IF end.cursor <= wanted.toBlock
          THEN Append(end.missing, [fromBlock |-> end.cursor, toBlock |-> wanted.toBlock])
          ELSE end.missing
    BY DEF FindMissingRanges, start
<1> HIDE DEF end
<1>8. end = st[n]
    BY <1>4, <1>6
<1>9. Searches(st, rs, last)
    BY <1>2, <1>3, <1>5, <1>7, <1>8 DEF Searches, wanted
<1> QED BY <1>9

(* As long as no gap is found, everything before the cursor is covered.    *)
SearchOK(s, rs, k) ==
    /\ s.cursor \in Nat /\ s.cursor > 0
    /\ s.missing \in Seq(Gaps)
    /\ s.missing = << >> => 1..(s.cursor - 1) \subseteq CoverUpto(rs, k)

LEMMA SearchOne ==
    ASSUME NEW rs \in Seq(BlockRanges), NEW k \in 1..Len(rs), NEW last \in Nat,
           NEW s, SearchOK(s, rs, k - 1)
    PROVE  SearchOK(VisitRange(BlocksTo(last), s, rs[k]), rs, k)
<1> DEFINE r == rs[k]
           t == VisitRange(BlocksTo(last), s, r)
<1>1. r.fromBlock \in Nat /\ r.fromBlock > 0 /\ r.toBlock \in Nat /\ r.fromBlock <= r.toBlock
    BY RangeAt
<1>2. k - 1 \in Nat /\ (k - 1) + 1 = k
    OBVIOUS
<1>3. CoverUpto(rs, k) = CoverUpto(rs, k - 1) \cup (r.fromBlock..r.toBlock)
  <2>1. CoverUpto(rs, (k - 1) + 1) = CoverUpto(rs, k - 1) \cup BlocksIn(rs[(k - 1) + 1])
      BY <1>2, CoverNext
  <2> QED BY <1>2, <2>1 DEF BlocksIn
<1>4. /\ s.cursor \in Nat /\ s.cursor > 0
      /\ s.missing \in Seq(Gaps)
      /\ s.missing = << >> => 1..(s.cursor - 1) \subseteq CoverUpto(rs, k - 1)
    BY DEF SearchOK
<1> HIDE DEF r
<1>5. CASE r.toBlock < s.cursor \/ r.fromBlock > last
  <2>1. t = s
      BY <1>5 DEF VisitRange, BlocksTo
  <2> QED BY <1>3, <1>4, <2>1 DEF SearchOK, r
<1>6. CASE ~(r.toBlock < s.cursor \/ r.fromBlock > last)
  <2>1. t = [cursor |-> NextMissing(r, s.cursor),
             missing |-> IF r.fromBlock > s.cursor
                         THEN Append(s.missing, [fromBlock |-> s.cursor, toBlock |-> r.fromBlock - 1])
                         ELSE s.missing]
      BY <1>6 DEF VisitRange, BlocksTo
  <2>2. NextMissing(r, s.cursor) = r.toBlock + 1
      BY <1>1, <1>4, <1>6 DEF NextMissing
  <2> HIDE DEF t
  <2>3. t.cursor = r.toBlock + 1 /\ t.cursor \in Nat /\ t.cursor > 0 /\ t.cursor - 1 = r.toBlock
      BY <1>1, <2>1, <2>2
  <2>4. CASE r.fromBlock > s.cursor
    <3> DEFINE gap == [fromBlock |-> s.cursor, toBlock |-> r.fromBlock - 1]
    <3>1. gap \in Gaps
        BY <1>1, <1>4 DEF Gaps
    <3>2. t.missing = Append(s.missing, gap)
        BY <2>1, <2>4
    <3> HIDE DEF gap
    <3>3. t.missing \in Seq(Gaps) /\ t.missing # << >>
        BY <1>4, <3>1, <3>2
    <3> QED BY <2>3, <3>3 DEF SearchOK, t, r
  <2>5. CASE ~(r.fromBlock > s.cursor)
    <3>1. t.missing = s.missing
        BY <2>1, <2>5
    <3>2. 1..r.toBlock \subseteq (1..(s.cursor - 1)) \cup (r.fromBlock..r.toBlock)
        BY <1>1, <1>4, <2>5
    <3>3. t.missing = << >> => 1..(t.cursor - 1) \subseteq CoverUpto(rs, k)
        BY <1>3, <1>4, <2>3, <3>1, <3>2
    <3> QED BY <1>4, <2>3, <3>1, <3>3 DEF SearchOK, t, r
  <2> QED BY <2>4, <2>5
<1> QED BY <1>5, <1>6

LEMMA NothingMissing ==
    ASSUME NEW rs \in Seq(BlockRanges), NEW last \in Nat, FindMissingRanges(rs, BlocksTo(last)) = << >>
    PROVE  1..last \subseteq Cover(rs)
<1> DEFINE n == Len(rs)
<1>1. n \in Nat
    OBVIOUS
<1>2. PICK st : Searches(st, rs, last)
    BY SearchGoes
<1> DEFINE Bad == {k \in 0..n : ~SearchOK(st[k], rs, k)}
<1>3. 0 \notin Bad
  <2>1. st[0] = [cursor |-> 1, missing |-> << >>]
      BY <1>2 DEF Searches
  <2>2. << >> \in Seq(Gaps)
      BY NothingIn
  <2>3. SearchOK(st[0], rs, 0)
      BY <2>1, <2>2 DEF SearchOK
  <2> QED BY <2>3
<1>4. ASSUME NEW k \in 0..(n - 1), k \notin Bad PROVE k + 1 \notin Bad
  <2>1. k \in 0..n /\ k + 1 \in 1..n /\ (k + 1) - 1 = k
      BY <1>1
  <2>2. st[k + 1] = VisitRange(BlocksTo(last), st[k], rs[k + 1]) /\ SearchOK(st[k], rs, (k + 1) - 1)
      BY <1>2, <1>4, <2>1 DEF Searches
  <2>3. SearchOK(VisitRange(BlocksTo(last), st[k], rs[k + 1]), rs, k + 1)
      BY <2>1, <2>2, SearchOne
  <2> QED BY <2>2, <2>3
<1>5. Bad \in SUBSET (0..n) /\ n \in 0..n
    BY <1>1
<1> HIDE DEF Bad
<1>6. Bad = {}
    BY <1>1, <1>3, <1>4, <1>5, NoBadNumber
<1>7. SearchOK(st[n], rs, n)
    BY <1>5, <1>6 DEF Bad
<1> DEFINE s == st[n]
           gap == [fromBlock |-> s.cursor, toBlock |-> last]
<1>8. << >> = IF s.cursor <= last THEN Append(s.missing, gap) ELSE s.missing
    BY <1>2 DEF Searches
<1>9. /\ s.cursor \in Nat /\ s.cursor > 0
      /\ s.missing \in Seq(Gaps)
      /\ s.missing = << >> => 1..(s.cursor - 1) \subseteq CoverUpto(rs, n)
    BY <1>7 DEF SearchOK
<1>10. gap \in Gaps
    BY <1>9 DEF Gaps
<1> HIDE DEF s, gap
<1>11. Append(s.missing, gap) # << >>
    BY <1>9, <1>10
<1>12. ~(s.cursor <= last) /\ s.missing = << >>
    BY <1>8, <1>11
<1>13. 1..last \subseteq 1..(s.cursor - 1)
    BY <1>9, <1>12
<1> QED BY <1>9, <1>12, <1>13 DEF Cover

(* Merged ranges that cover a prefix of the chain do so with the first.    *)
LEMMA CoveredIsFound ==
    ASSUME NEW rs \in Seq(BlockRanges), Separate(rs), NEW last \in Nat, last > 0,
           1..last \subseteq Cover(rs)
    PROVE  FindMissingRanges(rs, BlocksTo(last)) = << >>
<1> DEFINE n == Len(rs)
           r == rs[1]
<1>1. n \in Nat
    OBVIOUS
<1>2. \A b \in 1..last : \E i \in 1..n : rs[i].fromBlock <= b /\ b <= rs[i].toBlock
  <2> TAKE b \in 1..last
  <2>1. PICK i \in 1..n : b \in BlocksIn(rs[i])
      BY DEF Cover, CoverUpto
  <2>2. rs[i].fromBlock \in Nat /\ rs[i].toBlock \in Nat
      BY RangeAt
  <2> QED BY <2>1, <2>2 DEF BlocksIn
<1>3. PICK i \in 1..n : rs[i].fromBlock <= 1 /\ 1 <= rs[i].toBlock
  <2>1. 1 \in 1..last
      OBVIOUS
  <2> QED BY <1>2, <2>1
<1>4. 1 \in 1..n
    BY <1>1, <1>3
<1>5. r.fromBlock \in Nat /\ r.fromBlock > 0 /\ r.toBlock \in Nat /\ r.fromBlock <= r.toBlock
    BY <1>4, RangeAt
<1>6. r.fromBlock = 1
  <2>1. CASE i = 1
      BY <1>3, <1>5, <2>1
  <2>2. CASE i # 1
    <3>1. 1 < i
        BY <1>1, <2>2
    <3>2. r.toBlock + 1 < rs[i].fromBlock
        BY <1>4, <3>1 DEF Separate
    <3>3. rs[i].fromBlock \in Nat
        BY RangeAt
    <3> QED BY <1>3, <1>5, <3>2, <3>3
  <2> QED BY <2>1, <2>2
<1>7. \A j \in 2..n : rs[j].fromBlock \in Nat /\ r.toBlock + 1 < rs[j].fromBlock
  <2> TAKE j \in 2..n
  <2>1. j \in 1..n /\ 1 < j
      BY <1>1
  <2> QED BY <1>4, <2>1, RangeAt DEF Separate
<1>8. r.toBlock >= last
  <2> SUFFICES ASSUME ~(r.toBlock >= last) PROVE FALSE
      OBVIOUS
  <2>1. r.toBlock + 1 \in 1..last
      BY <1>5
  <2>2. PICK j \in 1..n : rs[j].fromBlock <= r.toBlock + 1 /\ r.toBlock + 1 <= rs[j].toBlock
      BY <1>2, <2>1
  <2>3. j = 1 \/ j \in 2..n
      BY <1>1
  <2> QED BY <1>5, <1>7, <2>2, <2>3
<1>9. PICK st : Searches(st, rs, last)
    BY SearchGoes
<1> DEFINE end == [cursor |-> r.toBlock + 1, missing |-> << >>]
<1>10. st[1] = end
  <2>1. st[0] = [cursor |-> 1, missing |-> << >>] /\ st[1] = VisitRange(BlocksTo(last), st[0], r)
      BY <1>4, <1>9 DEF Searches
  <2> DEFINE s == st[0]
  <2> HIDE DEF r
  <2>2. s.cursor = 1 /\ s.missing = << >>
      BY <2>1
  <2>3. ~(r.toBlock < s.cursor \/ r.fromBlock > last) /\ ~(r.fromBlock > s.cursor)
      BY <1>5, <1>6, <2>2
  <2>4. NextMissing(r, s.cursor) = r.toBlock + 1
      BY <1>5, <2>2, <1>6 DEF NextMissing
  <2> QED BY <2>1, <2>2, <2>3, <2>4 DEF VisitRange, BlocksTo
<1>11. ASSUME NEW k \in 2..n, st[k - 1] = end PROVE st[k] = end
  <2>1. k \in 1..n
      BY <1>1
  <2>2. st[k] = VisitRange(BlocksTo(last), end, rs[k])
      BY <1>9, <1>11, <2>1 DEF Searches
  <2>3. rs[k].fromBlock > last
      BY <1>5, <1>7, <1>8
  <2> QED BY <2>2, <2>3 DEF VisitRange, BlocksTo
<1> HIDE DEF end
<1> DEFINE Wrong == {k \in 0..(n - 1) : st[k + 1] # end}
<1>12. n - 1 \in Nat /\ 0 \notin Wrong /\ Wrong \in SUBSET (0..(n - 1)) /\ n - 1 \in 0..(n - 1)
    BY <1>1, <1>4, <1>10
<1>13. ASSUME NEW k \in 0..((n - 1) - 1), k \notin Wrong PROVE k + 1 \notin Wrong
  <2>1. k \in 0..(n - 1) /\ (k + 1) + 1 \in 2..n /\ ((k + 1) + 1) - 1 = k + 1
      BY <1>1
  <2>2. st[k + 1] = end
      BY <1>13, <2>1
  <2> QED BY <1>11, <2>1, <2>2
<1> HIDE DEF Wrong
<1>14. Wrong = {}
    BY <1>12, <1>13, NoBadNumber
<1>15. st[(n - 1) + 1] = end
    BY <1>12, <1>14 DEF Wrong
<1>16. (n - 1) + 1 = n
    BY <1>1
<1>17. st[n].cursor = r.toBlock + 1 /\ st[n].missing = << >>
    BY <1>15, <1>16 DEF end
<1> QED BY <1>5, <1>8, <1>9, <1>17 DEF Searches

-----------------------------------------------------------------------------
(* The blocks ingested so far are those of the checked ranges, and without *)
(* reorganisations the index is what their events say it is.               *)
RangesInv ==
    /\ ingested \subseteq 1..Len(blocks)
    /\ checkedRanges \in Seq(BlockRanges)
    /\ Separate(checkedRanges)
    /\ Cover(checkedRanges) = ingested

SeenInv ==
    /\ reorgs \in Nat
    /\ reorgs = 0 => /\ IsInjective(All(blocks))
                     /\ Knows(IndexNow, SeenIn(blocks, ingested))

ExactInv == IndexInv /\ RangesInv /\ SeenInv

LEMMA KnowsNow ==
    ASSUME NEW X
    PROVE  Knows(IndexNow, X) <=>
              /\ NotesKnown(leavesByIndex, indexByCommitment, X)
              /\ RootsKnown(roots, X)
              /\ nullifiers = {x.nullifier : x \in Nullified(X)}
BY DEF Knows, IndexNow

LEMMA SeenNothing == \A bs : SeenIn(bs, {}) = {}
BY DEF SeenIn

LEMMA KnowsNothing ==
    ASSUME NEW L, NEW by, NEW accepted, NEW spent, DOMAIN L = {}, DOMAIN by = {},
           accepted = {}, spent = {}
    PROVE  /\ NotesKnown(L, by, {})
           /\ RootsKnown(accepted, {})
           /\ spent = {x.nullifier : x \in Nullified({})}
BY DEF NotesKnown, RootsKnown, Notes, Announced, Nullified

LEMMA EmptyDomain == DOMAIN << >> = {}
OBVIOUS

LEMMA InjectiveNothing ==
    ASSUME NEW s, Len(s) = 0, s \in Seq(Commitments)
    PROVE  IsInjective(s)
BY DEF IsInjective

LEMMA ExactStarts ==
    ASSUME ServiceInit
    PROVE  ExactInv
<1>1. /\ blocks = << << >> >> /\ reorgs = 0
      /\ leavesByIndex = << >> /\ indexByCommitment = << >> /\ roots = {} /\ nullifiers = {}
      /\ checkedRanges = << >> /\ ingested = {}
    BY DEF ServiceInit, ChainInit, IndexerInit
<1>2. IndexInv
    BY ServiceStarts
<1>3. RangesInv
  <2>1. << >> \in Seq(BlockRanges) /\ Len(<< >>) = 0
      BY NothingIn
  <2>2. Separate(<< >>) /\ Cover(<< >>) = {}
      BY <2>1 DEF Separate, Cover, CoverUpto
  <2> QED BY <1>1, <2>1, <2>2 DEF RangesInv
<1>4. IsInjective(All(blocks))
  <2>1. blocks \in Chains /\ Len(blocks) = 1
      BY <1>1, <1>2 DEF IndexInv, ChainInv
  <2>2. Len(All(blocks)) = 0
      BY <2>1, FirstBlock DEF All
  <2>3. All(blocks) \in Seq(Commitments)
      BY <1>2, HistoriesAre DEF IndexInv, ChainInv
  <2> QED BY <2>2, <2>3, InjectiveNothing
<1>5. SeenIn(blocks, ingested) = {}
    BY <1>1, SeenNothing
<1>6. Knows(IndexNow, {})
    BY <1>1, KnowsNothing, KnowsNow, EmptyDomain
<1> QED BY <1>1, <1>2, <1>3, <1>4, <1>5, <1>6 DEF ExactInv, SeenInv

LEMMA SeenLocal ==
    ASSUME NEW bs \in Chains, NEW cs \in Chains, Len(bs) <= Len(cs),
           \A k \in 1..Len(bs) : cs[k] = bs[k], NEW N \in SUBSET (1..Len(bs))
    PROVE  SeenIn(cs, N) = SeenIn(bs, N)
<1>1. Len(bs) \in Nat /\ Len(cs) \in Nat
    BY DEF Chains
<1>2. \A n \in N : EventsOfBlock(bs, n) = EventsOfBlock(cs, n)
  <2> TAKE n \in N
  <2>1. n \in 1..Len(bs) /\ n <= Len(cs) /\ \A k \in 1..n : k \in 1..Len(bs)
      BY <1>1
  <2> QED BY <2>1, BlockEventsLocal
<1> QED BY <1>2 DEF SeenIn

LEMMA MineExact ==
    ASSUME ExactInv, Mine, UNCHANGED indexerVars
    PROVE  RangesInv' /\ SeenInv'
<1>1. /\ ChainInv' /\ Len(blocks) <= Len(blocks')
      /\ \A k \in 1..Len(blocks) : blocks'[k] = blocks[k]
      /\ Possible(All(blocks'))
    BY MineMoves DEF ExactInv, IndexInv, Moved
<1>2. blocks \in Chains /\ blocks' \in Chains
    BY <1>1 DEF ExactInv, IndexInv, ChainInv
<1>3. Len(blocks) \in Nat /\ Len(blocks') \in Nat
    BY <1>2 DEF Chains
<1>4. reorgs' = reorgs /\ ingested' = ingested /\ checkedRanges' = checkedRanges /\ IndexNow' = IndexNow
    BY DEF Mine, indexerVars, stateVars, IndexNow
<1>5. RangesInv'
    BY <1>1, <1>3, <1>4 DEF ExactInv, RangesInv
<1>6. SeenIn(blocks', ingested) = SeenIn(blocks, ingested)
    BY <1>1, <1>2, SeenLocal DEF ExactInv, RangesInv
<1>7. IsInjective(All(blocks'))
    BY <1>1 DEF Possible
<1>8. All(blocks)' = All(blocks')
    BY DEF All
<1> QED BY <1>4, <1>5, <1>6, <1>7, <1>8 DEF ExactInv, SeenInv

LEMMA ReorgExact ==
    ASSUME ExactInv, Reorg, UNCHANGED indexerVars
    PROVE  RangesInv' /\ SeenInv'
<1>1. ChainInv' /\ Len(blocks) <= Len(blocks')
    BY ReorgMoves DEF ExactInv, IndexInv, Moved
<1>2. Len(blocks) \in Nat /\ Len(blocks') \in Nat
    BY <1>1 DEF ExactInv, IndexInv, ChainInv, Chains
<1>3. reorgs' = reorgs + 1 /\ ingested' = ingested /\ checkedRanges' = checkedRanges
    BY DEF Reorg, indexerVars
<1> QED BY <1>1, <1>2, <1>3 DEF ExactInv, RangesInv, SeenInv

LEMMA RangeOfBlocks ==
    ASSUME blocks \in Chains, NEW r \in Ranges
    PROVE  r \in BlockRanges /\ BlocksIn(r) \subseteq 1..Len(blocks)
<1>1. Len(blocks) \in Nat
    BY DEF Chains
<1>2. /\ r.fromBlock \in 1..Len(blocks) /\ r.toBlock \in 1..Len(blocks) /\ r.fromBlock <= r.toBlock
      /\ r = [fromBlock |-> r.fromBlock, toBlock |-> r.toBlock]
    BY DEF Ranges, Latest
<1> QED BY <1>1, <1>2 DEF BlockRanges, BlocksIn

LEMMA SeenEvents ==
    ASSUME NEW bs \in Chains, NEW N \in SUBSET (1..Len(bs))
    PROVE  SeenIn(bs, N) \subseteq EventsOf(All(bs))
<1> SUFFICES ASSUME NEW n \in N PROVE ToSet(EventsOfBlock(bs, n)) \subseteq EventsOf(All(bs))
    BY DEF SeenIn
<1>1. EventsOfBlock(bs, n) \in Seq(EventsOf(All(bs)))
    BY BlockEvents
<1> QED BY <1>1 DEF ToSet

LEMMA IngestExact ==
    ASSUME ExactInv, NEW r \in Ranges, Ingest(r)
    PROVE  RangesInv' /\ SeenInv'
<1> DEFINE h == All(blocks)
           batch == LogsIn(r)
           s == IngestLogs(batch)
           X == SeenIn(blocks, ingested)
           more == ingested \cup (r.fromBlock..r.toBlock)
<1>1. blocks \in Chains /\ h \in Histories
    BY DEF ExactInv, IndexInv, ChainInv
<1>2. r \in BlockRanges /\ BlocksIn(r) = r.fromBlock..r.toBlock /\ BlocksIn(r) \subseteq 1..Len(blocks)
    BY <1>1, RangeOfBlocks DEF BlocksIn
<1>3. batch \in Seq(EventsOf(h)) /\ ToSet(batch) = SeenIn(blocks, r.fromBlock..r.toBlock)
    BY <1>1, RangeLogs
<1>4. X \subseteq EventsOf(h)
    BY <1>1, SeenEvents DEF ExactInv, RangesInv
<1>5. X \cup ToSet(batch) = SeenIn(blocks, more)
    BY <1>3 DEF SeenIn
<1>6. /\ leavesByIndex' = s.leaves /\ indexByCommitment' = s.byCommitment
      /\ roots' = s.roots /\ nullifiers' = s.nullifiers
      /\ blocks' = blocks /\ reorgs' = reorgs
      /\ \/ /\ s.ok
            /\ checkedRanges' = MarkCheckedRange(checkedRanges, r)
            /\ ingested' = more
         \/ /\ ~s.ok
            /\ checkedRanges' = checkedRanges /\ ingested' = ingested
    BY DEF Ingest, chainVars
<1>7. RangesInv'
  <2>1. CASE checkedRanges' = MarkCheckedRange(checkedRanges, r) /\ ingested' = more
    <3>1. /\ MarkCheckedRange(checkedRanges, r) \in Seq(BlockRanges)
          /\ Separate(MarkCheckedRange(checkedRanges, r))
          /\ Cover(MarkCheckedRange(checkedRanges, r)) = Cover(checkedRanges) \cup BlocksIn(r)
        BY <1>2, MarkedIs DEF ExactInv, RangesInv
    <3> QED BY <1>2, <1>6, <2>1, <3>1 DEF ExactInv, RangesInv
  <2>2. CASE checkedRanges' = checkedRanges /\ ingested' = ingested
      BY <1>6, <2>2 DEF ExactInv, RangesInv
  <2> QED BY <1>6, <2>1, <2>2
<1> HIDE DEF batch, X, s
<1>8. ASSUME reorgs = 0
      PROVE  Knows(s, SeenIn(blocks, more))
  <2>1. IsInjective(h) /\ Knows(IndexNow, X)
      BY <1>8 DEF ExactInv, SeenInv, X
  <2>2. Knows(s, X \cup ToSet(batch))
      BY <1>1, <1>3, <1>4, <2>1, BatchKnows DEF s
  <2> QED BY <1>5, <2>2
<1>9. SeenInv'
  <2> SUFFICES ASSUME reorgs = 0
               PROVE  IsInjective(h) /\ Knows(IndexNow', SeenIn(blocks, ingested'))
      BY <1>6 DEF ExactInv, SeenInv, All
  <2>1. Knows(s, SeenIn(blocks, more))
      BY <1>8
  <2>2. ingested' = more
      BY <1>6, <2>1 DEF Knows
  <2>3. IndexNow' = [leaves |-> leavesByIndex', byCommitment |-> indexByCommitment',
                     cache |-> pathCache', roots |-> roots', expired |-> expiredRoots',
                     nullifiers |-> nullifiers', notes |-> encryptedNotes', ok |-> TRUE]
      BY DEF IndexNow
  <2>4. /\ IndexNow'.ok /\ IndexNow'.leaves = s.leaves /\ IndexNow'.byCommitment = s.byCommitment
        /\ IndexNow'.roots = s.roots /\ IndexNow'.nullifiers = s.nullifiers
      BY <1>6, <2>3
  <2> HIDE DEF more
  <2>5. Knows(IndexNow', SeenIn(blocks, more))
      BY <2>1, <2>4 DEF Knows
  <2> QED BY <2>2, <2>5 DEF ExactInv, SeenInv
<1> QED BY <1>7, <1>9

LEMMA ExactSteps ==
    ASSUME ExactInv, [ServiceNext]_serviceVars
    PROVE  ExactInv'
<1>1. IndexInv'
    BY ServiceSteps DEF ExactInv
<1>2. CASE (Mine \/ Reorg) /\ UNCHANGED indexerVars
    BY <1>1, <1>2, MineExact, ReorgExact DEF ExactInv
<1>3. ASSUME NEW r \in Ranges, Ingest(r) PROVE ExactInv'
    BY <1>1, <1>3, IngestExact DEF ExactInv
<1>4. ASSUME NEW c \in Commitments, NEW v12 \in BOOLEAN, NEW n \in 1..Latest, Query(c, v12, n)
      PROVE  ExactInv'
  <2>1. UNCHANGED <<chainVars, leavesByIndex, indexByCommitment, roots, nullifiers,
                    checkedRanges, ingested>>
      BY <1>4 DEF Query
  <2>2. /\ blocks' = blocks /\ reorgs' = reorgs /\ ingested' = ingested
        /\ checkedRanges' = checkedRanges
      BY <2>1 DEF chainVars
  <2>3. \A X : Knows(IndexNow, X) => Knows(IndexNow, X)'
      BY <2>1 DEF Knows, IndexNow
  <2>4. RangesInv' /\ SeenInv'
      BY <2>2, <2>3 DEF ExactInv, RangesInv, SeenInv
  <2> QED BY <1>1, <2>4 DEF ExactInv
<1>5. CASE UNCHANGED serviceVars
  <2>1. /\ blocks' = blocks /\ reorgs' = reorgs /\ ingested' = ingested
        /\ checkedRanges' = checkedRanges /\ IndexNow' = IndexNow
      BY <1>5 DEF serviceVars, chainVars, indexerVars, stateVars, IndexNow
  <2>2. RangesInv' /\ SeenInv'
      BY <2>1 DEF ExactInv, RangesInv, SeenInv
  <2> QED BY <1>1, <2>2 DEF ExactInv
<1> QED BY <1>2, <1>3, <1>4, <1>5 DEF ServiceNext

LEMMA ExactInvHolds == ServiceSpec => []ExactInv
<1>1. ServiceInit => ExactInv
    BY ExactStarts
<1>2. ExactInv /\ [ServiceNext]_serviceVars => ExactInv'
    BY ExactSteps
<1> QED BY <1>1, <1>2, PTL DEF ServiceSpec

-----------------------------------------------------------------------------
(* What the index holds, from the transactions whose events it has seen.   *)
LEMMA EmittedBy ==
    ASSUME NEW h, NEW j \in Nat, NEW x \in Emits(h, j)
    PROVE  /\ x.event = "NoteCreated" => j > 0 /\ x.commitment = h[j] /\ x.leafIndex = j - 1
           /\ x.event = "RootAccepted" => x.root = Root(h, j)
           /\ x.event = "RootExpired" => j >= ROOT_HISTORY_SIZE /\ x.root = Root(h, j - ROOT_HISTORY_SIZE)
           /\ x.event = "NullifierSpent" => j > 0 /\ h[j] \in Spends /\ x.nullifier = h[j]
<1>1. CASE x = Accepts(h, j)
    BY <1>1 DEF Accepts, RootAccepted
<1>2. CASE x \in Expiry(h, j)
    BY <1>2 DEF Expiry, RootExpired
<1>3. CASE x \in Spending(h, j)
    BY <1>3 DEF Spending, NullifierSpent
<1>4. CASE x \in Creation(h, j)
    BY <1>4 DEF Creation, NoteCreated
<1> QED BY <1>1, <1>2, <1>3, <1>4 DEF Emits

LEMMA EmitsThese ==
    ASSUME NEW h, NEW j \in Nat
    PROVE  /\ \E x \in Emits(h, j) : x.event = "RootAccepted" /\ x.root = Root(h, j)
           /\ j > 0 => \E x \in Emits(h, j) :
                 x.event = "NoteCreated" /\ x.commitment = h[j] /\ x.leafIndex = j - 1
           /\ j > 0 /\ h[j] \in Spends => \E x \in Emits(h, j) :
                 x.event = "NullifierSpent" /\ x.nullifier = h[j]
<1>1. Accepts(h, j).event = "RootAccepted" /\ Accepts(h, j).root = Root(h, j) /\ Accepts(h, j) \in Emits(h, j)
    BY DEF Accepts, RootAccepted, Emits
<1>2. ASSUME j > 0
      PROVE  \E x \in Emits(h, j) : x.event = "NoteCreated" /\ x.commitment = h[j] /\ x.leafIndex = j - 1
  <2> DEFINE x == NoteCreated(h[j], j - 1)
  <2>1. x \in Emits(h, j)
      BY <1>2 DEF Emits, Creation
  <2>2. x.event = "NoteCreated" /\ x.commitment = h[j] /\ x.leafIndex = j - 1
      BY DEF NoteCreated
  <2> HIDE DEF x
  <2> QED BY <2>1, <2>2
<1>3. ASSUME j > 0, h[j] \in Spends
      PROVE  \E x \in Emits(h, j) : x.event = "NullifierSpent" /\ x.nullifier = h[j]
  <2> DEFINE x == NullifierSpent(h[j])
  <2>1. x \in Emits(h, j)
      BY <1>3 DEF Emits, Spending
  <2>2. x.event = "NullifierSpent" /\ x.nullifier = h[j]
      BY DEF NullifierSpent
  <2> HIDE DEF x
  <2> QED BY <2>1, <2>2
<1> QED BY <1>1, <1>2, <1>3

LEMMA EmittedNotes ==
    ASSUME NEW h, NEW J \in SUBSET Nat
    PROVE  /\ \A x \in Notes(EmitsIn(h, J)) :
                 \E j \in J : j > 0 /\ x.commitment = h[j] /\ x.leafIndex = j - 1
           /\ \A j \in J : j > 0 =>
                 \E x \in Notes(EmitsIn(h, J)) : x.commitment = h[j] /\ x.leafIndex = j - 1
<1>1. ASSUME NEW x \in Notes(EmitsIn(h, J))
      PROVE  \E j \in J : j > 0 /\ x.commitment = h[j] /\ x.leafIndex = j - 1
  <2>1. x.event = "NoteCreated" /\ x \in EmitsIn(h, J)
      BY DEF Notes
  <2>2. PICK j \in J : x \in Emits(h, j)
      BY <2>1 DEF EmitsIn
  <2> QED BY <2>1, <2>2, EmittedBy
<1>2. ASSUME NEW j \in J, j > 0
      PROVE  \E x \in Notes(EmitsIn(h, J)) : x.commitment = h[j] /\ x.leafIndex = j - 1
  <2>1. j \in Nat
      OBVIOUS
  <2>2. PICK x \in Emits(h, j) : x.event = "NoteCreated" /\ x.commitment = h[j] /\ x.leafIndex = j - 1
      BY <1>2, <2>1, EmitsThese
  <2>3. x \in Notes(EmitsIn(h, J))
      BY <2>2 DEF Notes, EmitsIn
  <2> QED BY <2>2, <2>3
<1> QED BY <1>1, <1>2

LEMMA EmittedRoots ==
    ASSUME NEW h, NEW J \in SUBSET Nat
    PROVE  /\ \A x \in Announced(EmitsIn(h, J)) : \E j \in J : x.root = Root(h, j)
           /\ \A j \in J : \E x \in Announced(EmitsIn(h, J)) : x.root = Root(h, j)
           /\ \A x \in Expired(EmitsIn(h, J)) :
                 \E j \in J : j >= ROOT_HISTORY_SIZE /\ x.root = Root(h, j - ROOT_HISTORY_SIZE)
<1>1. ASSUME NEW x \in Announced(EmitsIn(h, J))
      PROVE  \E j \in J : x.root = Root(h, j)
  <2>1. x.event = "RootAccepted" /\ x \in EmitsIn(h, J)
      BY DEF Announced
  <2>2. PICK j \in J : x \in Emits(h, j)
      BY <2>1 DEF EmitsIn
  <2> QED BY <2>1, <2>2, EmittedBy
<1>2. ASSUME NEW j \in J
      PROVE  \E x \in Announced(EmitsIn(h, J)) : x.root = Root(h, j)
  <2>1. PICK x \in Emits(h, j) : x.event = "RootAccepted" /\ x.root = Root(h, j)
      BY EmitsThese
  <2>2. x \in Announced(EmitsIn(h, J))
      BY <2>1 DEF Announced, EmitsIn
  <2> QED BY <2>1, <2>2
<1>3. ASSUME NEW x \in Expired(EmitsIn(h, J))
      PROVE  \E j \in J : j >= ROOT_HISTORY_SIZE /\ x.root = Root(h, j - ROOT_HISTORY_SIZE)
  <2>1. x.event = "RootExpired" /\ x \in EmitsIn(h, J)
      BY DEF Expired
  <2>2. PICK j \in J : x \in Emits(h, j)
      BY <2>1 DEF EmitsIn
  <2> QED BY <2>1, <2>2, EmittedBy
<1> QED BY <1>1, <1>2, <1>3

LEMMA EmittedNullifiers ==
    ASSUME NEW h, NEW J \in SUBSET Nat
    PROVE  {x.nullifier : x \in Nullified(EmitsIn(h, J))} = {h[j] : j \in {i \in J : i > 0}} \cap Spends
<1> DEFINE spent == {x.nullifier : x \in Nullified(EmitsIn(h, J))}
<1>1. ASSUME NEW x \in Nullified(EmitsIn(h, J))
      PROVE  \E j \in J : j > 0 /\ h[j] \in Spends /\ x.nullifier = h[j]
  <2>1. x.event = "NullifierSpent" /\ x \in EmitsIn(h, J)
      BY DEF Nullified
  <2>2. PICK j \in J : x \in Emits(h, j)
      BY <2>1 DEF EmitsIn
  <2> QED BY <2>1, <2>2, EmittedBy
<1>2. ASSUME NEW j \in J, j > 0, h[j] \in Spends
      PROVE  \E x \in Nullified(EmitsIn(h, J)) : x.nullifier = h[j]
  <2>1. PICK x \in Emits(h, j) : x.event = "NullifierSpent" /\ x.nullifier = h[j]
      BY <1>2, EmitsThese
  <2>2. x \in Nullified(EmitsIn(h, J))
      BY <2>1 DEF Nullified, EmitsIn
  <2> QED BY <2>1, <2>2
<1> QED BY <1>1, <1>2

(* Without reorganisations: the index seen from the pool's transactions.   *)
IndexedFrom(h, J) ==
    /\ h \in Histories
    /\ J \in SUBSET (0..Len(h))
    /\ IndexOK(leavesByIndex, indexByCommitment)
    /\ Knows(IndexNow, EmitsIn(h, J))

LEMMA IndexSeen ==
    ASSUME ExactInv, reorgs = 0
    PROVE  IndexedFrom(All(blocks), TxsIn(blocks, ingested))
<1>1. blocks \in Chains /\ All(blocks) \in Histories /\ ingested \in SUBSET (1..Len(blocks))
    BY DEF ExactInv, IndexInv, ChainInv, RangesInv
<1>2. Knows(IndexNow, EmitsIn(All(blocks), TxsIn(blocks, ingested)))
    BY <1>1, SeenEmits DEF ExactInv, SeenInv
<1>3. IndexOK(leavesByIndex, indexByCommitment)
    BY IndexParts DEF ExactInv, IndexInv
<1>4. TxsIn(blocks, ingested) \in SUBSET (0..Len(All(blocks)))
  <2>1. Len(blocks) \in Nat /\ Len(blocks) \in 1..Len(blocks)
      BY <1>1 DEF Chains
  <2>2. TxsIn(blocks, 1..Len(blocks)) = 0..Len(All(blocks))
      BY <1>1, <2>1, TxsUpto DEF All
  <2>3. TxsIn(blocks, ingested) \subseteq TxsIn(blocks, 1..Len(blocks))
      BY <1>1 DEF TxsIn
  <2> QED BY <2>2, <2>3
<1> QED BY <1>1, <1>2, <1>3, <1>4 DEF IndexedFrom

IndexHolds(h, J) ==
    /\ DOMAIN leavesByIndex = {j - 1 : j \in {i \in J : i > 0}}
    /\ DOMAIN indexByCommitment = {h[j] : j \in {i \in J : i > 0}}
    /\ \A j \in J : j > 0 => leavesByIndex[j - 1] = h[j]
    /\ \A j \in J : j > 0 => j - 1 \in DOMAIN leavesByIndex
    /\ \A p \in DOMAIN leavesByIndex : \E j \in J : j > 0 /\ p = j - 1
    /\ nullifiers = {h[j] : j \in {i \in J : i > 0}} \cap Spends
    /\ \A root \in roots : \E j \in J : root = Root(h, j)
    /\ \A j \in J : \/ Root(h, j) \in roots
                    \/ \E i \in J : i >= ROOT_HISTORY_SIZE
                                    /\ Root(h, j) = Root(h, i - ROOT_HISTORY_SIZE)

LEMMA IndexedLeaves ==
    ASSUME NEW h, NEW J, IndexedFrom(h, J)
    PROVE  IndexHolds(h, J)
<1> DEFINE X == EmitsIn(h, J)
<1>1. J \in SUBSET Nat
    BY DEF IndexedFrom
<1>2. NotesKnown(leavesByIndex, indexByCommitment, X) /\ RootsKnown(roots, X)
      /\ nullifiers = {x.nullifier : x \in Nullified(X)}
    BY KnowsNow DEF IndexedFrom
<1>3. /\ \A x \in Notes(X) : \E j \in J : j > 0 /\ x.commitment = h[j] /\ x.leafIndex = j - 1
      /\ \A j \in J : j > 0 => \E x \in Notes(X) : x.commitment = h[j] /\ x.leafIndex = j - 1
    BY <1>1, EmittedNotes
<1>4. /\ \A x \in Announced(X) : \E j \in J : x.root = Root(h, j)
      /\ \A j \in J : \E x \in Announced(X) : x.root = Root(h, j)
      /\ \A x \in Expired(X) :
            \E j \in J : j >= ROOT_HISTORY_SIZE /\ x.root = Root(h, j - ROOT_HISTORY_SIZE)
    BY <1>1, EmittedRoots
<1>5. nullifiers = {h[j] : j \in {i \in J : i > 0}} \cap Spends
    BY <1>1, <1>2, EmittedNullifiers
<1> HIDE DEF X
<1>6. DOMAIN leavesByIndex = {j - 1 : j \in {i \in J : i > 0}}
    BY <1>2, <1>3 DEF NotesKnown
<1>7. DOMAIN indexByCommitment = {h[j] : j \in {i \in J : i > 0}}
    BY <1>2, <1>3 DEF NotesKnown
<1>8. \A j \in J : j > 0 => leavesByIndex[j - 1] = h[j]
    BY <1>2, <1>3 DEF NotesKnown
<1>9. \A root \in roots : \E j \in J : root = Root(h, j)
    BY <1>2, <1>4 DEF RootsKnown
<1>10. ASSUME NEW j \in J
       PROVE  \/ Root(h, j) \in roots
              \/ \E i \in J : i >= ROOT_HISTORY_SIZE /\ Root(h, j) = Root(h, i - ROOT_HISTORY_SIZE)
  <2>1. PICK x \in Announced(X) : x.root = Root(h, j)
      BY <1>4
  <2>2. CASE x.root \in roots
      BY <2>1, <2>2
  <2>3. CASE x.root \in {y.root : y \in Expired(X)}
      BY <1>4, <2>1, <2>3
  <2> QED BY <1>2, <2>2, <2>3 DEF RootsKnown
<1>11. /\ \A j \in J : j > 0 => j - 1 \in DOMAIN leavesByIndex
       /\ \A p \in DOMAIN leavesByIndex : \E j \in J : j > 0 /\ p = j - 1
    BY <1>6
<1> QED BY <1>5, <1>6, <1>7, <1>8, <1>9, <1>10, <1>11 DEF IndexHolds

(* The leaves of the pool after its j-th transaction.                      *)
LEMMA CutLeaves ==
    ASSUME NEW h \in Histories, NEW j \in 0..Len(h), NEW i \in Nat
    PROVE  /\ i < j => i + 1 \in 1..Len(h) /\ NodeAt(Cut(h, j), i, ZERO) = h[i + 1] /\ h[i + 1] # ZERO
           /\ i >= j => NodeAt(Cut(h, j), i, ZERO) = ZERO
           /\ j <= Capacity /\ Capacity \in Nat
<1>1. h \in Seq(Commitments) /\ Len(h) <= Capacity /\ Capacity \in Nat
    BY HistoriesAre, DepthAssumption, PowerPositive DEF Capacity
<1>2. CASE i < j
  <2>1. i + 1 \in 1..Len(h) /\ i \in 0..(j - 1)
      BY <1>1, <1>2
  <2>2. h[i + 1] \in Commitments
      BY <1>1, <2>1, ElementIn
  <2> QED BY <1>1, <1>2, <2>1, <2>2, ChainAssumption DEF Cut, NodeAt
<1>3. CASE i >= j
  <2>1. i \notin 0..(j - 1)
      BY <1>3
  <2> QED BY <1>1, <1>3, <2>1 DEF Cut, NodeAt
<1> QED BY <1>2, <1>3

(* Different transactions lead to different roots.                         *)
LEMMA RootsDiffer ==
    ASSUME NEW h \in Histories, NEW j \in 0..Len(h), NEW i \in 0..Len(h), i < j
    PROVE  Root(h, i) # Root(h, j)
<1> SUFFICES ASSUME Root(h, i) = Root(h, j) PROVE FALSE
    OBVIOUS
<1>1. i \in Nat /\ i < Capacity
    BY CutLeaves
<1>2. NodeAt(Cut(h, i), i, ZERO) = NodeAt(Cut(h, j), i, ZERO)
    BY <1>1, RootInjective DEF Root
<1> QED BY <1>1, <1>2, CutLeaves

(* A root that the pool computed is that of an index without a hole.       *)
LEMMA IndexIsFull ==
    ASSUME NEW h, NEW J, IndexedFrom(h, J), NEW j \in J, TreeRoot(leavesByIndex) = Root(h, j)
    PROVE  \A i \in Nat \ {0} : i \in J <=> i <= j
<1>1. h \in Histories /\ J \subseteq 0..Len(h) /\ j \in 0..Len(h) /\ Len(h) <= Capacity /\ Capacity \in Nat
  <2>1. h \in Histories /\ J \subseteq 0..Len(h)
      BY DEF IndexedFrom
  <2>2. Len(h) <= Capacity /\ Capacity \in Nat
      BY <2>1, HistoriesAre, DepthAssumption, PowerPositive DEF Capacity
  <2> QED BY <2>1, <2>2
<1>2. Len(h) \in Nat
    BY <1>1, HistoriesAre
<1>3. ASSUME NEW i \in Nat \ {0}, i \in J PROVE i <= j
  <2> SUFFICES ASSUME i > j PROVE FALSE
      BY <1>1, <1>2
  <2>1. i - 1 \in Nat /\ i - 1 < Capacity /\ i - 1 >= j /\ i - 1 \in 0..(Len(h) - 1)
      BY <1>1, <1>2, <1>3
  <2>2. NodeAt(leavesByIndex, i - 1, ZERO) = NodeAt(Cut(h, j), i - 1, ZERO)
      BY <2>1, RootInjective DEF Root
  <2>3. NodeAt(Cut(h, j), i - 1, ZERO) = ZERO
      BY <1>1, <2>1, CutLeaves
  <2>4. i > 0
      OBVIOUS
  <2>5. i - 1 \in DOMAIN leavesByIndex /\ leavesByIndex[i - 1] = h[i]
      BY <1>3, <2>4, IndexedLeaves DEF IndexHolds
  <2>6. NodeAt(leavesByIndex, i - 1, ZERO) \in Commitments
      BY <2>5 DEF NodeAt, IndexedFrom, IndexOK
  <2> QED BY <2>2, <2>3, <2>6, ChainAssumption
<1>4. ASSUME NEW i \in Nat \ {0}, i <= j PROVE i \in J
  <2> SUFFICES ASSUME i \notin J PROVE FALSE
      OBVIOUS
  <2>1. i - 1 \in Nat /\ i - 1 < Capacity /\ i - 1 < j
      BY <1>1, <1>2, <1>4
  <2>2. NodeAt(leavesByIndex, i - 1, ZERO) = NodeAt(Cut(h, j), i - 1, ZERO)
      BY <2>1, RootInjective DEF Root
  <2>3. NodeAt(Cut(h, j), i - 1, ZERO) # ZERO
      BY <1>1, <2>1, CutLeaves
  <2>4. i - 1 \notin DOMAIN leavesByIndex
    <3> SUFFICES ASSUME i - 1 \in DOMAIN leavesByIndex PROVE FALSE
        OBVIOUS
    <3>1. PICK g \in J : g > 0 /\ i - 1 = g - 1
        BY IndexedLeaves DEF IndexHolds
    <3>2. g \in Nat
        BY <1>1, <1>2
    <3> QED BY <3>1, <3>2
  <2> QED BY <2>2, <2>3, <2>4 DEF NodeAt
<1> QED BY <1>3, <1>4

LEMMA LastRootAt ==
    ASSUME blocks \in Chains, NEW n \in 1..Len(blocks)
    PROVE  /\ LeavesAt(n) = Upto(blocks, n)
           /\ Last(PoolAfter[LeavesAt(n)].roots) = Root(All(blocks), Len(Upto(blocks, n)))
<1> DEFINE h == All(blocks)
           k == Len(Upto(blocks, n))
<1>1. blocks \in Seq(Seq(Commitments)) /\ Len(blocks) \in Nat /\ n \in 0..Len(blocks)
    BY DEF Chains
<1>2. LeavesAt(n) = Upto(blocks, n)
    BY <1>1, FlattenPrefix DEF LeavesAt
<1>3. h \in Histories /\ k \in 0..Len(h) /\ PoolAfter[Upto(blocks, n)] = PoolSt(h, k)
    BY <1>1, ChainPrefix
<1> HIDE DEF h, k
<1>4. RootsAre(PoolSt(h, k).roots, h, k)
    BY <1>3, PoolAlong DEF PoolIs
<1> DEFINE kept == PoolSt(h, k).roots
<1>5. Len(kept) = k + 1 /\ kept[k + 1] = Root(h, k)
  <2>1. k \in 0..k
      BY <1>3
  <2> QED BY <1>4, <2>1 DEF RootsAre
<1> QED BY <1>2, <1>3, <1>5 DEF Last, h, k

(* The newest transaction of whole blocks is the last of one of them.      *)
LEMMA LastOfBlock ==
    ASSUME NEW bs \in Chains, NEW N \in SUBSET (1..Len(bs)), NEW j \in TxsIn(bs, N), j > 0,
           \A i \in Nat \ {0} : i \in TxsIn(bs, N) <=> i <= j
    PROVE  \E n \in N : Len(Upto(bs, n)) = j
<1>1. bs \in Seq(Seq(Commitments)) /\ Len(bs) \in Nat
    BY DEF Chains
<1>2. PICK n \in N : j \in TxsOf(bs, n)
    BY DEF TxsIn
<1>3. n \in 1..Len(bs) /\ n \in 0..Len(bs) /\ n - 1 \in 0..Len(bs)
    BY <1>1
<1>4. Len(Upto(bs, n)) \in Nat /\ Len(Upto(bs, n - 1)) \in Nat
  <2>1. Upto(bs, n) \in Seq(Commitments) /\ Upto(bs, n - 1) \in Seq(Commitments)
      BY <1>1, <1>3, UptoSteps
  <2> QED BY <2>1
<1>5. n # 1
    BY <1>2 DEF TxsOf
<1>6. TxsOf(bs, n) = (Len(Upto(bs, n - 1)) + 1)..Len(Upto(bs, n))
    BY <1>5 DEF TxsOf
<1>7. j \in Nat /\ j <= Len(Upto(bs, n)) /\ Len(Upto(bs, n)) \in TxsOf(bs, n) /\ Len(Upto(bs, n)) \in Nat \ {0}
    BY <1>2, <1>4, <1>6
<1>8. Len(Upto(bs, n)) \in TxsIn(bs, N)
    BY <1>7 DEF TxsIn
<1>9. Len(Upto(bs, n)) <= j
    BY <1>7, <1>8
<1> QED BY <1>4, <1>7, <1>9

-----------------------------------------------------------------------------
CompleteTo(n) == 1..n \subseteq ingested

LEMMA CompleteIs ==
    ASSUME ExactInv, NEW n \in 1..Len(blocks)
    PROVE  Complete(n) <=> CompleteTo(n)
<1>1. Len(blocks) \in Nat
    BY DEF ExactInv, IndexInv, ChainInv, Chains
<1>2. n \in Nat /\ n > 0
    BY <1>1
<1>3. checkedRanges \in Seq(BlockRanges) /\ Separate(checkedRanges) /\ Cover(checkedRanges) = ingested
    BY DEF ExactInv, RangesInv
<1>4. Complete(n) <=> FindMissingRanges(checkedRanges, BlocksTo(n)) = << >>
    BY DEF Complete, BlocksTo
<1> QED BY <1>2, <1>3, <1>4, NothingMissing, CoveredIsFound DEF CompleteTo

LEMMA CurrentRoot ==
    ASSUME ExactInv, reorgs = 0, NEW c \in DOMAIN indexByCommitment, PathFor(c).root \in roots,
           NEW n \in 1..Len(blocks), NEW v12 \in BOOLEAN, v12 => CompleteTo(n)
    PROVE  \E block \in (IF v12 THEN n ELSE 1)..Len(blocks) :
              PathFor(c).root = Last(PoolAfter[LeavesAt(block)].roots)
<1> DEFINE h == All(blocks)
           J == TxsIn(blocks, ingested)
<1>1. blocks \in Chains /\ ingested \in SUBSET (1..Len(blocks))
    BY DEF ExactInv, IndexInv, ChainInv, RangesInv
<1>2. blocks \in Seq(Seq(Commitments)) /\ Len(blocks) \in Nat
    BY <1>1 DEF Chains
<1>3. IndexedFrom(h, J) /\ IndexHolds(h, J)
    BY IndexSeen, IndexedLeaves
<1>4. PathFor(c).root = TreeRoot(leavesByIndex)
  <2>1. PathFor(c) = PathOf(leavesByIndex, indexByCommitment[c])
      BY PathForIs DEF ExactInv, IndexInv
  <2> QED BY <2>1 DEF PathOf
<1> HIDE DEF h, J
<1>5. J \subseteq Nat /\ \A i \in Nat : i \in J => i <= Len(h)
  <2>1. J \subseteq 0..Len(h) /\ h \in Seq(Commitments)
      BY <1>3, HistoriesAre DEF IndexedFrom
  <2> QED BY <2>1
<1>6. PICK j \in J : TreeRoot(leavesByIndex) = Root(h, j)
    BY <1>3, <1>4 DEF IndexHolds
<1>7. \A i \in Nat \ {0} : i \in J <=> i <= j
    BY <1>3, <1>6, IndexIsFull
<1>8. j > 0
  <2>1. PICK i \in J : i > 0 /\ c = h[i]
      BY <1>3 DEF IndexHolds
  <2>2. i \in Nat \ {0} /\ j \in Nat
      BY <1>5, <2>1
  <2> QED BY <1>7, <2>1, <2>2
<1>9. PICK m \in ingested : Len(Upto(blocks, m)) = j
    BY <1>1, <1>6, <1>7, <1>8, LastOfBlock DEF J
<1>10. m \in 1..Len(blocks) /\ PathFor(c).root = Last(PoolAfter[LeavesAt(m)].roots)
    BY <1>1, <1>4, <1>6, <1>9, LastRootAt DEF h
<1>11. CASE m \in (IF v12 THEN n ELSE 1)..Len(blocks)
    BY <1>10, <1>11
<1>12. CASE m \notin (IF v12 THEN n ELSE 1)..Len(blocks)
  <2>1. v12 /\ m < n
      BY <1>2, <1>10, <1>12
  <2>2. Len(Upto(blocks, n)) \in Nat /\ Len(Upto(blocks, m)) <= Len(Upto(blocks, n))
    <3>1. n \in 0..Len(blocks) /\ m \in 0..n
        BY <1>2, <1>10, <2>1
    <3>2. Upto(blocks, n) \in Seq(Commitments) /\ PrefixOf(Upto(blocks, m), Upto(blocks, n))
        BY <1>2, <3>1, UptoOrder, UptoSteps
    <3> QED BY <3>2 DEF PrefixOf
  <2>3. Len(Upto(blocks, n)) \in J
    <3>1. TxsIn(blocks, 1..n) = 0..Len(Upto(blocks, n))
        BY <1>1, TxsUpto
    <3>2. TxsIn(blocks, 1..n) \subseteq J
        BY <2>1 DEF TxsIn, CompleteTo, J
    <3>3. Len(Upto(blocks, n)) \in 0..Len(Upto(blocks, n))
        BY <2>2
    <3> QED BY <3>1, <3>2, <3>3
  <2>4. Len(Upto(blocks, n)) = j
    <3>1. Len(Upto(blocks, n)) \in Nat \ {0} /\ j \in Nat /\ j <= Len(Upto(blocks, n))
        BY <1>5, <1>8, <1>9, <2>2
    <3>2. Len(Upto(blocks, n)) <= j
        BY <1>7, <2>3, <3>1
    <3> QED BY <3>1, <3>2
  <2>5. PathFor(c).root = Last(PoolAfter[LeavesAt(n)].roots)
      BY <1>1, <1>4, <1>6, <2>4, LastRootAt DEF h
  <2>6. n \in (IF v12 THEN n ELSE 1)..Len(blocks)
      BY <1>2, <2>1
  <2> QED BY <2>5, <2>6
<1> QED BY <1>11, <1>12

(* Without reorganisations the indexer's answer is current. Its leaves are *)
(* those of whole blocks; the root it found for them is one the pool       *)
(* announced, so by the injective hash they are all the leaves the pool    *)
(* had at the end of one of these blocks, and for v1.2 the checked ranges  *)
(* without a gap (markCheckedRange, findMissingRanges) put that block at   *)
(* the requested one or after it.                                          *)
THEOREM ServedRootsAreCurrent == ServiceSpec => []ServedRootIsCurrent
<1>1. ASSUME ExactInv, reorgs = 0, NEW c \in Commitments, NEW v12 \in BOOLEAN, NEW n \in 1..Latest,
             Served(c, v12, n)
      PROVE  \E block \in (IF v12 THEN n ELSE 1)..Latest :
                PathFor(c).root = Last(PoolAfter[LeavesAt(block)].roots)
  <2>1. c \in DOMAIN indexByCommitment /\ PathFor(c).root \in roots
      BY <1>1 DEF Served, Status, RootConfirmed
  <2>2. n \in 1..Len(blocks)
      BY DEF Latest
  <2>3. v12 => CompleteTo(n)
      BY <1>1, <2>2, CompleteIs DEF Served, Status
  <2> QED BY <1>1, <2>1, <2>2, <2>3, CurrentRoot DEF Latest
<1>2. ExactInv => ServedRootIsCurrent
    BY <1>1 DEF ServedRootIsCurrent
<1> QED BY <1>2, ExactInvHolds, PTL

-----------------------------------------------------------------------------
(* An index of everything up to a block.                                   *)
LEMMA WholeIndex ==
    ASSUME NEW h, NEW k \in 0..Len(h), IndexedFrom(h, 0..k)
    PROVE  /\ TreeRoot(leavesByIndex) = Root(h, k)
           /\ Root(h, k) \in roots
<1>1. h \in Histories /\ Len(h) \in Nat /\ k \in Nat
  <2>1. h \in Histories /\ Len(h) \in Nat
      BY HistoriesAre DEF IndexedFrom
  <2> QED BY <2>1
<1>2. IndexHolds(h, 0..k)
    BY IndexedLeaves
<1>3. \A i \in Nat : NodeAt(leavesByIndex, i, ZERO) = NodeAt(Cut(h, k), i, ZERO)
  <2> TAKE i \in Nat
  <2>1. CASE i < k
    <3>1. i + 1 \in 0..k /\ i + 1 > 0 /\ (i + 1) - 1 = i
        BY <1>1, <2>1
    <3>2. (i + 1) - 1 \in DOMAIN leavesByIndex /\ leavesByIndex[(i + 1) - 1] = h[i + 1]
        BY <1>2, <3>1 DEF IndexHolds
    <3>3. NodeAt(leavesByIndex, i, ZERO) = h[i + 1]
        BY <3>1, <3>2 DEF NodeAt
    <3> QED BY <1>1, <2>1, <3>3, CutLeaves
  <2>2. CASE i >= k
    <3>1. i \notin DOMAIN leavesByIndex
      <4> SUFFICES ASSUME i \in DOMAIN leavesByIndex PROVE FALSE
          OBVIOUS
      <4>1. PICK j \in 0..k : j > 0 /\ i = j - 1
          BY <1>2 DEF IndexHolds
      <4> QED BY <1>1, <2>2, <4>1
    <3>2. NodeAt(leavesByIndex, i, ZERO) = ZERO
        BY <3>1 DEF NodeAt
    <3> QED BY <1>1, <2>2, <3>2, CutLeaves
  <2> QED BY <1>1, <2>1, <2>2
<1>4. TreeRoot(leavesByIndex) = Root(h, k)
  <2>1. MERKLE_TREE_DEPTH \in 0..MERKLE_TREE_DEPTH /\ 0 \in Nat
      BY DepthAssumption
  <2>2. Node(leavesByIndex, MERKLE_TREE_DEPTH, 0) = Node(Cut(h, k), MERKLE_TREE_DEPTH, 0)
      BY <1>3, <2>1, NodeLocal
  <2> QED BY <2>2, NodeSteps DEF Root
<1>5. Root(h, k) \in roots
  <2> SUFFICES ASSUME Root(h, k) \notin roots PROVE FALSE
      OBVIOUS
  <2>1. k \in 0..k
      BY <1>1
  <2>2. PICK i \in 0..k : i >= ROOT_HISTORY_SIZE /\ Root(h, k) = Root(h, i - ROOT_HISTORY_SIZE)
      BY <1>2, <2>1 DEF IndexHolds
  <2>3. i - ROOT_HISTORY_SIZE \in 0..Len(h) /\ i - ROOT_HISTORY_SIZE < k
      BY <1>1, <2>2, ChainAssumption
  <2> QED BY <1>1, <2>2, <2>3, RootsDiffer
<1> QED BY <1>4, <1>5

LEMMA CompleteServes ==
    ASSUME ExactInv, reorgs = 0, NEW n \in ingested, ingested = 1..n
    PROVE  /\ \A c \in ToSet(LeavesAt(n)) : Served(c, TRUE, n)
           /\ nullifiers = ToSet(LeavesAt(n)) \cap Spends
<1> DEFINE h == All(blocks)
           k == Len(Upto(blocks, n))
           J == TxsIn(blocks, ingested)
<1>1. blocks \in Chains /\ n \in 1..Len(blocks) /\ Len(blocks) \in Nat
    BY DEF ExactInv, IndexInv, ChainInv, RangesInv, Chains
<1>2. J = 0..k
    BY <1>1, TxsUpto
<1>3. IndexedFrom(h, J) /\ IndexHolds(h, J)
    BY IndexSeen, IndexedLeaves
<1>4. k \in 0..Len(h) /\ PrefixOf(Upto(blocks, n), h) /\ Upto(blocks, n) \in Histories
  <2>1. n \in 0..Len(blocks)
      BY <1>1
  <2> QED BY <1>1, <2>1, ChainPrefix
<1>5. LeavesAt(n) = Upto(blocks, n)
    BY <1>1, LastRootAt
<1>6. ToSet(LeavesAt(n)) = {h[i] : i \in 1..k}
  <2>1. Upto(blocks, n) \in Seq(Commitments)
      BY <1>4, HistoriesAre
  <2> DEFINE u == Upto(blocks, n)
  <2>2. DOMAIN u = 1..k /\ \A i \in 1..k : u[i] = h[i]
      BY <1>4, <2>1 DEF PrefixOf
  <2> HIDE DEF u
  <2>3. ToSet(u) = {h[i] : i \in 1..k}
      BY <2>2 DEF ToSet
  <2> QED BY <1>5, <2>3 DEF u
<1> HIDE DEF h, k, J
<1>7. k \in Nat
    BY <1>4, HistoriesAre DEF k
<1>8. {i \in J : i > 0} = 1..k
    BY <1>2, <1>7
<1>9. /\ DOMAIN indexByCommitment = ToSet(LeavesAt(n))
      /\ nullifiers = ToSet(LeavesAt(n)) \cap Spends
  <2>1. /\ DOMAIN indexByCommitment = {h[j] : j \in {i \in J : i > 0}}
        /\ nullifiers = {h[j] : j \in {i \in J : i > 0}} \cap Spends
      BY <1>3 DEF IndexHolds
  <2> QED BY <1>6, <1>8, <2>1
<1>10. TreeRoot(leavesByIndex) = Root(h, k) /\ Root(h, k) \in roots
    BY <1>2, <1>3, <1>4, WholeIndex
<1>11. Complete(n)
    BY <1>1, CompleteIs DEF CompleteTo
<1>12. ASSUME NEW c \in ToSet(LeavesAt(n)) PROVE Served(c, TRUE, n)
  <2>1. c \in DOMAIN indexByCommitment
      BY <1>9
  <2>2. PathFor(c) = PathOf(leavesByIndex, indexByCommitment[c])
      BY <2>1, PathForIs DEF ExactInv, IndexInv
  <2>3. PathFor(c).root \in roots
      BY <1>10, <2>2 DEF PathOf
  <2>4. roots # {}
      BY <1>10
  <2> QED BY <1>11, <2>1, <2>3, <2>4 DEF Served, Status, RootConfirmed
<1> QED BY <1>9, <1>12

(* Without reorganisations an index that has ingested every block up to    *)
(* one, in any order and any number of times, serves each of its notes and *)
(* has exactly its nullifiers: nothing a batch brings back can take the    *)
(* newest root out of the accepted ones (ingestPoolLogs).                  *)
THEOREM CompleteIndexesServe == ServiceSpec => []CompleteIndexServes
<1>1. ExactInv => CompleteIndexServes
    BY CompleteServes DEF CompleteIndexServes
<1> QED BY <1>1, ExactInvHolds, PTL
=============================================================================
