----------------------------- MODULE MerkleTree -----------------------------
(***************************************************************************)
(* The Merkle tree of a batch (services/trust/src/merkle): root, proof of  *)
(* one leaf, verification.  SHA-256 is taken to be injective: the hash of  *)
(* two nodes is the pair of them, and a leaf hash is never a pair.  Hex    *)
(* letters are compared without regard to case, as the code does.          *)
(* Leaf indices count from 0, as in the rows; TLA+ sequences from 1.       *)
(***************************************************************************)
EXTENDS Naturals, Sequences

\* Wrong on purpose: the two children are hashed in no particular order.
HashUnordered(left, right) == {left, right}

hashPair(left, right) == <<left, right>>

\* Wrong on purpose: an odd node at the end goes up as it is.
PromoteOdd(level) ==
    [i \in 1 .. (Len(level) + 1) \div 2 |->
        IF 2 * i <= Len(level) THEN hashPair(level[2 * i - 1], level[2 * i])
                               ELSE level[2 * i - 1]]

\* The level above: nodes in pairs, an odd one at the end paired with itself.
NextLevel(level) ==
    [i \in 1 .. (Len(level) + 1) \div 2 |->
        hashPair(level[2 * i - 1],
                 IF 2 * i <= Len(level) THEN level[2 * i] ELSE level[2 * i - 1])]

\* The k-th level above the leaves.
Level(hashes, k) ==
    LET up[n \in Nat] == IF n = 0 THEN hashes ELSE NextLevel(up[n - 1])
    IN  up[k]

\* treeDepth: levels are built until one node is left.
Depth(hashes) ==
    CHOOSE k \in 0 .. Len(hashes) :
        /\ Len(Level(hashes, k)) = 1
        /\ \A j \in 0 .. k - 1 : Len(Level(hashes, j)) > 1

Root(hashes) == Level(hashes, Depth(hashes))[1]

\* The sibling of node i of a level: its neighbour, or itself if it has none.
Sibling(level, i) ==
    IF i % 2 = 1 THEN level[i]
    ELSE IF i + 1 < Len(level) THEN level[i + 2] ELSE level[i + 1]

\* currentIndex: the node above leaf index at level k, counted from 0.
Ancestor(index, k) ==
    LET up[n \in Nat] == IF n = 0 THEN index ELSE up[n - 1] \div 2
    IN  up[k]

\* generateMerkleProof: the siblings on the way from leaf to root.
Proof(hashes, index) ==
    [k \in 1 .. Depth(hashes) |->
        Sibling(Level(hashes, k - 1), Ancestor(index, k - 1))]

\* A node and its sibling hashed together, the index telling left from right.
Join(node, sibling, index) ==
    IF index % 2 = 0 THEN hashPair(node, sibling) ELSE hashPair(sibling, node)

\* verifyMerkleProof: currentHash after k siblings, compared with the root.
Climb(hash, index, path, k) ==
    LET up[n \in Nat] ==
          IF n = 0 THEN hash ELSE Join(up[n - 1], path[n], Ancestor(index, n - 1))
    IN  up[k]

Verify(hash, index, path, root) == Climb(hash, index, path, Len(path)) = root

=============================================================================
