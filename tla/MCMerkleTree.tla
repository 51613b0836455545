---------------------------- MODULE MCMerkleTree ----------------------------
(***************************************************************************)
(* BatchTrees for TLC: batches of up to five leaves.                       *)
(***************************************************************************)
EXTENDS BatchTrees, TLC

CONSTANTS h1, h2, h3, h4, h5

Leaf == <<h1, h2, h3, h4, h5>>

MCTreeInit == TreeInit /\ hashes = <<h1>>

\* Hashes come into use in the order of Leaf: another order is another name.
InOrder(i) == \A j \in 1 .. i - 1 : Leaf[j] \in Leaves(hashes)

MCTreeNext ==
    \E i \in DOMAIN Leaf :
        \/ Len(hashes) < Len(Leaf) /\ InOrder(i) /\ Queue(Leaf[i])
        \/ QueueOther(Leaf[i])

=============================================================================
