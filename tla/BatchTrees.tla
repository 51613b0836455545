----------------------------- MODULE BatchTrees -----------------------------
(***************************************************************************)
(* Batches of leaf hashes and their trees: "hashes" is the batch that was  *)
(* anchored, "other" a batch of distinct hashes whose root is compared     *)
(* with it and whose proofs are tried on it.  Both grow as the queue does. *)
(***************************************************************************)
EXTENDS MerkleTree

CONSTANT Hashes   \* leaf hashes

VARIABLES hashes, other

treeVars == <<hashes, other>>

Leaves(s) == {s[i] : i \in DOMAIN s}

Distinct(s) == \A i, j \in DOMAIN s : s[i] = s[j] => i = j

TreeInit == \E h, g \in Hashes : hashes = <<h>> /\ other = <<g>>

Queue(h) ==
    /\ hashes' = Append(hashes, h)
    /\ UNCHANGED other

QueueOther(h) ==
    /\ h \notin Leaves(other)
    /\ other' = Append(other, h)
    /\ UNCHANGED hashes

TreeNext == \E h \in Hashes : Queue(h) \/ QueueOther(h)

TreeSpec == TreeInit /\ [][TreeNext]_treeVars

-----------------------------------------------------------------------------
(* Properties. *)

\* verifyCapsule answers yes for a hash and a leaf index exactly if the batch
\* has that hash there: the stored proof of every leaf, also of a repeated
\* one, leads to the root, and no proof from any batch shows otherwise.
ProofShowsMembership ==
    LET root == Root(hashes)
        Leads(leaf, i, path) == Verify(leaf, i, path, root)
    IN  /\ \A i \in 0 .. Len(hashes) - 1 : Leads(hashes[i + 1], i, Proof(hashes, i))
        /\ \A j \in 0 .. Len(other) - 1 :
             LET path == Proof(other, j)
             IN  \A leaf \in Hashes, i \in 0 .. Len(hashes) - 1 :
                     Leads(leaf, i, path) => leaf = hashes[i + 1]

\* What Hedera and the TSA attest is the batch: the root fixes its leaves and
\* their order, as long as no hash repeats.
RootFixesBatch ==
    Distinct(hashes) /\ hashes # other => Root(hashes) # Root(other)

=============================================================================
