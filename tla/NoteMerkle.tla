----------------------------- MODULE NoteMerkle -----------------------------
(***************************************************************************)
(* NoteMerkleTree of src/privacy/mod.rs: the root of a list of note        *)
(* commitments and proofs of membership.  SHA-256 with its domain tags is  *)
(* collision-free: a hash is the tagged tuple of what it digests.  Leaf    *)
(* indices count from 0 as in the code, sequences from 1.                  *)
(***************************************************************************)
EXTENDS Naturals, FiniteSets, Sequences

HashLeaf(commitment) == <<"leaf", commitment>>

HashInternal(left, right) == <<"node", left, right>>

EmptyTree == <<"empty">>

\* The partner of the node at index i: the last node of an odd level is its own.
SiblingOf(level, i) ==
    LET s == IF i % 2 = 0 THEN i + 1 ELSE i - 1
    IN  IF s < Len(level) THEN level[s + 1] ELSE level[i + 1]

BuildNextLevel(level) ==
    [j \in 1 .. ((Len(level) + 1) \div 2) |->
        HashInternal(level[2 * j - 1], SiblingOf(level, 2 * j - 2))]

\* The levels of the tree, from the leaves (1) to the root, which then repeats.
Levels(leaves) ==
    LET level[k \in 1 .. Len(leaves)] ==
            IF k = 1 THEN [i \in DOMAIN leaves |-> HashLeaf(leaves[i])]
            ELSE IF Len(level[k - 1]) > 1 THEN BuildNextLevel(level[k - 1])
            ELSE level[k - 1]
    IN  level

\* compute_root_from_leaves
Root(leaves) ==
    IF leaves = <<>> THEN EmptyTree ELSE Levels(leaves)[Len(leaves)][1]

\* The index of a leaf and of the nodes above it at the first n levels: index /= 2
\* at the end of every turn.
IndexAt(leaf_index, n) ==
    LET index[k \in 1 .. n] == IF k = 1 THEN leaf_index ELSE index[k - 1] \div 2
    IN  index

\* Mutant: the index is not halved from level to level.
GenerateProofSameIndex(leaves, index) ==
    LET levels == Levels(leaves)
        depth == Cardinality({k \in DOMAIN levels : Len(levels[k]) > 1})
    IN  [leaf_index |-> index, leaf |-> leaves[index + 1],
         siblings |-> [k \in 1 .. depth |->
             SiblingOf(levels[k], index % Len(levels[k]))]]

\* generate_proof of the leaf at an index within bounds
GenerateProof(leaves, index) ==
    LET levels == Levels(leaves)
        depth == Cardinality({k \in DOMAIN levels : Len(levels[k]) > 1})
        at == IndexAt(index, depth)
    IN  [leaf_index |-> index, leaf |-> leaves[index + 1],
         siblings |-> [k \in 1 .. depth |-> SiblingOf(levels[k], at[k])]]

\* compute_note_merkle_root_from_proof
RootFromProof(proof) ==
    LET at == IndexAt(proof.leaf_index, Len(proof.siblings))
        hash[k \in 0 .. Len(proof.siblings)] ==
            IF k = 0 THEN HashLeaf(proof.leaf)
            ELSE IF at[k] % 2 = 0
            THEN HashInternal(hash[k - 1], proof.siblings[k])
            ELSE HashInternal(proof.siblings[k], hash[k - 1])
    IN  hash[Len(proof.siblings)]

VerifyProof(root, proof) == RootFromProof(proof) = root

=============================================================================
