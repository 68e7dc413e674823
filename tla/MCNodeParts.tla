----------------------------- MODULE MCNodeParts -----------------------------
(* Model-checking instance of six parts that share no state: the storage of   *)
(* a node, its blocks and fork choice, its penalties for peers, key files,    *)
(* the set-up ceremony and cross-shard executions.                            *)
(* `part' is the one that moves; the others stay where they start.            *)
EXTENDS NodeStorage, Blocks, PeerPenalty, KeyFiles, SetupCeremony,
        CrossShard, TLC

CONSTANTS w1, w2, a1, b1, c2, n1, n2, n3, alice, bob, \* storage
          peer1, peer2, v1, ta, tb,                   \* blocks
          p1, p2,                                     \* penalties
          op1, op2,                                   \* ceremony
          s1, near, far, stuck                        \* cross-shard executions

VARIABLE part

\* Two blocks compete for a height; two notes are for alice.
MCHeightOf == [b \in Blocks |-> IF b = c2 THEN 2 ELSE 1]
MCHintOf == [n \in Notes |-> IF n = n3 THEN bob ELSE alice]

\* The transaction tb was added three times, the larger ta once; all four together
\* are too large for a block.  The hashes of the headers are not in the
\* order of the proposals.
MCPool == <<tb, tb, tb, ta>>
MCTxSize == [t \in Txs |-> IF t = ta THEN 2 ELSE 1]
MCHashRank == <<2, 3, 1>>

\* `near' needs two shards, `far' four, `stuck' does not leave its shard.
MCSource == [t \in CrossTxs |-> IF t = near THEN 0 ELSE IF t = far THEN 3 ELSE 1]
MCDestination == [t \in CrossTxs |-> IF t = far THEN 0 ELSE 1]

\* Receipts of the transaction `near' as another node may send them: genuine
\* ones, one of another transaction and one whose proof is of another phase.
SomeReceipts ==
    LET r(phase) == Receipt(near, TxHash(near), phase)
    IN  {r("Prepare"), r("Validate"), r("Commit"),
         Receipt(far, TxHash(near), "Prepare"),
         [r("Validate") EXCEPT !.proof = r("Prepare").proof]}

MCForeign ==
    [transaction : {near}, tx_hash : {TxHash(near), TxHash(far)},
     source_prepared : BOOLEAN, destination_validated : BOOLEAN,
     committed : BOOLEAN,
     receipts : UNION {[1 .. n -> SomeReceipts] : n \in 0 .. 3}]

Symmetry == Permutations({w1, w2}) \cup Permutations({peer1, peer2})
                \cup Permutations({op1, op2}) \cup Permutations({p1, p2})

MCInit ==
    /\ part \in {"storage", "blocks", "penalties", "keys", "ceremony",
                "executions"}
    /\ StorageInit /\ BlocksInit /\ Init /\ KeysInit /\ CeremonyInit /\ CrossInit
    /\ part # "keys" => keyfile = Absent

MCNext ==
    /\ \/ /\ part = "storage" /\ StorageNext
          /\ UNCHANGED <<blockVars, vars, keyVars, ceremonyVars, crossVars>>
       \/ /\ part = "blocks" /\ BlocksNext
          /\ UNCHANGED <<storageVars, vars, keyVars, ceremonyVars, crossVars>>
       \/ /\ part = "penalties" /\ Next
          /\ UNCHANGED <<storageVars, blockVars, keyVars, ceremonyVars, crossVars>>
       \/ /\ part = "keys" /\ KeysNext
          /\ UNCHANGED <<storageVars, blockVars, vars, ceremonyVars, crossVars>>
       \/ /\ part = "ceremony" /\ CeremonyNext
          /\ UNCHANGED <<storageVars, blockVars, vars, keyVars, crossVars>>
       \/ /\ part = "executions" /\ CrossNext
          /\ UNCHANGED <<storageVars, blockVars, vars, keyVars, ceremonyVars>>
    /\ UNCHANGED part

MCSpec ==
    MCInit /\ [][MCNext]_<<storageVars, blockVars, vars, keyVars, ceremonyVars,
                          crossVars, part>>
=============================================================================
