-------------------------- MODULE MCShardConsensus --------------------------
(* Model-checking instance of ShardConsensus: two instances, two blocks. *)
EXTENDS ShardConsensus, TLC

CONSTANTS k1, k2, r1, empty, short

V(a, n) == [address |-> a, stake |-> n]

\* The order of the addresses changes from epoch to epoch, and the scores of
\* addresses 2 and 3 collide in epoch 1.
MCScore ==
    [epoch \in 0 .. MaxEpoch |->
        [a \in Addresses |-> IF epoch = 0 THEN 11 - 2 * a ELSE IF a = 1 THEN 5 ELSE 4]]

\* Every instance decides on a block of its own, named after it.
MCInstances == {k1, k2}
MCBlockOf == [k \in MCInstances |-> k]
Symmetry == Permutations(MCInstances)

\* Address 3, without stake at first, registers with some; address 1 registers
\* a second time.
MCRegistrations == {V(3, 1), V(1, 2)}
MCReplacements == {<<V(3, 0), V(2, 1), V(1, 2)>>}

\* Consensus instances neither read nor write state roots, and instances of
\* different shards or epochs share nothing: states that combine an open instance
\* with a root stored by hand, or two unrelated instances, are not explored
\* further.
Related ==
    /\ \A k, m \in Instances : \A c \in opened[k], d \in opened[m] : SameShard(c, d)
    /\ \/ \A k \in Instances : opened[k] = {}
       \/ \A key \in DOMAIN shard_state_roots :
              key[1] <= current_epoch /\ shard_state_roots[key] = EmptyRoot
=============================================================================
