--------------------------- MODULE ShardConsensus ---------------------------
(***************************************************************************)
(* The consensus of a shard, src/sharding/mod.rs, on top of the beacon     *)
(* chain: consensus_for_shard copies the shard's committee at that moment  *)
(* into a ShardConsensus, which then collects votes and reports finality   *)
(* on its own, while validators register, epochs advance and governance    *)
(* changes the number of shards.                                           *)
(***************************************************************************)
EXTENDS BeaconChain

CONSTANTS
    Instances, \* the ShardConsensus values in use
    BlockOf    \* the block each of them decides on

VARIABLES
    opened,    \* opened[k]: epoch, shard and committee of k once created
    collected, \* collected[k]: votes_by_voter of k's collector
    signed     \* history: which block each validator voted on

consensusVars == <<opened, collected, signed>>
allVars == <<vars, consensusVars>>

\* validators_for_shard: the seats of the epoch, the stakes of today; the vector of
\* those validators is sorted as it is built, and sorted again by ShardConsensus::new.
ValidatorsForShard(epoch, shard) ==
    LET seats == shard_committees[<<epoch, shard>>]
        seated == {i \in ActiveOf(validators) :
                      \E k \in DOMAIN seats : seats[k] = validators[i].address}
        order == InOrder(seated, {p \in seated \X seated : p[1] < p[2]})
    IN  SortValidators([n \in 1 .. Cardinality(seated) |-> validators[order[n]]])

\* consensus_for_shard and ShardConsensus::new
ConsensusForShard(k, epoch, shard) ==
    /\ opened[k] = {}
    /\ shard < shard_count
    /\ <<epoch, shard>> \in DOMAIN shard_committees
    /\ opened' = [opened EXCEPT ![k] =
           {[epoch |-> epoch, shard_id |-> shard,
             committee |-> ValidatorsForShard(epoch, shard)]}]
    /\ UNCHANGED <<vars, collected, signed>>

\* The stake of the entries S of a committee, as a set of units.
StakeAt(committee, S) == UNION {{i} \X (1 .. committee[i].stake) : i \in S}

\* total_active_stake: entries without stake add nothing
TotalStake(committee) == Cardinality(StakeAt(committee, DOMAIN committee))

ActiveEntries(committee, a) ==
    {i \in DOMAIN committee : committee[i].address = a /\ committee[i].stake > 0}

\* validator_stake: the first active entry with that address
StakeOf(committee, a) ==
    {i \in ActiveEntries(committee, a) : \A j \in ActiveEntries(committee, a) : i <= j}

\* A validator that votes on one block per epoch and shard signs a vote on k's
\* block and ShardConsensus::collect_vote accepts it.
CollectVote(k, c, a, approve) ==
    /\ \A v \in signed :
           v.voter = a /\ v.epoch = c.epoch /\ v.shard_id = c.shard_id
               => v.block = BlockOf[k]
    /\ StakeOf(c.committee, a) # {}
    /\ \A v \in collected[k] : v.voter # a
    /\ collected' = [collected EXCEPT ![k] =
           @ \cup {[voter |-> a, approve |-> approve]}]
    /\ signed' = signed \cup {[voter |-> a, epoch |-> c.epoch,
                               shard_id |-> c.shard_id, block |-> BlockOf[k]]}
    /\ UNCHANGED <<vars, opened>>

\* tally().approve_stake
Approving(k, c) ==
    StakeAt(c.committee,
        UNION {StakeOf(c.committee, v.voter) : v \in {w \in collected[k] : w.approve}})

\* Mutant: a third of the stake suffices.
IsFinalizedOneThird(k) ==
    \E c \in opened[k] :
        /\ TotalStake(c.committee) > 0
        /\ Cardinality(Approving(k, c)) * 3 > TotalStake(c.committee)

\* Mutant: the votes are measured against the beacon chain's stake of today.
IsFinalizedOfAll(k) ==
    \E c \in opened[k] :
        /\ TotalStake(c.committee) > 0
        /\ Cardinality(Approving(k, c)) * 3 > TotalStake(validators) * 2

\* ShardConsensus::is_finalized
IsFinalized(k) ==
    \E c \in opened[k] :
        /\ TotalStake(c.committee) > 0
        /\ Cardinality(Approving(k, c)) * 3 > TotalStake(c.committee) * 2

ConsensusInit ==
    /\ Init
    /\ opened = [k \in Instances |-> {}]
    /\ collected = [k \in Instances |-> {}]
    /\ signed = {}

ConsensusNext ==
    \/ Next /\ UNCHANGED consensusVars
    \/ \E k \in Instances, epoch \in Epochs, shard \in 0 .. MaxShard :
           ConsensusForShard(k, epoch, shard)
    \/ \E k \in Instances : \E c \in opened[k], a \in Addresses, approve \in BOOLEAN :
           CollectVote(k, c, a, approve)

ConsensusSpec == ConsensusInit /\ [][ConsensusNext]_allVars

-----------------------------------------------------------------------------
SameShard(c, d) == c.epoch = d.epoch /\ c.shard_id = d.shard_id

\* Two consensus instances of one shard and epoch that were given the same
\* committee never finalize different blocks, whatever happens to the beacon
\* chain between their creations and their votes.
SameCommitteeAgrees ==
    \A k, m \in Instances : \A c \in opened[k], d \in opened[m] :
        /\ SameShard(c, d) /\ c.committee = d.committee
        /\ IsFinalized(k) /\ IsFinalized(m)
        => BlockOf[k] = BlockOf[m]

\* Instances are isolated from the beacon chain and from other shards.  Opened for
\* the current epoch, an instance has members who sit on no other committee at that
\* moment; and what it finalized stays final, whatever votes, registrations and
\* epochs follow, for it has a copy of its committee.
InstancesAreIsolated ==
    [][\A k \in Instances :
        /\ IsFinalized(k) => IsFinalized(k)'
        /\ \A c \in opened'[k] :
               /\ opened[k] = {}
               /\ c.epoch = current_epoch
               /\ \A i, j \in DOMAIN validators :
                      validators[i].address = validators[j].address => i = j
               => \A shard \in ShardsOf(current_epoch) \ {c.shard_id} :
                      \A i \in DOMAIN c.committee :
                          c.committee[i].address
                              \notin Range(shard_committees[<<current_epoch, shard>>])]_allVars

=============================================================================
