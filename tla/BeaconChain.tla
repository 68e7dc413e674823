---------------------------- MODULE BeaconChain ----------------------------
(***************************************************************************)
(* The beacon chain of src/sharding/mod.rs: the validator set, the         *)
(* committees of every shard and epoch, and the state roots of the shards. *)
(* Registration and replacement of validators rebuild the committees of    *)
(* the current epoch at once; a governance update of the number of shards  *)
(* rebuilds nothing.                                                       *)
(*                                                                         *)
(* shard_committees and shard_state_roots, vectors that the code searches  *)
(* by epoch and shard, are functions of the pairs <<epoch, shard>> present.*)
(* Addresses are numbers, ordered as the byte strings they stand for.      *)
(***************************************************************************)
EXTENDS Naturals, Sequences, FiniteSets, Functions

CONSTANTS
    Addresses,     \* validator addresses, as numbers
    Stakes,        \* stakes validators register with
    Score,         \* Score[epoch][address]: assignment_score
    Roots,         \* 32-byte state roots
    EmptyRoot,     \* EMPTY_SHARD_STATE_ROOT
    BadRoots,      \* state roots of another length
    InitialCount,  \* shard_count at the start
    Proposals,     \* new_shard_count arguments of governance updates
    MaxShard,      \* bound on the shard ids callers ask for
    MaxEpoch,      \* bound on current_epoch
    MaxValidators, \* bound on the number of registered validators
    Registrations, \* the validators register_validator is called with
    Replacements   \* the vectors replace_validators is called with

Validators == [address : Addresses, stake : Stakes]

Epochs == 0 .. MaxEpoch

\* validate_shard_count: at least MIN_SHARD_COUNT and a power of two (u16).
ValidShardCount(n) == n \in 1 .. 65535 /\ \E k \in 0 .. 15 : n = 2 ^ k

ASSUME BeaconAssumption ==
    /\ Addresses \subseteq Nat
    /\ Stakes \subseteq Nat
    /\ Score \in [Epochs -> [Addresses -> Nat]]
    /\ EmptyRoot \in Roots
    /\ ValidShardCount(InitialCount)
    /\ MaxShard \in Nat /\ MaxEpoch \in Nat /\ MaxValidators \in Nat
    /\ Registrations \subseteq Validators
    /\ Replacements \subseteq Seq(Validators)

VARIABLES
    shard_count,       \* config.shard_count
    validators,        \* the sorted vector of validators
    current_epoch,
    shard_committees,  \* validator_addresses of each <<epoch, shard>>
    shard_state_roots  \* state root of each <<epoch, shard>>

vars == <<shard_count, validators, current_epoch, shard_committees,
          shard_state_roots>>

\* The elements of S sorted by the strict order R: an element is at the position
\* that the number of those before it gives.
InOrder(S, R) ==
    [n \in 1 .. Cardinality(S) |->
        CHOOSE i \in S : Cardinality({j \in S : <<j, i>> \in R}) = n - 1]

\* sort_validators compares addresses, then stakes; the sort is stable.
SortValidators(vs) ==
    LET Before(i, j) ==
            \/ vs[i].address < vs[j].address
            \/ /\ vs[i].address = vs[j].address
               /\ vs[i].stake < vs[j].stake \/ (vs[i].stake = vs[j].stake /\ i < j)
        order == InOrder(DOMAIN vs, {p \in (DOMAIN vs) \X (DOMAIN vs) : Before(p[1], p[2])})
    IN  [n \in 1 .. Len(vs) |-> vs[order[n]]]

\* active_validators, and the filter of build_committee_assignments: the positions
\* of the validators with stake
ActiveOf(vs) == {i \in DOMAIN vs : vs[i].stake > 0}

\* The order build_committee_assignments deals the validators out in, as positions
\* of vs: by score, then by address; the sort is stable.
Shuffled(epoch, vs) ==
    LET score(i) == Score[epoch][vs[i].address]
        Before(i, j) ==
            \/ score(i) < score(j)
            \/ /\ score(i) = score(j)
               /\ \/ vs[i].address < vs[j].address
                  \/ vs[i].address = vs[j].address /\ i < j
    IN  InOrder(ActiveOf(vs),
                {p \in ActiveOf(vs) \X ActiveOf(vs) : Before(p[1], p[2])})

\* Mutant: the score itself picks the shard.
CommitteeByScore(epoch, count, vs, shard) ==
    LET seated == SelectSeq(Shuffled(epoch, vs),
                      LAMBDA i : Score[epoch][vs[i].address] % count = shard)
    IN  [k \in DOMAIN seated |-> vs[seated[k]].address]

\* build_committee_assignments: the validator at index i goes to i % count.
Committee(epoch, count, vs, shard) ==
    LET order == Shuffled(epoch, vs)
        size == (Cardinality(ActiveOf(vs)) + count - 1 - shard) \div count
    IN  [k \in 1 .. size |-> vs[order[(k - 1) * count + shard + 1]].address]

\* The <<epoch, shard>> pairs of an epoch under the present configuration.
KeysOf(epoch) == {epoch} \X (0 .. (shard_count - 1))

\* Mutant: the committees of past epochs are rebuilt as well.
ReplaceCommitteesOfAll(epoch, vs) ==
    [key \in DOMAIN shard_committees \cup KeysOf(epoch) |->
        Committee(key[1], shard_count, vs, key[2])]

\* replace_committees_for_epoch
ReplaceCommittees(epoch, vs) ==
    LET kept == {key \in DOMAIN shard_committees : key[1] # epoch}
    IN  [key \in kept \cup KeysOf(epoch) |->
            IF key \in kept THEN shard_committees[key]
            ELSE Committee(epoch, shard_count, vs, key[2])]

\* initialize_state_roots_for_epoch
InitializeStateRoots(epoch) ==
    [key \in DOMAIN shard_state_roots \cup KeysOf(epoch) |->
        IF key \in DOMAIN shard_state_roots
        THEN shard_state_roots[key] ELSE EmptyRoot]

\* rebuild_epoch for the validators vs
RebuildEpoch(epoch, vs) ==
    /\ current_epoch' = epoch
    /\ validators' = vs
    /\ shard_committees' = ReplaceCommittees(epoch, vs)
    /\ shard_state_roots' = InitializeStateRoots(epoch)
    /\ UNCHANGED shard_count

RegisterValidator(v) ==
    /\ Len(validators) < MaxValidators
    /\ RebuildEpoch(current_epoch, SortValidators(Append(validators, v)))

ReplaceValidators(vs) == RebuildEpoch(current_epoch, SortValidators(vs))

AdvanceEpoch ==
    /\ current_epoch < MaxEpoch
    /\ RebuildEpoch(current_epoch + 1, validators)

\* ShardingConfig::apply_governance_update on the chain's config
ApplyGovernanceUpdate(n) ==
    /\ ValidShardCount(n)
    /\ shard_count' = n
    /\ UNCHANGED <<validators, current_epoch, shard_committees,
                   shard_state_roots>>

\* store_shard_state_root, and update_shard_state_root_from_block with the
\* merkle root of a block: any epoch, past and future ones included.
StoreShardStateRoot(epoch, shard, root) ==
    /\ shard < shard_count
    /\ root \in Roots
    /\ shard_state_roots' =
           [key \in DOMAIN shard_state_roots \cup {<<epoch, shard>>} |->
               IF key = <<epoch, shard>> THEN root ELSE shard_state_roots[key]]
    /\ UNCHANGED <<shard_count, validators, current_epoch, shard_committees>>

\* BeaconChain::new with the first of the vectors
Init ==
    /\ shard_count = InitialCount
    /\ current_epoch = 0
    /\ \E vs \in Replacements :
           /\ validators = SortValidators(vs)
           /\ shard_committees =
                  [key \in {0} \X (0 .. (InitialCount - 1)) |->
                      Committee(0, InitialCount, SortValidators(vs), key[2])]
    /\ shard_state_roots =
           [key \in {0} \X (0 .. (InitialCount - 1)) |-> EmptyRoot]

Next ==
    \/ \E v \in Registrations : RegisterValidator(v)
    \/ \E vs \in Replacements : ReplaceValidators(vs)
    \/ AdvanceEpoch
    \/ \E n \in Proposals : ApplyGovernanceUpdate(n)
    \/ \E epoch \in Epochs, shard \in 0 .. MaxShard, root \in Roots \cup BadRoots :
           StoreShardStateRoot(epoch, shard, root)

Spec == Init /\ [][Next]_vars

-----------------------------------------------------------------------------
Keys == Epochs \X Nat

\* The shards that have a committee in an epoch.
ShardsOf(epoch) == {key[2] : key \in {k \in DOMAIN shard_committees : k[1] = epoch}}

Seats(epoch, a) ==
    {seat \in ShardsOf(epoch) \X (1 .. Len(validators)) :
        LET committee == shard_committees[<<epoch, seat[1]>>]
        IN  seat[2] \in DOMAIN committee /\ committee[seat[2]] = a}

\* Every active validator has as many seats in the committees of the current
\* epoch as it has entries in the validator set, and nobody else has one; and the
\* committees of an epoch, past ones included, differ by at most one member and
\* are those of shards 0 to a number of shards that was in force: whatever
\* registrations, epochs and governance updates came before.
SeatsAreDealt ==
    /\ \A a \in Addresses :
           Cardinality(Seats(current_epoch, a)) =
               Cardinality({i \in ActiveOf(validators) : validators[i].address = a})
    /\ \A epoch \in 0 .. current_epoch :
           /\ \E n \in Proposals \cup {InitialCount} :
                  ValidShardCount(n) /\ ShardsOf(epoch) = 0 .. (n - 1)
           /\ \A s, r \in ShardsOf(epoch) :
                  Len(shard_committees[<<epoch, s>>])
                      <= Len(shard_committees[<<epoch, r>>]) + 1

\* The pairs a step takes away from shard_state_roots or stores another root for.
ChangedRoots ==
    {key \in DOMAIN shard_state_roots :
        \/ key \notin DOMAIN shard_state_roots'
        \/ shard_state_roots'[key] # shard_state_roots[key]}

PastCommitteesKept ==
    shard_committees' # shard_committees =>
        \A key \in DOMAIN shard_committees : key[1] < current_epoch =>
            /\ key \in DOMAIN shard_committees'
            /\ shard_committees'[key] = shard_committees[key]

RootsChangeAlone ==
    shard_state_roots' # shard_state_roots =>
        /\ Cardinality(ChangedRoots) <= 1
        /\ ChangedRoots # {} => UNCHANGED <<validators, current_epoch, shard_count>>
        /\ ChangedRoots \subseteq DOMAIN shard_state_roots'

PresentIsWhole ==
    <<current_epoch, validators>>' # <<current_epoch, validators>> =>
        \A s \in 0 .. (shard_count' - 1) :
            /\ <<current_epoch', s>> \in DOMAIN shard_committees'
            /\ <<current_epoch', s>> \in DOMAIN shard_state_roots'

\* The past is never rewritten and the present is whole, through registrations,
\* epochs and governance updates in any order.  The committees of an epoch that is
\* over never change; no state root is lost, and a step changes the root of one
\* shard and epoch at most (test compromised_shard_state_root_does_not_affect_
\* other_shards), and none if it changes the validators, the epoch or the number of
\* shards; a new epoch, or a change of the validators, leaves the current epoch with
\* a committee and a state root for every shard that the configuration names.
RebuildIsExact == [][PastCommitteesKept /\ RootsChangeAlone /\ PresentIsWhole]_vars

=============================================================================
