---------------------------- MODULE VoteFinality ----------------------------
(***************************************************************************)
(* Weighted votes, finality and slashing, src/consensus/mod.rs.            *)
(*                                                                         *)
(* Validators sign votes, the network delivers them to collectors late,    *)
(* several times, in any order or never; a collector keeps the first vote  *)
(* of each voter and reports finality when the approving stake exceeds two *)
(* thirds of the stake.  Two votes of one voter for different blocks of    *)
(* one height prove a double vote and cost the voter stake, at any moment  *)
(* between the deliveries.                                                 *)
(*                                                                         *)
(* A stake is a set of units: validator x holds the units it owns in       *)
(* `staked', and its u64 stake is their number.  Addresses are distinct.   *)
(***************************************************************************)
EXTENDS Naturals, FiniteSets

CONSTANTS
    Validators,   \* addresses of the validator set
    Honest,       \* those that sign at most one vote per height
    Units,        \* the units of stake at the start, as numbers
    Owner,        \* the validator that owns each unit
    Blocks,       \* block hashes
    HeightOf,     \* the height a block is proposed at
    Ballots,      \* pairs <<block, approve>> validators may be asked to sign
    Collectors,   \* the VoteCollectors in use, one per node and block
    BlockOf,      \* the block each collector is meant for
    CallerRoutes, \* callers give a collector the votes of its block only
    Penalties     \* the penalty_bps arguments of slash_validator_for_double_vote

ASSUME VoteAssumption ==
    /\ Honest \subseteq Validators
    /\ Units \subseteq Nat
    /\ IsFiniteSet(Units)
    /\ Owner \in [Units -> Validators]
    /\ HeightOf \in [Blocks -> Nat]
    /\ Ballots \subseteq Blocks \X BOOLEAN
    /\ BlockOf \in [Collectors -> Blocks]
    /\ CallerRoutes \in BOOLEAN
    /\ Penalties \subseteq Nat

VARIABLES
    staked,   \* units still at stake; the others were slashed
    signed,   \* every vote signed so far
    votes,    \* votes[k]: votes_by_voter of collector k
    decided   \* history: blocks whose collector reported finality

vars == <<staked, signed, votes, decided>>

Votes ==
    [voter : Validators, height : Nat, block_hash : Blocks, approve : BOOLEAN]

StakeOf(x) == {u \in staked : Owner[u] = x}

\* validator_stake is Some: the validator set has x with a positive stake.
Active(x) == StakeOf(x) # {}

\* verify_vote: the signature is the voter's.
VerifyVote(v) == v \in signed

(***************************************************************************)
(* Voting.                                                                 *)
(***************************************************************************)

\* create_signed_vote.  An honest validator signs one vote per height.
CreateSignedVote(x, ballot) ==
    LET b == ballot[1]
    IN  /\ x \in Honest =>
               \A v \in signed : v.voter = x => v.height # HeightOf[b]
        /\ signed' = signed \cup {[voter |-> x, height |-> HeightOf[b],
                                   block_hash |-> b, approve |-> ballot[2]]}
        /\ UNCHANGED <<staked, votes, decided>>

\* VoteCollector::collect_vote accepts a vote: known validator, valid
\* signature, first vote of that voter.  Height and block are not looked at.
Accepts(k, v) ==
    /\ Active(v.voter)
    /\ VerifyVote(v)
    /\ \A w \in votes[k] : w.voter # v.voter

\* Mutant: a later vote of a voter replaces the earlier one.
CollectVoteReplaces(k, v) ==
    /\ CallerRoutes => v.block_hash = BlockOf[k]
    /\ Active(v.voter) /\ VerifyVote(v)
    /\ votes' = [votes EXCEPT ![k] = {w \in @ : w.voter # v.voter} \cup {v}]
    /\ UNCHANGED <<staked, signed, decided>>

CollectVote(k, v) ==
    /\ CallerRoutes => v.block_hash = BlockOf[k]
    /\ Accepts(k, v)
    /\ votes' = [votes EXCEPT ![k] = @ \cup {v}]
    /\ UNCHANGED <<staked, signed, decided>>

\* VoteCollector::tally is Ok: every collected voter still has a stake.
TallyOk(k) == \A v \in votes[k] : Active(v.voter)

\* tally().approve_stake
Approving(k) ==
    {u \in staked : \E v \in votes[k] : v.voter = Owner[u] /\ v.approve}

\* Mutant: two thirds suffice.
IsBlockFinalizedAtTwoThirds(k) ==
    /\ TallyOk(k)
    /\ staked # {}
    /\ Cardinality(Approving(k)) * 3 >= Cardinality(staked) * 2

\* is_block_finalized(&collector.tally(validators)?, validators)
IsBlockFinalized(k) ==
    /\ TallyOk(k)
    /\ staked # {}
    /\ Cardinality(Approving(k)) * 3 > Cardinality(staked) * 2

\* The caller asks a collector for finality and adopts the block.
Decide(k) ==
    /\ IsBlockFinalized(k)
    /\ decided' = decided \cup {BlockOf[k]}
    /\ UNCHANGED <<staked, signed, votes>>

(***************************************************************************)
(* Slashing.                                                               *)
(***************************************************************************)

\* Mutant: the heights are not compared.
DoubleVoteAnyHeight(v, w) ==
    /\ v.voter = w.voter
    /\ v.block_hash # w.block_hash
    /\ VerifyVote(v)
    /\ VerifyVote(w)

\* detect_double_vote(v, w) is Ok.
DoubleVote(v, w) ==
    /\ v.voter = w.voter
    /\ v.height = w.height
    /\ v.block_hash # w.block_hash
    /\ VerifyVote(v)
    /\ VerifyVote(w)

\* The n highest units of S (all of S when it has no more): which units are
\* lost is immaterial, only their number counts.
Highest(S, n) == {u \in S : Cardinality({w \in S : w >= u}) <= n}

AtLeastOne(n) == IF n = 0 THEN 1 ELSE n

\* slash_validator_for_double_vote and the update of the validator set.  The
\* proof is not consumed: the same two votes slash again.
SlashValidatorForDoubleVote(v, w, bps) ==
    LET stake == StakeOf(v.voter)
        penalty == AtLeastOne((Cardinality(stake) * bps) \div 10000)
    IN  /\ DoubleVote(v, w)
        /\ bps \in 1 .. 10000
        /\ stake # {}
        /\ staked' = staked \ Highest(stake, penalty)
        /\ UNCHANGED <<signed, votes, decided>>

-----------------------------------------------------------------------------
Init ==
    /\ staked = Units
    /\ signed = {}
    /\ votes = [k \in Collectors |-> {}]
    /\ decided = {}

Next ==
    \/ \E x \in Validators, ballot \in Ballots : CreateSignedVote(x, ballot)
    \/ \E k \in Collectors, v \in signed : CollectVote(k, v)
    \/ \E k \in Collectors : Decide(k)
    \/ \E v, w \in signed, bps \in Penalties :
           SlashValidatorForDoubleVote(v, w, bps)

Spec == Init /\ [][Next]_vars

-----------------------------------------------------------------------------
TypeOK ==
    /\ staked \subseteq Units
    /\ signed \subseteq Votes
    /\ votes \in [Collectors -> SUBSET Votes]
    /\ decided \subseteq Blocks

HonestUnits == {u \in Units : Owner[u] \in Honest}

\* At most a third of the initial stake is owned by validators that may sign
\* conflicting votes (byzantine_thirty_three_percent_attack of the tests).
ByzantineMinority ==
    3 * Cardinality(Units \ HonestUnits) <= Cardinality(Units)

\* No two blocks of one height are ever finalized when each collector is given
\* the votes of its block, although votes reach the collectors in any order,
\* double votes reach both, and slashing shrinks the stake that the second
\* block has to exceed two thirds of.
Agreement ==
    CallerRoutes /\ ByzantineMinority =>
        \A b, d \in decided : HeightOf[b] = HeightOf[d] => b = d

\* detect_double_vote never proves anything against an honest validator: its
\* stake is never touched.
HonestNeverSlashed == HonestUnits \subseteq staked

\* A collector counts every voter once, and only votes that were signed.
CollectedOnce ==
    \A k \in Collectors :
        /\ votes[k] \subseteq signed
        /\ \A v, w \in votes[k] : v.voter = w.voter => v = w

\* Finality is only ever withdrawn by slashing a validator of whom the collector holds
\* a vote, approving or not: votes that arrive later never take it back.
FinalityOnlyLostBySlashing ==
    [][\A k \in Collectors :
           IsBlockFinalized(k) /\ ~IsBlockFinalized(k)' =>
               \E v \in votes[k] : /\ v.voter \notin Honest
                                   /\ StakeOf(v.voter)' # StakeOf(v.voter)]_vars

\* A collector that reports finality holds votes of more than two thirds of
\* the stake for one and the same block.
FinalityIsForOneBlock ==
    \A k \in Collectors : IsBlockFinalized(k) =>
        \E b \in Blocks :
            Cardinality({u \in staked :
                \E v \in votes[k] : /\ v.voter = Owner[u] /\ v.approve
                                    /\ v.block_hash = b}) * 3
                > Cardinality(staked) * 2

=============================================================================
