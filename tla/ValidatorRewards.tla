-------------------------- MODULE ValidatorRewards --------------------------
(***************************************************************************)
(* Rewards and the choice of the proposer, src/consensus/mod.rs, as        *)
(* functions of the validator set and of a vote collector, in every state  *)
(* votes and slashing lead to: stakes change after the votes were counted. *)
(***************************************************************************)
EXTENDS VoteFinality, Sequences

CONSTANTS
    Order,          \* the validators, sorted by address
    Fees,           \* the sums of the transaction fees of a block
    Elapsed,        \* elapsed_secs arguments
    InflationBps,   \* ANNUAL_INFLATION_BPS
    SecondsPerYear  \* SECONDS_PER_YEAR

ASSUME RewardAssumption ==
    /\ Order \in Seq(Validators)
    /\ \A x \in Validators : \E i \in DOMAIN Order : Order[i] = x
    /\ \A i, j \in DOMAIN Order : Order[i] = Order[j] => i = j
    /\ Fees \subseteq Nat
    /\ Elapsed \subseteq Nat
    /\ InflationBps \in Nat
    /\ SecondsPerYear \in Nat \ {0}

Stake(x) == Cardinality(StakeOf(x))

\* The stake of the validators at positions S of Order: total_active_stake,
\* voting_stake and the cumulative stake of the draw.
StakeAt(S) == Cardinality({u \in staked : \E i \in S : Owner[u] = Order[i]})

\* annualized_inflation_reward
Inflation(total, secs) ==
    IF total = 0 \/ secs = 0 THEN 0
    ELSE ((total * InflationBps * secs) \div 10000) \div SecondsPerYear

Pools == {fees + Inflation(Cardinality(staked), secs) : fees \in Fees, secs \in Elapsed}

\* participants: those who voted and still have stake, by their place in Order
Participants(k) ==
    {i \in DOMAIN Order : Active(Order[i]) /\ \E v \in votes[k] : v.voter = Order[i]}

\* The loop over the participants: every share is rounded down.
Shares(k, pool) ==
    LET ps == Participants(k)
    IN  [i \in ps |-> (pool * Stake(Order[i])) \div StakeAt(ps)]

\* distributed: the sum of the amounts, counted unit by unit
Total(amounts) == Cardinality(UNION {{i} \X (1 .. amounts[i]) : i \in DOMAIN amounts})

\* Mutant: the first participant gets the whole remainder.
DistributeVotingRewardsToFirst(k, pool) ==
    LET shares == Shares(k, pool)
    IN  [i \in DOMAIN shares |->
            shares[i] + (IF \A j \in DOMAIN shares : i <= j
                         THEN pool - Total(shares) ELSE 0)]

\* distribute_voting_rewards: rewards.iter_mut().take(remainder)
DistributeVotingRewards(k, pool) ==
    LET shares == Shares(k, pool)
        remainder == pool - Total(shares)
    IN  [i \in DOMAIN shares |->
            shares[i] + (IF Cardinality({j \in DOMAIN shares : j <= i}) <= remainder
                         THEN 1 ELSE 0)]

\* The cumulative stake after the validator at position i; those without stake,
\* which the code filters out, add nothing.
Cumulative(i) == StakeAt(1 .. i)

\* Mutant: the draw may equal the cumulative stake.
SelectProposerAtMost(draw) ==
    LET above == {i \in DOMAIN Order : Active(Order[i]) /\ draw <= Cumulative(i)}
    IN  Order[CHOOSE i \in above : \A j \in above : i <= j]

\* select_proposer_by_seed: the first validator in address order whose
\* cumulative stake exceeds the draw.
SelectProposer(draw) ==
    LET above == {i \in DOMAIN Order : Active(Order[i]) /\ draw < Cumulative(i)}
    IN  Order[CHOOSE i \in above : \A j \in above : i <= j]

-----------------------------------------------------------------------------
\* The whole pool is paid out, and fairly: neither a unit of fees or inflation is
\* lost in the rounding nor is one created, whatever stake the voters of the final
\* block have lost since, and a voter gets less than one unit below its exact
\* share of the pool and at most one unit above it.
PoolFairlyPaid ==
    \A k \in Collectors : IsBlockFinalized(k) =>
        LET ps == Participants(k)
            voting == StakeAt(ps)
        IN  \A pool \in Pools :
                LET rewards == DistributeVotingRewards(k, pool)
                IN  /\ Total(rewards) = pool
                    /\ \A i \in ps :
                           LET exact == pool * Stake(Order[i])
                               paid == rewards[i] * voting
                           IN  paid <= exact + voting /\ exact < paid + voting

\* A validator is drawn as proposer in proportion to its stake of the moment:
\* by exactly as many of the possible draws as it has stake.
ProposerProportional ==
    LET draws == 0 .. (Cardinality(staked) - 1)
        chosen == {<<draw, SelectProposer(draw)>> : draw \in draws}
    IN  \A x \in Validators :
            Cardinality({pair \in chosen : pair[2] = x}) = Stake(x)

=============================================================================
