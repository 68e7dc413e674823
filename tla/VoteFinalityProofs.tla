------------------------- MODULE VoteFinalityProofs -------------------------
(***************************************************************************)
(* Finality is safe: no two blocks of one height are finalized while at    *)
(* most a third of the initial stake is Byzantine, whatever is slashed     *)
(* between two decisions.  Voting rewards add up to their pool and are     *)
(* fair, and a proposer is drawn in proportion to its stake, with the      *)
(* stakes that votes and slashing have left.                               *)
(***************************************************************************)
EXTENDS ValidatorRewards, FiniteSetTheorems, SequenceTheorems, WellFoundedInduction, TLAPS

ByzantineUnits == Units \ HonestUnits

\* Honest stake that approved block b.
HonestFor(b) ==
    {u \in HonestUnits :
        \E v \in signed : v.voter = Owner[u] /\ v.approve /\ v.block_hash = b}

\* A signed vote carries its block's height, and an honest validator signs one
\* vote per height.
SignedOk ==
    /\ \A v \in signed : v.height = HeightOf[v.block_hash]
    /\ \A v, w \in signed :
           v.voter = w.voter /\ v.voter \in Honest /\ v.height = w.height => v = w

RoutedVotes ==
    CallerRoutes =>
        \A k \in Collectors : \A v \in votes[k] : v.block_hash = BlockOf[k]

\* A decided block was approved by enough honest stake, counted against the
\* initial Byzantine stake: what is slashed later does not matter.
DecidedQuorum ==
    CallerRoutes =>
        \A b \in decided :
            3 * Cardinality(HonestFor(b)) + Cardinality(ByzantineUnits)
                > 2 * Cardinality(HonestUnits)

VoteInv ==
    /\ TypeOK
    /\ HonestNeverSlashed
    /\ CollectedOnce
    /\ SignedOk
    /\ RoutedVotes
    /\ DecidedQuorum

LEMMA UnitSets ==
    ASSUME TypeOK, NEW b
    PROVE  /\ IsFiniteSet(HonestUnits) /\ Cardinality(HonestUnits) \in Nat
           /\ IsFiniteSet(ByzantineUnits) /\ Cardinality(ByzantineUnits) \in Nat
           /\ IsFiniteSet(HonestFor(b)) /\ Cardinality(HonestFor(b)) \in Nat
           /\ IsFiniteSet(staked) /\ Cardinality(staked) \in Nat
           /\ Cardinality(Units) = Cardinality(HonestUnits) + Cardinality(ByzantineUnits)
<1>1. HonestUnits \in SUBSET Units /\ ByzantineUnits \in SUBSET Units /\ staked \in SUBSET Units
  BY DEF HonestUnits, ByzantineUnits, TypeOK
<1>2. IsFiniteSet(HonestUnits) /\ IsFiniteSet(ByzantineUnits) /\ IsFiniteSet(staked)
  BY <1>1, FS_Subset, VoteAssumption
<1>3. HonestFor(b) \in SUBSET HonestUnits
  BY DEF HonestFor
<1>4. IsFiniteSet(HonestFor(b))
  BY <1>2, <1>3, FS_Subset
<1>5. Units = HonestUnits \cup ByzantineUnits /\ HonestUnits \cap ByzantineUnits = {}
  BY <1>1 DEF ByzantineUnits
<1>6. Cardinality(Units) = Cardinality(HonestUnits) + Cardinality(ByzantineUnits) - Cardinality({})
  BY <1>2, <1>5, FS_Union
<1>. QED  BY <1>2, <1>4, <1>6, FS_CardinalityType, FS_EmptySet

LEMMA VoteInit == Init => VoteInv
<1>. SUFFICES ASSUME Init PROVE VoteInv
  OBVIOUS
<1>. USE VoteAssumption DEF Init
<1>1. TypeOK
  BY DEF TypeOK
<1>2. HonestNeverSlashed
  BY DEF HonestNeverSlashed, HonestUnits
<1>3. CollectedOnce /\ SignedOk /\ RoutedVotes /\ DecidedQuorum
  BY DEF CollectedOnce, SignedOk, RoutedVotes, DecidedQuorum
<1>. QED  BY <1>1, <1>2, <1>3 DEF VoteInv

\* Signing a vote.
LEMMA SignStep ==
    ASSUME VoteInv, NEW x \in Validators, NEW ballot \in Ballots, CreateSignedVote(x, ballot)
    PROVE  VoteInv'
<1>. USE VoteAssumption
<1>1. PICK v : v = [voter |-> x, height |-> HeightOf[ballot[1]],
                    block_hash |-> ballot[1], approve |-> ballot[2]]
  OBVIOUS
<1>2. /\ ballot[1] \in Blocks /\ ballot[2] \in BOOLEAN
      /\ signed' = signed \cup {v} /\ UNCHANGED <<staked, votes, decided>>
      /\ x \in Honest => \A w \in signed : w.voter = x => w.height # HeightOf[ballot[1]]
  BY <1>1 DEF CreateSignedVote
<1>3. v \in Votes /\ v.voter = x /\ v.height = HeightOf[ballot[1]] /\ v.block_hash = ballot[1]
  BY <1>1, <1>2 DEF Votes
<1>4. TypeOK'
  BY <1>2, <1>3 DEF VoteInv, TypeOK
<1>5. HonestNeverSlashed' /\ CollectedOnce' /\ RoutedVotes'
  BY <1>2 DEF VoteInv, HonestNeverSlashed, CollectedOnce, RoutedVotes
<1>6. SignedOk'
  BY <1>2, <1>3 DEF VoteInv, SignedOk
<1>7. DecidedQuorum'
  <2>. SUFFICES ASSUME CallerRoutes, NEW b \in decided
                PROVE  3 * Cardinality(HonestFor(b)') + Cardinality(ByzantineUnits)
                           > 2 * Cardinality(HonestUnits)
    BY <1>2 DEF DecidedQuorum, ByzantineUnits, HonestUnits
  <2>1. HonestFor(b) \in SUBSET HonestFor(b)' /\ HonestFor(b)' \in SUBSET HonestUnits
    BY <1>2 DEF HonestFor, HonestUnits
  <2>2. /\ Cardinality(HonestFor(b)) \in Nat /\ Cardinality(ByzantineUnits) \in Nat
        /\ IsFiniteSet(HonestUnits) /\ Cardinality(HonestUnits) \in Nat
    BY UnitSets DEF VoteInv
  <2>3. IsFiniteSet(HonestFor(b)')
    BY <2>1, <2>2, FS_Subset
  <2>4. Cardinality(HonestFor(b)) <= Cardinality(HonestFor(b)') /\ Cardinality(HonestFor(b)') \in Nat
    BY <2>1, <2>3, FS_Subset, FS_CardinalityType
  <2>5. 3 * Cardinality(HonestFor(b)) + Cardinality(ByzantineUnits) > 2 * Cardinality(HonestUnits)
    BY DEF VoteInv, DecidedQuorum
  <2>. QED  BY <2>2, <2>4, <2>5
<1>. QED  BY <1>4, <1>5, <1>6, <1>7 DEF VoteInv

\* Finality reported by a collector.
LEMMA DecideStep ==
    ASSUME VoteInv, NEW k \in Collectors, Decide(k)
    PROVE  VoteInv'
<1>. USE VoteAssumption
<1>1. /\ IsBlockFinalized(k) /\ decided' = decided \cup {BlockOf[k]}
      /\ UNCHANGED <<staked, signed, votes>>
  BY DEF Decide
<1>2. TypeOK' /\ HonestNeverSlashed' /\ CollectedOnce' /\ SignedOk' /\ RoutedVotes'
  BY <1>1 DEF VoteInv, TypeOK, HonestNeverSlashed, CollectedOnce, SignedOk, RoutedVotes
<1>3. ASSUME CallerRoutes
      PROVE  3 * Cardinality(HonestFor(BlockOf[k])) + Cardinality(ByzantineUnits)
                 > 2 * Cardinality(HonestUnits)
  <2> DEFINE b == BlockOf[k]
             Rest == staked \ HonestUnits
  <2>1. /\ IsFiniteSet(HonestUnits) /\ Cardinality(HonestUnits) \in Nat
        /\ IsFiniteSet(ByzantineUnits) /\ Cardinality(ByzantineUnits) \in Nat
        /\ IsFiniteSet(HonestFor(b)) /\ Cardinality(HonestFor(b)) \in Nat
        /\ IsFiniteSet(staked)
    BY UnitSets DEF VoteInv
  <2>2. Rest \in SUBSET ByzantineUnits
    BY DEF VoteInv, TypeOK, ByzantineUnits
  <2>3. IsFiniteSet(Rest) /\ Cardinality(Rest) <= Cardinality(ByzantineUnits) /\ Cardinality(Rest) \in Nat
    BY <2>1, <2>2, FS_Subset, FS_CardinalityType
  <2>4. staked = HonestUnits \cup Rest /\ HonestUnits \cap Rest = {}
    BY DEF VoteInv, HonestNeverSlashed
  <2>5. Approving(k) \in SUBSET (HonestFor(b) \cup Rest)
    <3>. SUFFICES ASSUME NEW u \in Approving(k), u \notin Rest  PROVE u \in HonestFor(b)
      OBVIOUS
    <3>1. u \in HonestUnits
      BY DEF Approving
    <3>2. PICK v \in votes[k] : v.voter = Owner[u] /\ v.approve
      BY DEF Approving
    <3>3. v \in signed /\ v.block_hash = b
      BY <1>3, <3>2 DEF VoteInv, CollectedOnce, RoutedVotes
    <3>. QED  BY <3>1, <3>2, <3>3 DEF HonestFor
  <2>. HIDE DEF Rest, b
  <2>6. Cardinality(staked) = Cardinality(HonestUnits) + Cardinality(Rest)
    <3>1. Cardinality(staked) = Cardinality(HonestUnits) + Cardinality(Rest) - Cardinality({})
      BY <2>1, <2>3, <2>4, FS_Union
    <3>. QED  BY <2>1, <2>3, <3>1, FS_EmptySet
  <2>7. IsFiniteSet(HonestFor(b) \cup Rest)
        /\ Cardinality(HonestFor(b) \cup Rest) <= Cardinality(HonestFor(b)) + Cardinality(Rest)
    <3>1. IsFiniteSet(HonestFor(b) \cap Rest)
      BY <2>1, FS_Intersection
    <3>2. Cardinality(HonestFor(b) \cap Rest) \in Nat
      BY <3>1, FS_CardinalityType
    <3>3. /\ IsFiniteSet(HonestFor(b) \cup Rest)
          /\ Cardinality(HonestFor(b) \cup Rest)
               = Cardinality(HonestFor(b)) + Cardinality(Rest) - Cardinality(HonestFor(b) \cap Rest)
      BY <2>1, <2>3, FS_Union
    <3>. QED  BY <2>1, <2>3, <3>2, <3>3
  <2>8. Cardinality(Approving(k)) <= Cardinality(HonestFor(b) \cup Rest)
        /\ Cardinality(Approving(k)) \in Nat /\ Cardinality(HonestFor(b) \cup Rest) \in Nat
    BY <2>5, <2>7, FS_Subset, FS_CardinalityType
  <2>9. Cardinality(Approving(k)) * 3 > Cardinality(staked) * 2
    BY <1>1 DEF IsBlockFinalized
  <2>10. 3 * Cardinality(HonestFor(b)) + Cardinality(ByzantineUnits) > 2 * Cardinality(HonestUnits)
    BY <2>1, <2>3, <2>6, <2>7, <2>8, <2>9
  <2>. QED  BY <2>10 DEF b
<1>4. DecidedQuorum'
  <2>1. \A b : HonestFor(b)' = HonestFor(b)
    BY <1>1 DEF HonestFor, HonestUnits
  <2>2. ByzantineUnits' = ByzantineUnits /\ HonestUnits' = HonestUnits
    BY DEF ByzantineUnits, HonestUnits
  <2>. QED  BY <1>1, <1>3, <2>1, <2>2 DEF VoteInv, DecidedQuorum
<1>. QED  BY <1>2, <1>4 DEF VoteInv

LEMMA VoteStep == VoteInv /\ [Next]_vars => VoteInv'
<1>. SUFFICES ASSUME VoteInv, [Next]_vars PROVE VoteInv'
  OBVIOUS
<1>. USE VoteAssumption
<1>0. ASSUME UNCHANGED <<signed, decided>>  PROVE DecidedQuorum' /\ SignedOk'
  <2>1. \A b : HonestFor(b)' = HonestFor(b)
    BY <1>0 DEF HonestFor, HonestUnits
  <2>2. ByzantineUnits' = ByzantineUnits /\ HonestUnits' = HonestUnits
    BY DEF ByzantineUnits, HonestUnits
  <2>. QED  BY <1>0, <2>1, <2>2 DEF VoteInv, DecidedQuorum, SignedOk
<1>1. ASSUME NEW k \in Collectors, NEW v \in signed, CollectVote(k, v)  PROVE VoteInv'
  <2>1. /\ CallerRoutes => v.block_hash = BlockOf[k]
        /\ \A w \in votes[k] : w.voter # v.voter
        /\ votes' = [votes EXCEPT ![k] = votes[k] \cup {v}]
        /\ UNCHANGED <<staked, signed, decided>>
    BY <1>1 DEF CollectVote, Accepts
  <2>2. \A j \in Collectors : votes'[j] = IF j = k THEN votes[k] \cup {v} ELSE votes[j]
    BY <2>1 DEF VoteInv, TypeOK
  <2>3. TypeOK'
    BY <2>1 DEF VoteInv, TypeOK
  <2>4. HonestNeverSlashed'
    BY <2>1 DEF VoteInv, HonestNeverSlashed
  <2>5. CollectedOnce'
    BY <2>1, <2>2 DEF VoteInv, CollectedOnce
  <2>6. RoutedVotes'
    BY <2>1, <2>2 DEF VoteInv, RoutedVotes
  <2>. QED  BY <1>0, <2>1, <2>3, <2>4, <2>5, <2>6 DEF VoteInv
<1>2. ASSUME NEW v \in signed, NEW w \in signed, NEW bps \in Penalties,
             SlashValidatorForDoubleVote(v, w, bps)
      PROVE  VoteInv'
  <2>1. DoubleVote(v, w) /\ UNCHANGED <<signed, votes, decided>>
    BY <1>2 DEF SlashValidatorForDoubleVote
  <2>2. v.voter \notin Honest
    BY <2>1 DEF VoteInv, SignedOk, DoubleVote
  <2>3. PICK lost \in SUBSET StakeOf(v.voter) : staked' = staked \ lost
    <3>1. \A S, n : Highest(S, n) \in SUBSET S
      BY DEF Highest
    <3>2. PICK n : staked' = staked \ Highest(StakeOf(v.voter), n)
      BY <1>2 DEF SlashValidatorForDoubleVote
    <3>. QED  BY <3>1, <3>2
  <2>4. HonestNeverSlashed'
    BY <2>2, <2>3 DEF VoteInv, HonestNeverSlashed, HonestUnits, StakeOf
  <2>5. TypeOK' /\ CollectedOnce' /\ RoutedVotes'
    BY <2>1, <2>3 DEF VoteInv, TypeOK, CollectedOnce, RoutedVotes
  <2>. QED  BY <1>0, <2>1, <2>4, <2>5 DEF VoteInv
<1>3. ASSUME UNCHANGED vars  PROVE VoteInv'
  BY <1>0, <1>3 DEF vars, VoteInv, TypeOK, HonestNeverSlashed, CollectedOnce, RoutedVotes
<1>. QED  BY <1>1, <1>2, <1>3, SignStep, DecideStep DEF Next

\* Enough honest stake behind two blocks of one height cannot be.
LEMMA VoteAgreement ==
    ASSUME VoteInv
    PROVE  Agreement
<1>. SUFFICES ASSUME CallerRoutes, ByzantineMinority, NEW b \in decided, NEW d \in decided,
                     HeightOf[b] = HeightOf[d], b # d
              PROVE  FALSE
  BY DEF Agreement
<1>1. /\ IsFiniteSet(HonestUnits) /\ Cardinality(HonestUnits) \in Nat
      /\ Cardinality(ByzantineUnits) \in Nat
      /\ IsFiniteSet(HonestFor(b)) /\ Cardinality(HonestFor(b)) \in Nat
      /\ IsFiniteSet(HonestFor(d)) /\ Cardinality(HonestFor(d)) \in Nat
      /\ Cardinality(Units) = Cardinality(HonestUnits) + Cardinality(ByzantineUnits)
  BY UnitSets DEF VoteInv
<1>2. HonestFor(b) \cap HonestFor(d) = {}
  BY DEF HonestFor, HonestUnits, VoteInv, SignedOk
<1>3. Cardinality(HonestFor(b) \cup HonestFor(d))
        = Cardinality(HonestFor(b)) + Cardinality(HonestFor(d))
  <2>1. Cardinality(HonestFor(b) \cup HonestFor(d))
          = Cardinality(HonestFor(b)) + Cardinality(HonestFor(d)) - Cardinality({})
    BY <1>1, <1>2, FS_Union
  <2>. QED  BY <1>1, <2>1, FS_EmptySet
<1>4. HonestFor(b) \cup HonestFor(d) \in SUBSET HonestUnits
  BY DEF HonestFor
<1>5. Cardinality(HonestFor(b)) + Cardinality(HonestFor(d)) <= Cardinality(HonestUnits)
  BY <1>1, <1>3, <1>4, FS_Subset
<1>6. /\ 3 * Cardinality(HonestFor(b)) + Cardinality(ByzantineUnits) > 2 * Cardinality(HonestUnits)
      /\ 3 * Cardinality(HonestFor(d)) + Cardinality(ByzantineUnits) > 2 * Cardinality(HonestUnits)
  BY DEF VoteInv, DecidedQuorum
<1>7. 3 * Cardinality(ByzantineUnits) <= Cardinality(HonestUnits) + Cardinality(ByzantineUnits)
  BY <1>1 DEF ByzantineMinority, ByzantineUnits
<1>. QED  BY <1>1, <1>5, <1>6, <1>7

\* The inductive invariant of votes, collectors and slashing.
THEOREM VoteInvariant == Spec => []VoteInv
BY VoteInit, VoteStep, PTL DEF Spec

\* Collectors keep to their types, count every voter once and count signed
\* votes only (collect_vote), and honest validators are never slashed
\* (detect_double_vote), for any validator set and any number of collectors.
THEOREM VotesAreSound == Spec => [](TypeOK /\ CollectedOnce /\ HonestNeverSlashed)
<1>1. VoteInv => TypeOK /\ CollectedOnce /\ HonestNeverSlashed
  BY DEF VoteInv
<1>. QED  BY <1>1, VoteInvariant, PTL

\* is_block_finalized never lets two blocks of one height be final while at
\* most a third of the initial stake is Byzantine, slashing included.
THEOREM FinalityIsSafe == Spec => []Agreement
<1>1. VoteInv => Agreement
  BY VoteAgreement
<1>. QED  BY <1>1, VoteInvariant, PTL

\* Votes that are collected keep a block final.
LEMMA CollectKeepsFinality ==
    ASSUME TypeOK, NEW j \in Collectors, NEW v \in signed, CollectVote(j, v),
           NEW k \in Collectors, IsBlockFinalized(k)
    PROVE  IsBlockFinalized(k)'
<1>. USE VoteAssumption
<1>1. /\ Active(v.voter) /\ UNCHANGED staked
      /\ votes' = [votes EXCEPT ![j] = votes[j] \cup {v}]
  BY DEF CollectVote, Accepts
<1>2. votes[k] \subseteq votes'[k] /\ votes'[k] \subseteq votes[k] \cup {v}
  BY <1>1 DEF TypeOK
<1>3. \A x : Active(x)' <=> Active(x)
  BY <1>1 DEF Active, StakeOf
<1>4. TallyOk(k)'
  BY <1>1, <1>2, <1>3 DEF IsBlockFinalized, TallyOk, Active, StakeOf
<1>5. Approving(k) \in SUBSET Approving(k)' /\ Approving(k)' \in SUBSET staked
  BY <1>1, <1>2 DEF Approving
<1>6. IsFiniteSet(staked)
  BY FS_Subset DEF TypeOK
<1>7. IsFiniteSet(Approving(k)') /\ IsFiniteSet(Approving(k))
  BY <1>5, <1>6, FS_Subset
<1>8. /\ Cardinality(Approving(k)) <= Cardinality(Approving(k)')
      /\ Cardinality(Approving(k)) \in Nat /\ Cardinality(Approving(k)') \in Nat
      /\ Cardinality(staked) \in Nat
  BY <1>5, <1>6, <1>7, FS_Subset, FS_CardinalityType
<1>9. Cardinality(Approving(k)') * 3 > Cardinality(staked) * 2
  BY <1>8 DEF IsBlockFinalized
<1>. QED  BY <1>1, <1>4, <1>9 DEF IsBlockFinalized

\* Less stake of others makes it no harder for a block to stay final.
LEMMA OthersSlashedKeepsFinality ==
    ASSUME TypeOK, NEW x, NEW lost \in SUBSET StakeOf(x), staked' = staked \ lost,
           UNCHANGED votes, NEW k \in Collectors, IsBlockFinalized(k),
           \A w \in votes[k] : w.voter # x
    PROVE  IsBlockFinalized(k)'
<1>. USE VoteAssumption
<1>1. Approving(k)' = Approving(k)
  BY DEF Approving, StakeOf, TypeOK
<1>2. TallyOk(k)'
  BY DEF IsBlockFinalized, TallyOk, Active, StakeOf, TypeOK
<1>3. /\ IsFiniteSet(staked) /\ staked' \in SUBSET staked
      /\ Approving(k) \in SUBSET staked
  BY FS_Subset DEF TypeOK, Approving
<1>4. /\ IsFiniteSet(staked') /\ Cardinality(staked') <= Cardinality(staked)
      /\ IsFiniteSet(Approving(k))
  BY <1>3, FS_Subset
<1>5. /\ Cardinality(staked') \in Nat /\ Cardinality(staked) \in Nat
      /\ Cardinality(Approving(k)) \in Nat
  BY <1>3, <1>4, FS_CardinalityType
<1>6. Cardinality(Approving(k)) * 3 > Cardinality(staked') * 2
  BY <1>4, <1>5 DEF IsBlockFinalized
<1>7. staked' # {}
  <2>1. SUFFICES ASSUME staked' = {} PROVE FALSE
    OBVIOUS
  <2>2. Approving(k) = {}
    BY <1>1, <2>1 DEF Approving
  <2>3. Cardinality(Approving(k)) = 0
    BY <2>2, FS_EmptySet
  <2>. QED  BY <1>5, <1>6, <2>3
<1>. QED  BY <1>1, <1>2, <1>6, <1>7 DEF IsBlockFinalized

\* Finality is withdrawn only by slashing: a final block stays final in a collector
\* until a dishonest validator whose vote is in the collector loses stake, for any
\* validator set; late votes never take it back (tally, is_block_finalized).
THEOREM FinalityIsStable == Spec => FinalityOnlyLostBySlashing
<1> DEFINE Stable == \A k \in Collectors :
               IsBlockFinalized(k) /\ ~IsBlockFinalized(k)' =>
                   \E v \in votes[k] : /\ v.voter \notin Honest
                                       /\ StakeOf(v.voter)' # StakeOf(v.voter)
<1>1. VoteInv /\ [Next]_vars => [Stable]_vars
  <2>1. SUFFICES ASSUME VoteInv, Next, NEW k \in Collectors,
                        IsBlockFinalized(k), ~IsBlockFinalized(k)'
                 PROVE  \E v \in votes[k] : /\ v.voter \notin Honest
                                            /\ StakeOf(v.voter)' # StakeOf(v.voter)
    OBVIOUS
  <2>2. ~(UNCHANGED <<staked, votes>>)
    <3>1. ASSUME UNCHANGED <<staked, votes>> PROVE IsBlockFinalized(k)'
      BY <2>1, <3>1 DEF IsBlockFinalized, TallyOk, Approving, Active, StakeOf
    <3>2. QED
      BY <2>1, <3>1
  <2>3. ~(\E j \in Collectors, v \in signed : CollectVote(j, v))
    BY <2>1, CollectKeepsFinality DEF VoteInv
  <2>4. PICK v \in signed, w \in signed, bps \in Penalties :
            SlashValidatorForDoubleVote(v, w, bps)
    BY <2>1, <2>2, <2>3 DEF Next, CreateSignedVote, Decide
  <2>5. v.voter \notin Honest
    BY <2>1, <2>4 DEF VoteInv, SignedOk, DoubleVote, SlashValidatorForDoubleVote
  <2>6. PICK x : x = v.voter
    OBVIOUS
  <2>7. PICK lost \in SUBSET StakeOf(x) : staked' = staked \ lost
    <3>1. \A S, n : Highest(S, n) \in SUBSET S
      BY DEF Highest
    <3>2. PICK n : staked' = staked \ Highest(StakeOf(x), n)
      BY <2>4, <2>6 DEF SlashValidatorForDoubleVote
    <3>3. QED
      BY <3>1, <3>2
  <2>8. UNCHANGED votes
    BY <2>4 DEF SlashValidatorForDoubleVote
  <2>9. PICK y \in votes[k] : y.voter = x
    BY <2>1, <2>7, <2>8, OthersSlashedKeepsFinality DEF VoteInv
  <2>10. StakeOf(x)' # StakeOf(x)
    BY <2>2, <2>7, <2>8 DEF StakeOf
  <2>11. QED
    BY <2>5, <2>6, <2>9, <2>10 DEF StakeOf
<1>2. QED
  BY <1>1, VoteInvariant, PTL DEF Spec, FinalityOnlyLostBySlashing


(***************************************************************************)
(* Sums over positions, by induction on the positions.                     *)
(***************************************************************************)

\* Induction up to n for a set: the least element outside it has none before.
LEMMA UpTo ==
    ASSUME NEW n \in Nat, NEW P, 0 \in P, \A i \in 1 .. n : i - 1 \in P => i \in P
    PROVE  \A i \in 0 .. n : i \in P
<1> DEFINE Q == {i \in 0 .. n : i \notin P}
           R == OpToRel(<, Nat)
<1>. SUFFICES ASSUME Q # {} PROVE FALSE
  OBVIOUS
<1>1. PICK m \in Q : \A i \in Q : ~(<<i, m>> \in R)
  <2>1. Q \subseteq Nat
    OBVIOUS
  <2>. HIDE DEF Q
  <2>. QED  BY <2>1, NatLessThanWellFounded, WFMin
<1>2. m \in 1 .. n /\ m \notin P
  <2>1. m \in 0 .. n /\ m \notin P
    BY <1>1
  <2>. QED  BY <2>1
<1>3. m - 1 \notin Q
  <2>1. <<m - 1, m>> \in R
    BY <1>2 DEF OpToRel
  <2>. HIDE DEF Q, R
  <2>. QED  BY <1>1, <2>1
<1>4. m - 1 \in P
  BY <1>2, <1>3
<1>. QED  BY <1>2, <1>4

LEMMA IntervalSize ==
    ASSUME NEW a \in Nat, NEW b \in Nat, a <= b
    PROVE  IsFiniteSet(a .. (b - 1)) /\ Cardinality(a .. (b - 1)) = b - a
<1>1. PICK c \in Int : c = b - 1
  OBVIOUS
<1>2. a \in Int
  OBVIOUS
<1>3. IsFiniteSet(a .. c)
  BY <1>2, FS_Interval
<1>4. CASE a > c
  <2>1. Cardinality(a .. c) = 0
    BY <1>2, <1>4, FS_Interval
  <2>. QED  BY <1>1, <1>3, <1>4, <2>1
<1>5. CASE ~(a > c)
  <2>1. Cardinality(a .. c) = c - a + 1
    BY <1>2, <1>5, FS_Interval
  <2>. QED  BY <1>1, <1>3, <1>5, <2>1
<1>. QED  BY <1>4, <1>5

LEMMA PositionsOfOrder ==
    /\ Len(Order) \in Nat
    /\ DOMAIN Order = 1 .. Len(Order)
    /\ IsFiniteSet(DOMAIN Order)
    /\ \A i \in DOMAIN Order : i \in Nat /\ Order[i] \in Validators
<1>1. Order \in Seq(Validators)
  BY RewardAssumption
<1>2. Len(Order) \in Nat /\ DOMAIN Order = 1 .. Len(Order)
  BY <1>1, LenProperties
<1>3. IsFiniteSet(1 .. Len(Order))
  BY <1>2, FS_Interval
<1>4. \A i \in DOMAIN Order : Order[i] \in Validators
  BY <1>1, <1>2, ElementOfSeq
<1>. QED  BY <1>2, <1>3, <1>4

\* One validator more: its stake more.
LEMMA StakeAtStep ==
    ASSUME TypeOK, NEW S \in SUBSET (DOMAIN Order)
    PROVE  /\ StakeAt(S) \in Nat
           /\ \A i \in DOMAIN Order : Stake(Order[i]) \in Nat
           /\ \A i \in DOMAIN Order : i \notin S =>
                  StakeAt(S \cup {i}) = StakeAt(S) + Stake(Order[i])
<1> DEFINE U(T) == {u \in staked : \E i \in T : Owner[u] = Order[i]}
<1>1. IsFiniteSet(staked)
  BY FS_Subset, VoteAssumption DEF TypeOK
<1>2. \A T : IsFiniteSet(U(T)) /\ Cardinality(U(T)) \in Nat
  <2>. TAKE T
  <2>1. U(T) \in SUBSET staked
    OBVIOUS
  <2>. HIDE DEF U
  <2>. QED  BY <1>1, <2>1, FS_Subset, FS_CardinalityType
<1>3. \A x : IsFiniteSet(StakeOf(x)) /\ Cardinality(StakeOf(x)) \in Nat
  <2>. TAKE x
  <2>1. StakeOf(x) \in SUBSET staked
    BY DEF StakeOf
  <2>. QED  BY <1>1, <2>1, FS_Subset, FS_CardinalityType
<1>4. ASSUME NEW i \in DOMAIN Order, i \notin S
      PROVE  StakeAt(S \cup {i}) = StakeAt(S) + Stake(Order[i])
  <2>1. U(S \cup {i}) = U(S) \cup StakeOf(Order[i])
    BY DEF StakeOf
  <2>2. U(S) \cap StakeOf(Order[i]) = {}
    BY <1>4, RewardAssumption DEF StakeOf
  <2>3. PICK A, B : A = U(S) /\ B = StakeOf(Order[i])
    OBVIOUS
  <2>4. IsFiniteSet(A) /\ IsFiniteSet(B) /\ Cardinality(A) \in Nat /\ Cardinality(B) \in Nat
    BY <1>2, <1>3, <2>3
  <2>5. A \cap B = {}
    BY <2>2, <2>3
  <2>6. Cardinality(A \cup B) = Cardinality(A) + Cardinality(B) - Cardinality(A \cap B)
    BY <2>4, FS_Union
  <2>7. Cardinality(A \cap B) = 0
    BY <2>5, FS_EmptySet
  <2>8. Cardinality(A \cup B) = Cardinality(A) + Cardinality(B)
    BY <2>4, <2>6, <2>7
  <2>. QED  BY <2>1, <2>3, <2>8 DEF StakeAt, Stake
<1>. QED  BY <1>2, <1>3, <1>4 DEF StakeAt, Stake

LEMMA CumulativeFacts ==
    ASSUME TypeOK
    PROVE  /\ \A i \in 0 .. Len(Order) : Cumulative(i) \in Nat
           /\ Cumulative(0) = 0
           /\ Cumulative(Len(Order)) = Cardinality(staked)
           /\ \A i \in 1 .. Len(Order) : Cumulative(i) = Cumulative(i - 1) + Stake(Order[i])
           /\ \A i, j \in 0 .. Len(Order) : i <= j => Cumulative(i) <= Cumulative(j)
<1>. USE PositionsOfOrder
<1>1. \A i \in 0 .. Len(Order) : 1 .. i \in SUBSET (DOMAIN Order)
  OBVIOUS
<1>2. \A i \in 0 .. Len(Order) : Cumulative(i) \in Nat
  BY <1>1, StakeAtStep DEF Cumulative
<1>3. Cumulative(0) = 0
  <2>1. {u \in staked : \E i \in 1 .. 0 : Owner[u] = Order[i]} = {}
    OBVIOUS
  <2>. QED  BY <2>1, FS_EmptySet DEF Cumulative, StakeAt
<1>4. Cumulative(Len(Order)) = Cardinality(staked)
  <2>1. {u \in staked : \E i \in 1 .. Len(Order) : Owner[u] = Order[i]} = staked
    BY RewardAssumption, VoteAssumption DEF TypeOK
  <2>. QED  BY <2>1 DEF Cumulative, StakeAt
<1>5. ASSUME NEW i \in 1 .. Len(Order)
      PROVE  Cumulative(i) = Cumulative(i - 1) + Stake(Order[i])
  <2>1. (1 .. (i - 1)) \cup {i} = 1 .. i
    OBVIOUS
  <2>2. i \notin 1 .. (i - 1) /\ 1 .. (i - 1) \in SUBSET (DOMAIN Order)
    OBVIOUS
  <2>3. StakeAt((1 .. (i - 1)) \cup {i}) = StakeAt(1 .. (i - 1)) + Stake(Order[i])
    BY <2>2, StakeAtStep
  <2>. QED  BY <2>1, <2>3 DEF Cumulative
<1>6. ASSUME NEW i \in 0 .. Len(Order), NEW j \in 0 .. Len(Order), i <= j
      PROVE  Cumulative(i) <= Cumulative(j)
  <2> DEFINE U(n) == {u \in staked : \E m \in 1 .. n : Owner[u] = Order[m]}
  <2>1. U(i) \in SUBSET U(j) /\ U(j) \in SUBSET staked
    BY <1>6
  <2>. HIDE DEF U
  <2>2. IsFiniteSet(staked)
    BY FS_Subset, VoteAssumption DEF TypeOK
  <2>3. IsFiniteSet(U(j))
    BY <2>1, <2>2, FS_Subset
  <2>4. Cardinality(U(i)) <= Cardinality(U(j))
    BY <2>1, <2>3, FS_Subset
  <2>. QED  BY <2>4 DEF U, Cumulative, StakeAt
<1>. QED  BY <1>2, <1>3, <1>4, <1>5, <1>6

(***************************************************************************)
(* The draw of the proposer.                                               *)
(***************************************************************************)

\* The draws from one cumulative stake up to the next are the validator's.
LEMMA DrawsOf ==
    ASSUME TypeOK, NEW i \in 1 .. Len(Order), NEW draw \in Nat,
           Cumulative(i - 1) <= draw, draw < Cumulative(i)
    PROVE  SelectProposer(draw) = Order[i]
<1>. USE PositionsOfOrder
<1> DEFINE above == {j \in DOMAIN Order : Active(Order[j]) /\ draw < Cumulative(j)}
           First(m) == m \in above /\ \A j \in above : m <= j
<1>1. i - 1 \in 0 .. Len(Order) /\ i \in 0 .. Len(Order)
  OBVIOUS
<1>2. Stake(Order[i]) # 0
  BY <1>1, CumulativeFacts
<1>3. Active(Order[i])
  BY <1>2, FS_EmptySet DEF Active, Stake
<1>4. i \in above
  BY <1>3
<1>5. \A j \in above : i <= j
  <2>. SUFFICES ASSUME NEW j \in above, j < i PROVE FALSE
    OBVIOUS
  <2>1. j \in 0 .. Len(Order) /\ j <= i - 1 /\ draw < Cumulative(j)
    OBVIOUS
  <2>2. Cumulative(j) <= Cumulative(i - 1) /\ Cumulative(j) \in Nat /\ Cumulative(i - 1) \in Nat
    BY <1>1, <2>1, CumulativeFacts
  <2>. QED  BY <2>1, <2>2
<1>6. \A m \in above : (\A j \in above : m <= j) => m = i
  BY <1>4, <1>5
<1>7. (CHOOSE m \in above : \A j \in above : m <= j) = i
  <2>. HIDE DEF above
  <2>. QED  BY <1>4, <1>5, <1>6
<1>. QED  BY <1>7 DEF SelectProposer

\* Every draw below the total stake falls between two cumulative stakes.
LEMMA DrawFalls ==
    ASSUME TypeOK, NEW draw \in 0 .. (Cardinality(staked) - 1)
    PROVE  \E i \in 1 .. Len(Order) : Cumulative(i - 1) <= draw /\ draw < Cumulative(i)
<1>. USE PositionsOfOrder
<1>. SUFFICES ASSUME \A i \in 1 .. Len(Order) : ~(Cumulative(i - 1) <= draw /\ draw < Cumulative(i))
              PROVE  FALSE
  OBVIOUS
<1> DEFINE P == {i \in 0 .. Len(Order) : Cumulative(i) <= draw}
<1>0. draw \in Nat
  OBVIOUS
<1>1. 0 \in P
  BY <1>0, CumulativeFacts
<1>2. \A i \in 1 .. Len(Order) : i - 1 \in P => i \in P
  <2>. SUFFICES ASSUME NEW i \in 1 .. Len(Order), i - 1 \in P PROVE i \in P
    OBVIOUS
  <2>1. i \in 0 .. Len(Order) /\ Cumulative(i) \in Nat /\ Cumulative(i - 1) <= draw
    BY CumulativeFacts
  <2>2. ~(draw < Cumulative(i))
    BY <2>1
  <2>. QED  BY <1>0, <2>1, <2>2
<1>3. \A i \in 0 .. Len(Order) : i \in P
  <2>. HIDE DEF P
  <2>. QED  BY <1>1, <1>2, UpTo
<1>4. Cumulative(Len(Order)) <= draw
  BY <1>3
<1>5. Cumulative(Len(Order)) = Cardinality(staked) /\ Cardinality(staked) \in Nat
  BY CumulativeFacts
<1>. QED  BY <1>4, <1>5

LEMMA DrawsAreProportional ==
    ASSUME TypeOK
    PROVE  ProposerProportional
<1>. USE PositionsOfOrder
<1> DEFINE draws == 0 .. (Cardinality(staked) - 1)
           chosen == {<<draw, SelectProposer(draw)>> : draw \in draws}
<1>. SUFFICES ASSUME NEW x \in Validators
              PROVE  Cardinality({pair \in chosen : pair[2] = x}) = Stake(x)
  BY DEF ProposerProportional
<1>1. PICK i \in 1 .. Len(Order) : Order[i] = x
  BY RewardAssumption
<1>2. i - 1 \in 0 .. Len(Order) /\ i \in 0 .. Len(Order)
  OBVIOUS
<1>3. PICK a \in Nat, b \in Nat : a = Cumulative(i - 1) /\ b = Cumulative(i)
  BY <1>2, CumulativeFacts
<1>4. b = a + Stake(x) /\ Stake(x) \in Nat /\ b <= Cardinality(staked) /\ Cardinality(staked) \in Nat
  <2>1. Stake(x) \in Nat
    BY <1>1, StakeAtStep
  <2>2. Len(Order) \in 0 .. Len(Order)
    OBVIOUS
  <2>. QED  BY <1>1, <1>2, <1>3, <2>1, <2>2, CumulativeFacts
<1> DEFINE Own == a .. (b - 1)
           Q == {pair \in chosen : pair[2] = x}
           f == [d \in Own |-> <<d, x>>]
<1>5. ASSUME NEW d \in Own  PROVE d \in draws /\ SelectProposer(d) = x
  <2>1. d \in Nat /\ a <= d /\ d < b /\ d \in draws
    BY <1>4
  <2>. QED  BY <1>1, <1>3, <2>1, DrawsOf
<1>6. ASSUME NEW d \in draws, SelectProposer(d) = x  PROVE d \in Own
  <2>1. PICK j \in 1 .. Len(Order) : Cumulative(j - 1) <= d /\ d < Cumulative(j)
    BY DrawFalls
  <2>2. d \in Nat
    OBVIOUS
  <2>3. SelectProposer(d) = Order[j]
    BY <2>1, <2>2, DrawsOf
  <2>4. j = i
    BY <1>1, <1>6, <2>3, RewardAssumption
  <2>. QED  BY <1>3, <2>1, <2>2, <2>4
<1>7. f \in [Own -> Q]
  <2>1. ASSUME NEW d \in Own PROVE <<d, x>> \in Q
    <3>1. d \in draws /\ SelectProposer(d) = x
      BY <1>5
    <3>2. <<d, SelectProposer(d)>> \in chosen
      BY <3>1
    <3>. QED  BY <3>1, <3>2
  <2>. QED  BY <2>1
<1>8. \A pair \in Q : \E d \in Own : f[d] = pair
  <2>. SUFFICES ASSUME NEW pair \in Q PROVE \E d \in Own : f[d] = pair
    OBVIOUS
  <2>1. PICK d \in draws : pair = <<d, SelectProposer(d)>>
    OBVIOUS
  <2>2. SelectProposer(d) = x
    BY <2>1
  <2>3. d \in Own
    BY <1>6, <2>2
  <2>4. f[d] = pair
    BY <2>1, <2>2, <2>3
  <2>. QED  BY <2>3, <2>4
<1>9. \A d, e \in Own : f[d] = f[e] => d = e
  OBVIOUS
<1>10. IsFiniteSet(Own) /\ Cardinality(Own) = Stake(x)
  <2>1. a <= b /\ b - a = Stake(x)
    BY <1>3, <1>4
  <2>. QED  BY <1>3, <2>1, IntervalSize
<1>11. Cardinality(Q) = Cardinality(Own)
  <2>. HIDE DEF Q, Own, f
  <2>1. f \in Surjection(Own, Q)
    BY <1>7, <1>8 DEF Surjection
  <2>2. f \in Injection(Own, Q)
    BY <1>7, <1>9 DEF Injection, IsInjective
  <2>. QED  BY <1>10, <2>1, <2>2, FS_Surjection
<1>. QED  BY <1>10, <1>11

\* In every state that votes and slashing lead to, select_proposer_by_seed draws a
\* validator by exactly as many of the possible draws as it has stake.
THEOREM ProposerDrawIsFair == Spec => []ProposerProportional
<1>1. Spec => []TypeOK
  BY VotesAreSound, PTL
<1>. QED  BY <1>1, DrawsAreProportional, PTL

(***************************************************************************)
(* The distribution of the reward pool.                                    *)
(***************************************************************************)

\* The sum of the amounts up to position n, and how many there are.
TotalUpTo(f, n) == Cardinality(UNION {{i} \X (1 .. f[i]) : i \in {j \in DOMAIN f : j <= n}})

CountUpTo(S, n) == Cardinality({j \in S : j <= n})

LEMMA FirstPositions ==
    ASSUME NEW m \in Nat, NEW S \in SUBSET (1 .. m)
    PROVE  /\ \A n : {j \in S : j <= n} \in SUBSET S /\ IsFiniteSet({j \in S : j <= n})
           /\ {j \in S : j <= 0} = {}
           /\ {j \in S : j <= m} = S
           /\ \A n \in 1 .. m : /\ n \notin {j \in S : j <= n - 1}
                                /\ {j \in S : j <= n} =
                                     IF n \in S THEN {j \in S : j <= n - 1} \cup {n}
                                     ELSE {j \in S : j <= n - 1}
<1>1. \A j \in S : j \in Nat /\ j >= 1 /\ j <= m
  OBVIOUS
<1>2. IsFiniteSet(S)
  <2>1. IsFiniteSet(1 .. m)
    BY FS_Interval
  <2>. QED  BY <2>1, FS_Subset
<1>3. \A n : {j \in S : j <= n} \in SUBSET S /\ IsFiniteSet({j \in S : j <= n})
  <2>. TAKE n
  <2>1. {j \in S : j <= n} \in SUBSET S
    OBVIOUS
  <2>. QED  BY <1>2, <2>1, FS_Subset
<1>4. {j \in S : j <= 0} = {} /\ {j \in S : j <= m} = S
  <2>1. \A j \in S : ~(j <= 0) /\ j <= m
    BY <1>1
  <2>. QED  BY <2>1
<1>5. ASSUME NEW n \in 1 .. m
      PROVE  /\ n \notin {j \in S : j <= n - 1}
             /\ {j \in S : j <= n} =
                    IF n \in S THEN {j \in S : j <= n - 1} \cup {n}
                    ELSE {j \in S : j <= n - 1}
  <2>1. \A j \in S : j <= n <=> (j <= n - 1 \/ j = n)
    BY <1>1
  <2>2. ~(n <= n - 1)
    OBVIOUS
  <2>. QED  BY <2>1, <2>2
<1>. QED  BY <1>3, <1>4, <1>5

LEMMA TotalFacts ==
    ASSUME NEW m \in Nat, NEW S \in SUBSET (1 .. m), NEW f \in [S -> Nat]
    PROVE  /\ \A n \in 0 .. m : TotalUpTo(f, n) \in Nat
           /\ TotalUpTo(f, 0) = 0
           /\ TotalUpTo(f, m) = Total(f)
           /\ \A n \in 1 .. m : TotalUpTo(f, n) =
                  TotalUpTo(f, n - 1) + (IF n \in S THEN f[n] ELSE 0)
<1> DEFINE W(T) == UNION {{i} \X (1 .. f[i]) : i \in T}
<1>1. \A n : TotalUpTo(f, n) = Cardinality(W({j \in S : j <= n}))
  BY DEF TotalUpTo
<1>2. \A T, i : W(T \cup {i}) = W(T) \cup ({i} \X (1 .. f[i]))
  OBVIOUS
<1>3. \A i \in S : /\ IsFiniteSet({i} \X (1 .. f[i]))
                   /\ Cardinality({i} \X (1 .. f[i])) = f[i]
  <2>. TAKE i \in S
  <2>1. f[i] \in Nat
    OBVIOUS
  <2>2. IsFiniteSet(1 .. f[i]) /\ Cardinality(1 .. f[i]) = f[i]
    <3>1. PICK k \in Nat : k = f[i]
      BY <2>1
    <3>2. IsFiniteSet(1 .. ((k + 1) - 1)) /\ Cardinality(1 .. ((k + 1) - 1)) = (k + 1) - 1
      BY <3>1, IntervalSize
    <3>3. (k + 1) - 1 = k
      BY <3>1
    <3>. QED  BY <3>1, <3>2, <3>3
  <2>3. IsFiniteSet({i}) /\ Cardinality({i}) = 1
    BY FS_Singleton
  <2>4. IsFiniteSet({i} \X (1 .. f[i])) /\ Cardinality({i} \X (1 .. f[i])) = Cardinality({i}) * Cardinality(1 .. f[i])
    BY <2>2, <2>3, FS_Product
  <2>. QED  BY <2>1, <2>2, <2>3, <2>4
<1>4. ASSUME NEW T \in SUBSET S, IsFiniteSet(W(T)), NEW i \in S, i \notin T
      PROVE  /\ IsFiniteSet(W(T \cup {i}))
             /\ Cardinality(W(T \cup {i})) = Cardinality(W(T)) + f[i]
  <2>1. W(T) \cap ({i} \X (1 .. f[i])) = {}
    BY <1>4
  <2>2. PICK A, B : A = W(T) /\ B = {i} \X (1 .. f[i])
    OBVIOUS
  <2>3. IsFiniteSet(A) /\ IsFiniteSet(B) /\ A \cap B = {} /\ Cardinality(B) = f[i] /\ W(T \cup {i}) = A \cup B
    BY <1>2, <1>3, <1>4, <2>1, <2>2
  <2>. HIDE DEF W
  <2>f. f[i] \in Nat
    OBVIOUS
  <2>4. IsFiniteSet(A \cup B) /\ Cardinality(A \cup B) = Cardinality(A) + Cardinality(B) - Cardinality(A \cap B)
    BY <2>3, FS_Union
  <2>5. Cardinality(A \cap B) = 0 /\ Cardinality(A) \in Nat /\ Cardinality(B) \in Nat
    BY <2>3, FS_EmptySet, FS_CardinalityType
  <2>6. Cardinality(A \cup B) = Cardinality(A) + f[i]
    BY <2>3, <2>4, <2>5, <2>f
  <2>. QED  BY <2>2, <2>3, <2>4, <2>6
<1>5. {j \in S : j <= 0} = {} /\ {j \in S : j <= m} = S
  BY FirstPositions
<1>6. W({}) = {}
  OBVIOUS
<1>7. \A n \in 1 .. m : {j \in S : j <= n} =
          IF n \in S THEN {j \in S : j <= n - 1} \cup {n} ELSE {j \in S : j <= n - 1}
  BY FirstPositions
<1>8. Total(f) = Cardinality(W(S))
  BY DEF Total
<1> DEFINE P == {n \in 0 .. m : IsFiniteSet(W({j \in S : j <= n}))}
<1>. HIDE DEF W
<1>9. 0 \in P
  BY <1>5, <1>6, FS_EmptySet
<1>10. \A n \in 1 .. m : n - 1 \in P => n \in P
  <2>. SUFFICES ASSUME NEW n \in 1 .. m, n - 1 \in P PROVE n \in P
    OBVIOUS
  <2>1. IsFiniteSet(W({j \in S : j <= n - 1}))
    OBVIOUS
  <2>2. {j \in S : j <= n - 1} \in SUBSET S /\ n \notin {j \in S : j <= n - 1}
    BY FirstPositions
  <2>3. IsFiniteSet(W({j \in S : j <= n}))
    BY <1>4, <1>7, <2>1, <2>2
  <2>. QED  BY <2>3
<1>11. \A n \in 0 .. m : n \in P
  <2>. HIDE DEF P
  <2>. QED  BY <1>9, <1>10, UpTo
<1>12. ASSUME NEW n \in 1 .. m
       PROVE  TotalUpTo(f, n) = TotalUpTo(f, n - 1) + (IF n \in S THEN f[n] ELSE 0)
  <2>1. n - 1 \in 0 .. m
    OBVIOUS
  <2>2. IsFiniteSet(W({j \in S : j <= n - 1}))
    BY <1>11, <2>1
  <2>3. {j \in S : j <= n - 1} \in SUBSET S /\ n \notin {j \in S : j <= n - 1}
    BY FirstPositions
  <2>4. Cardinality(W({j \in S : j <= n - 1})) \in Nat
    BY <2>2, FS_CardinalityType
  <2>5. CASE n \in S
    <3>1. Cardinality(W({j \in S : j <= n - 1} \cup {n})) =
              Cardinality(W({j \in S : j <= n - 1})) + f[n]
      BY <1>4, <2>2, <2>3, <2>5
    <3>2. {j \in S : j <= n} = {j \in S : j <= n - 1} \cup {n}
      BY <1>7, <2>5
    <3>. QED  BY <1>1, <2>5, <3>1, <3>2
  <2>6. CASE n \notin S
    <3>1. {j \in S : j <= n} = {j \in S : j <= n - 1}
      BY <1>7, <2>6
    <3>2. TotalUpTo(f, n) = TotalUpTo(f, n - 1) /\ TotalUpTo(f, n - 1) \in Nat
      BY <1>1, <2>4, <3>1
    <3>. QED  BY <2>6, <3>2
  <2>. QED  BY <2>5, <2>6
<1>13. \A n \in 0 .. m : TotalUpTo(f, n) \in Nat
  BY <1>1, <1>11, FS_CardinalityType
<1>14. TotalUpTo(f, 0) = 0
  BY <1>1, <1>5, <1>6, FS_EmptySet
<1>. QED  BY <1>1, <1>5, <1>8, <1>12, <1>13, <1>14

LEMMA CountFacts ==
    ASSUME NEW m \in Nat, NEW S \in SUBSET (1 .. m)
    PROVE  /\ \A n \in 0 .. m : CountUpTo(S, n) \in Nat
           /\ CountUpTo(S, 0) = 0
           /\ \A n \in 1 .. m : CountUpTo(S, n) =
                  CountUpTo(S, n - 1) + (IF n \in S THEN 1 ELSE 0)
<1>1. \A n \in 0 .. m : IsFiniteSet({j \in S : j <= n})
  BY FirstPositions
<1>2. \A n \in 1 .. m : {j \in S : j <= n} =
          IF n \in S THEN {j \in S : j <= n - 1} \cup {n} ELSE {j \in S : j <= n - 1}
  BY FirstPositions
<1>3. ASSUME NEW n \in 1 .. m
      PROVE  CountUpTo(S, n) = CountUpTo(S, n - 1) + (IF n \in S THEN 1 ELSE 0)
  <2>1. PICK A : A = {j \in S : j <= n - 1}
    OBVIOUS
  <2>2. n - 1 \in 0 .. m /\ n \notin A
    BY <2>1
  <2>3. IsFiniteSet(A) /\ Cardinality(A) \in Nat
    BY <1>1, <2>1, <2>2, FS_CardinalityType
  <2>4. Cardinality(A \cup {n}) = Cardinality(A) + 1
    BY <2>2, <2>3, FS_AddElement
  <2>. QED  BY <1>2, <2>1, <2>3, <2>4 DEF CountUpTo
<1>4. {j \in S : j <= 0} = {}
  BY FirstPositions
<1>. QED  BY <1>1, <1>3, <1>4, FS_CardinalityType, FS_EmptySet DEF CountUpTo

\* The stake of the participants up to position n.
LEMMA StakeUpToFacts ==
    ASSUME TypeOK, NEW S \in SUBSET (DOMAIN Order)
    PROVE  /\ \A n \in 0 .. Len(Order) : StakeAt({j \in S : j <= n}) \in Nat
           /\ StakeAt({j \in S : j <= 0}) = 0
           /\ StakeAt({j \in S : j <= Len(Order)}) = StakeAt(S)
           /\ \A n \in 1 .. Len(Order) : StakeAt({j \in S : j <= n}) =
                  StakeAt({j \in S : j <= n - 1}) + (IF n \in S THEN Stake(Order[n]) ELSE 0)
<1>. USE PositionsOfOrder
<1>1. \A n : {j \in S : j <= n} \in SUBSET (DOMAIN Order)
  OBVIOUS
<1>2. \A n \in 1 .. Len(Order) : {j \in S : j <= n} =
          IF n \in S THEN {j \in S : j <= n - 1} \cup {n} ELSE {j \in S : j <= n - 1}
  BY FirstPositions
<1>3. \A n : StakeAt({j \in S : j <= n}) \in Nat
  BY <1>1, StakeAtStep
<1>4. ASSUME NEW n \in 1 .. Len(Order)
      PROVE  StakeAt({j \in S : j <= n}) =
                  StakeAt({j \in S : j <= n - 1}) + (IF n \in S THEN Stake(Order[n]) ELSE 0)
  <2>1. n \notin {j \in S : j <= n - 1} /\ n \in DOMAIN Order
    BY FirstPositions
  <2>2. StakeAt({j \in S : j <= n - 1} \cup {n}) = StakeAt({j \in S : j <= n - 1}) + Stake(Order[n])
    BY <1>1, <2>1, StakeAtStep
  <2>3. CASE n \in S
    BY <1>2, <2>2, <2>3
  <2>4. CASE n \notin S
    <3>1. {j \in S : j <= n} = {j \in S : j <= n - 1}
      BY <1>2, <2>4
    <3>2. StakeAt({j \in S : j <= n - 1}) \in Nat
      BY <1>3
    <3>3. PICK c \in Nat : c = StakeAt({j \in S : j <= n - 1})
      BY <3>2
    <3>4. StakeAt({j \in S : j <= n}) = c
      BY <3>1, <3>3
    <3>. QED  BY <2>4, <3>3, <3>4
  <2>. QED  BY <2>3, <2>4
<1>5. StakeAt({j \in S : j <= 0}) = 0
  <2>1. {u \in staked : \E i \in {j \in S : j <= 0} : Owner[u] = Order[i]} = {}
    OBVIOUS
  <2>. QED  BY <2>1, FS_EmptySet DEF StakeAt
<1>6. {j \in S : j <= Len(Order)} = S
  OBVIOUS
<1>. QED  BY <1>3, <1>4, <1>5, <1>6

\* Rounding down: the quotient and what it loses.
LEMMA Rounding ==
    ASSUME NEW x \in Nat, NEW V \in Nat \ {0}
    PROVE  /\ x \div V \in Nat
           /\ V * (x \div V) <= x
           /\ x < V * (x \div V) + V
  OBVIOUS

LEMMA Spread ==
    ASSUME NEW c \in Int, NEW x \in Int, NEW y \in Int
    PROVE  c * (x + y) = c * x + c * y
  OBVIOUS

LEMMA CancelLeq ==
    ASSUME NEW V \in Nat \ {0}, NEW x \in Int, NEW y \in Int, V * x <= V * y
    PROVE  x <= y
<1>. SUFFICES ASSUME y + 1 <= x PROVE FALSE
  OBVIOUS
<1>1. V * (y + 1) <= V * x
  OBVIOUS
<1>2. V * (y + 1) = V * y + V * 1
  BY Spread
<1>. QED  BY <1>1, <1>2

LEMMA AddBounds ==
    ASSUME NEW p1 \in Int, NEW p2 \in Int, NEW p3 \in Int, NEW p4 \in Int, NEW p5 \in Int,
           NEW c \in Int, NEW V \in Int,
           p1 <= p3, p3 + c <= p1 + p5, p2 <= p4, p4 < p2 + V
    PROVE  p1 + p2 <= p3 + p4 /\ p3 + p4 + (c + 1) <= p1 + p2 + (p5 + V)
  OBVIOUS

LEMMA AddToTransfer ==
    ASSUME NEW x \in Int, NEW y \in Int, NEW c \in Nat, x + c <= y
    PROVE  x <= y
  OBVIOUS

LEMMA OneShareMore ==
    ASSUME NEW V \in Nat \ {0}, NEW pool \in Nat, NEW A \in Nat, NEW B \in Nat, NEW C \in Nat,
           NEW x \in Nat, NEW y \in Nat,
           V * A <= pool * B, pool * B + C <= V * A + V * C,
           V * x <= pool * y, pool * y < V * x + V
    PROVE  /\ V * (A + x) <= pool * (B + y)
           /\ pool * (B + y) + (C + 1) <= V * (A + x) + V * (C + 1)
<1>1. V * (A + x) = V * A + V * x /\ pool * (B + y) = pool * B + pool * y
      /\ V * (C + 1) = V * C + V * 1
  BY Spread
<1>2. V * A \in Int /\ V * x \in Int /\ pool * B \in Int /\ pool * y \in Int /\ V * C \in Int
      /\ V * 1 = V
  OBVIOUS
<1>3. V \in Int /\ C \in Int
  OBVIOUS
<1>4. /\ V * A + V * x <= pool * B + pool * y
      /\ pool * B + pool * y + (C + 1) <= V * A + V * x + (V * C + V)
  BY <1>2, <1>3, AddBounds
<1>. QED  BY <1>1, <1>2, <1>4

\* Counts only grow.
LEMMA CountsGrow ==
    ASSUME NEW m \in Nat, NEW S, NEW C \in [0 .. m -> Nat],
           \A n \in 1 .. m : C[n] = C[n - 1] + (IF n \in S THEN 1 ELSE 0)
    PROVE  \A n \in 0 .. m : C[n] <= C[m]
<1> DEFINE Q == {n \in 0 .. m : C[m - n] <= C[m]}
<1>1. 0 \in Q
  OBVIOUS
<1>2. \A n \in 1 .. m : n - 1 \in Q => n \in Q
  <2>. SUFFICES ASSUME NEW n \in 1 .. m, n - 1 \in Q PROVE n \in Q
    OBVIOUS
  <2>1. PICK k \in 1 .. m : k = m - n + 1
    OBVIOUS
  <2>2. m - (n - 1) = k /\ m - n = k - 1 /\ k - 1 \in 0 .. m /\ k \in 0 .. m
    BY <2>1
  <2>3. PICK c, d, e \in Nat : c = C[k] /\ d = C[k - 1] /\ e = C[m]
    BY <2>2
  <2>4. c <= e /\ c = d + (IF k \in S THEN 1 ELSE 0)
    BY <2>2, <2>3
  <2>5. d <= e
    BY <2>3, <2>4
  <2>6. C[m - n] <= C[m]
    BY <2>2, <2>3, <2>5
  <2>. QED  BY <2>6
<1>3. \A n \in 0 .. m : n \in Q
  <2>. HIDE DEF Q
  <2>. QED  BY <1>1, <1>2, UpTo
<1>. SUFFICES ASSUME NEW n \in 0 .. m PROVE C[n] <= C[m]
  OBVIOUS
<1>4. m - n \in 0 .. m /\ m - (m - n) = n
  OBVIOUS
<1>5. m - n \in Q
  <2>. HIDE DEF Q
  <2>. QED  BY <1>3, <1>4
<1>6. C[m - (m - n)] <= C[m]
  BY <1>5
<1>. QED  BY <1>4, <1>6

\* A holds the partial sums of the amounts a at the positions S up to m.
RunningSum(m, S, a, A) ==
    /\ A \in [0 .. m -> Nat]
    /\ A[0] = 0
    /\ \A n \in 1 .. m : A[n] = A[n - 1] + (IF n \in S THEN a[n] ELSE 0)

RunningCount(m, S, C) ==
    /\ C \in [0 .. m -> Nat]
    /\ C[0] = 0
    /\ \A n \in 1 .. m : C[n] = C[n - 1] + (IF n \in S THEN 1 ELSE 0)

RoundedDown(S, pool, V, s, a) ==
    \A i \in S : V * a[i] <= pool * s[i] /\ pool * s[i] < V * a[i] + V

FirstGetOneMore(S, C, rem, a, r) ==
    \A i \in S : r[i] = a[i] + (IF C[i] <= rem THEN 1 ELSE 0)

\* Shares rounded down, over positions S with stakes s and partial sums A of the
\* shares, B of the stakes and C of the number of participants: less than one unit
\* per participant is left over.
LEMMA RoundedShares ==
    ASSUME NEW m \in Nat, NEW S \in SUBSET (1 .. m), NEW pool \in Nat, NEW V \in Nat \ {0},
           NEW s \in [S -> Nat], NEW a \in [S -> Nat],
           RoundedDown(S, pool, V, s, a),
           NEW A, RunningSum(m, S, a, A), NEW B, RunningSum(m, S, s, B), B[m] = V,
           NEW C, RunningCount(m, S, C)
    PROVE  A[m] <= pool /\ pool < A[m] + C[m]
<1>. USE DEF RunningSum, RunningCount, RoundedDown
<1> DEFINE P == {n \in 0 .. m : /\ V * A[n] <= pool * B[n]
                                /\ pool * B[n] + C[n] <= V * A[n] + V * C[n]}
<1>1. 0 \in P
  OBVIOUS
<1>2. \A n \in 1 .. m : n - 1 \in P => n \in P
  <2>. SUFFICES ASSUME NEW n \in 1 .. m, n - 1 \in P PROVE n \in P
    OBVIOUS
  <2>1. n - 1 \in 0 .. m /\ n \in 0 .. m
    OBVIOUS
  <2>2. PICK A1, B1, C1 \in Nat : A1 = A[n - 1] /\ B1 = B[n - 1] /\ C1 = C[n - 1]
    BY <2>1
  <2>3. V * A1 <= pool * B1 /\ pool * B1 + C1 <= V * A1 + V * C1
    BY <2>2
  <2>4. CASE n \notin S
    <3>1. A[n] = A1 /\ B[n] = B1 /\ C[n] = C1
      BY <2>2, <2>4
    <3>. QED  BY <2>1, <2>3, <3>1
  <2>5. CASE n \in S
    <3>1. PICK x, y \in Nat : x = a[n] /\ y = s[n]
      BY <2>5
    <3>2. A[n] = A1 + x /\ B[n] = B1 + y /\ C[n] = C1 + 1
      BY <2>2, <2>5, <3>1
    <3>3. V * x <= pool * y /\ pool * y < V * x + V
      BY <2>5, <3>1
    <3>6. /\ V * (A1 + x) <= pool * (B1 + y)
          /\ pool * (B1 + y) + (C1 + 1) <= V * (A1 + x) + V * (C1 + 1)
      BY <2>3, <3>3, OneShareMore
    <3>. QED  BY <2>1, <3>2, <3>6
  <2>. QED  BY <2>4, <2>5
<1>3. m \in P
  <2>1. \A n \in 0 .. m : n \in P
    <3>. HIDE DEF P
    <3>. QED  BY <1>1, <1>2, UpTo
  <2>2. m \in 0 .. m
    OBVIOUS
  <2>. HIDE DEF P
  <2>. QED  BY <2>1, <2>2
<1>4. PICK x, c \in Nat : x = A[m] /\ c = C[m]
  OBVIOUS
<1>5. V * x <= pool * V /\ pool * V + c <= V * x + V * c
  BY <1>3, <1>4
<1>6. pool * V = V * pool /\ V * x + V * c = V * (x + c)
  BY Spread
<1>7. x <= pool
  BY <1>5, <1>6, CancelLeq
<1>8. pool < x + c
  <2>1. pool <= x + c
    <3>1. V * pool <= V * (x + c)
      <4>1. V * pool \in Int /\ V * (x + c) \in Int
        OBVIOUS
      <4>2. V * pool + c <= V * (x + c)
        BY <1>5, <1>6
      <4>. QED  BY <1>4, <4>1, <4>2, AddToTransfer
    <3>. QED  BY <3>1, CancelLeq
  <2>2. CASE c > 0
    <3>1. pool # x + c
      <4>. SUFFICES ASSUME pool = x + c PROVE FALSE
        OBVIOUS
      <4>1. V * pool \in Int
        OBVIOUS
      <4>. QED  BY <1>5, <1>6, <2>2, <4>1
    <3>. QED  BY <2>1, <3>1
  <2>3. CASE c = 0
    <3>1. \A n \in 0 .. m : C[n] <= C[m]
      BY CountsGrow
    <3>2. S = {}
      <4>. SUFFICES ASSUME NEW n \in S PROVE FALSE
        OBVIOUS
      <4>1. n \in 1 .. m /\ n - 1 \in 0 .. m /\ n \in 0 .. m
        OBVIOUS
      <4>2. C[n] = C[n - 1] + 1 /\ C[n] \in Nat /\ C[n - 1] \in Nat
        BY <4>1
      <4>3. C[n] <= 0
        BY <1>4, <2>3, <3>1, <4>1
      <4>. QED  BY <4>2, <4>3
    <3>3. B[m] = 0
      <4> DEFINE Q == {n \in 0 .. m : B[n] = 0}
      <4>1. 0 \in Q
        OBVIOUS
      <4>2. \A n \in 1 .. m : n - 1 \in Q => n \in Q
        BY <3>2
      <4>3. \A n \in 0 .. m : n \in Q
        <5>. HIDE DEF Q
        <5>. QED  BY <4>1, <4>2, UpTo
      <4>. QED  BY <4>3
    <3>. QED  BY <3>3
  <2>. QED  BY <1>4, <2>2, <2>3
<1>. QED  BY <1>4, <1>7, <1>8

\* The remainder is handed out one unit each, and nothing is left.
LEMMA RemainderIsPaid ==
    ASSUME NEW m \in Nat, NEW S \in SUBSET (1 .. m), NEW rem \in Nat,
           NEW a \in [S -> Nat], NEW r \in [S -> Nat],
           NEW A, RunningSum(m, S, a, A), NEW C, RunningCount(m, S, C),
           NEW R, RunningSum(m, S, r, R),
           FirstGetOneMore(S, C, rem, a, r), rem <= C[m]
    PROVE  R[m] = A[m] + rem
<1>. USE DEF RunningSum, RunningCount, FirstGetOneMore
<1> DEFINE P == {n \in 0 .. m : R[n] = A[n] + (IF C[n] <= rem THEN C[n] ELSE rem)}
<1>1. 0 \in P
  OBVIOUS
<1>2. \A n \in 1 .. m : n - 1 \in P => n \in P
  <2>. SUFFICES ASSUME NEW n \in 1 .. m, n - 1 \in P PROVE n \in P
    OBVIOUS
  <2>1. n - 1 \in 0 .. m /\ n \in 0 .. m
    OBVIOUS
  <2>2. PICK A1, R1, C1 \in Nat : A1 = A[n - 1] /\ R1 = R[n - 1] /\ C1 = C[n - 1]
    BY <2>1
  <2>3. R1 = A1 + (IF C1 <= rem THEN C1 ELSE rem)
    BY <2>2
  <2>4. CASE n \notin S
    <3>1. A[n] = A1 /\ R[n] = R1 /\ C[n] = C1
      BY <2>2, <2>4
    <3>. QED  BY <2>1, <2>3, <3>1
  <2>5. CASE n \in S
    <3>1. PICK x, y \in Nat : x = a[n] /\ y = r[n]
      BY <2>5
    <3>2. A[n] = A1 + x /\ R[n] = R1 + y /\ C[n] = C1 + 1
      BY <2>2, <2>5, <3>1
    <3>3. y = x + (IF C1 + 1 <= rem THEN 1 ELSE 0)
      BY <2>5, <3>1, <3>2
    <3>4. R1 + y = A1 + x + (IF C1 + 1 <= rem THEN C1 + 1 ELSE rem)
      BY <2>3, <3>3
    <3>. QED  BY <2>1, <3>2, <3>4
  <2>. QED  BY <2>4, <2>5
<1>3. \A n \in 0 .. m : n \in P
  <2>. HIDE DEF P
  <2>. QED  BY <1>1, <1>2, UpTo
<1>4. m \in 0 .. m
  OBVIOUS
<1>5. R[m] = A[m] + (IF C[m] <= rem THEN C[m] ELSE rem)
  BY <1>3, <1>4
<1>6. C[m] \in Nat
  BY <1>4
<1>. QED  BY <1>5, <1>6

LEMMA OneUnitOff ==
    ASSUME NEW V \in Nat \ {0}, NEW p \in Nat, NEW z \in Nat, NEW x \in Nat, NEW y \in Nat,
           y = x \/ y = x + 1, V * x <= p * z, p * z < V * x + V
    PROVE  y * V <= p * z + V /\ p * z < y * V + V
<1>1. y * V = V * y /\ V * (x + 1) = V * x + V * 1 /\ V * 1 = V
  BY Spread
<1>2. V * x \in Int /\ p * z \in Int
  OBVIOUS
<1>3. y * V = V * x \/ y * V = V * x + V
  BY <1>1
<1>. QED  BY <1>2, <1>3

LEMMA PoolsAreNumbers ==
    ASSUME TypeOK, NEW pool \in Pools
    PROVE  pool \in Nat
<1>1. PICK fees \in Fees, secs \in Elapsed : pool = fees + Inflation(Cardinality(staked), secs)
  BY DEF Pools
<1>2. fees \in Nat /\ secs \in Nat /\ InflationBps \in Nat /\ SecondsPerYear \in Nat \ {0}
  BY RewardAssumption
<1>3. PICK total \in Nat : total = Cardinality(staked)
  BY FS_Subset, FS_CardinalityType, VoteAssumption DEF TypeOK
<1>4. total * InflationBps * secs \in Nat
  BY <1>2
<1>5. PICK x \in Nat : x = total * InflationBps * secs
  BY <1>4
<1>6. 10000 \in Nat \ {0}
  OBVIOUS
<1>7. PICK y \in Nat : y = x \div 10000
  BY <1>6, Rounding
<1>8. y \div SecondsPerYear \in Nat
  BY <1>2, Rounding
<1>9. Inflation(total, secs) \in Nat
  BY <1>5, <1>7, <1>8 DEF Inflation
<1>. QED  BY <1>1, <1>2, <1>3, <1>9

\* A final block has a participant with stake.
LEMMA FinalHasParticipants ==
    ASSUME TypeOK, NEW k \in Collectors, IsBlockFinalized(k)
    PROVE  /\ Participants(k) \in SUBSET (DOMAIN Order)
           /\ StakeAt(Participants(k)) \in Nat \ {0}
<1>1. Participants(k) \in SUBSET (DOMAIN Order)
  BY DEF Participants
<1>2. StakeAt(Participants(k)) \in Nat
  BY <1>1, StakeAtStep
<1>3. IsFiniteSet(staked) /\ Cardinality(staked) \in Nat
  BY FS_Subset, FS_CardinalityType, VoteAssumption DEF TypeOK
<1>4. Approving(k) # {}
  <2>. SUFFICES ASSUME Approving(k) = {} PROVE FALSE
    OBVIOUS
  <2>1. Cardinality(Approving(k)) = 0
    BY FS_EmptySet
  <2>. QED  BY <1>3, <2>1 DEF IsBlockFinalized
<1>5. PICK u \in staked, v \in votes[k] : v.voter = Owner[u]
  BY <1>4 DEF Approving
<1>6. Owner[u] \in Validators
  BY VoteAssumption DEF TypeOK
<1>7. PICK i \in DOMAIN Order : Order[i] = Owner[u]
  BY <1>6, RewardAssumption
<1>8. i \in Participants(k)
  BY <1>5, <1>7 DEF Participants, Active, StakeOf
<1> DEFINE W == {w \in staked : \E j \in Participants(k) : Owner[w] = Order[j]}
<1>9. u \in W /\ W \in SUBSET staked
  BY <1>7, <1>8
<1>10. Cardinality(W) # 0
  <2>. HIDE DEF W
  <2>1. IsFiniteSet(W)
    BY <1>3, <1>9, FS_Subset
  <2>2. W # {}
    BY <1>9
  <2>. QED  BY <2>1, <2>2, FS_EmptySet
<1>. QED  BY <1>1, <1>2, <1>10 DEF StakeAt

LEMMA PoolIsFairlyPaid ==
    ASSUME TypeOK
    PROVE  PoolFairlyPaid
<1>. USE PositionsOfOrder
<1>. SUFFICES ASSUME NEW k \in Collectors, IsBlockFinalized(k), NEW pool \in Pools
              PROVE  /\ Total(DistributeVotingRewards(k, pool)) = pool
                     /\ \A i \in Participants(k) :
                          LET exact == pool * Stake(Order[i])
                              paid == DistributeVotingRewards(k, pool)[i] * StakeAt(Participants(k))
                          IN  /\ paid <= exact + StakeAt(Participants(k))
                              /\ exact < paid + StakeAt(Participants(k))
  BY DEF PoolFairlyPaid
<1>1. pool \in Nat
  BY PoolsAreNumbers
<1>2. PICK m \in Nat : m = Len(Order)
  OBVIOUS
<1>3. PICK S \in SUBSET (1 .. m) : S = Participants(k)
  BY <1>2, FinalHasParticipants
<1>4. PICK V \in Nat \ {0} : V = StakeAt(S)
  BY <1>3, FinalHasParticipants
<1>5. S \in SUBSET (DOMAIN Order)
  BY <1>2
<1>6. \A i \in S : Stake(Order[i]) \in Nat
  BY <1>5, StakeAtStep
<1> DEFINE s == [i \in S |-> Stake(Order[i])]
           a == [i \in S |-> (pool * s[i]) \div V]
<1>7. s \in [S -> Nat]
  BY <1>6
<1>8. ASSUME NEW i \in S
      PROVE  a[i] \in Nat /\ V * a[i] <= pool * s[i] /\ pool * s[i] < V * a[i] + V
  <2>1. PICK x \in Nat : x = pool * s[i]
    BY <1>1, <1>7
  <2>2. x \div V \in Nat /\ V * (x \div V) <= x /\ x < V * (x \div V) + V
    BY Rounding
  <2>. QED  BY <2>1, <2>2
<1>9. a \in [S -> Nat]
  BY <1>8
<1>10. Shares(k, pool) = a
  BY <1>3, <1>4 DEF Shares
<1>s. \A i \in S : s[i] = Stake(Order[i])
  OBVIOUS
<1>. HIDE DEF s, a
<1> DEFINE A == [n \in 0 .. m |-> TotalUpTo(a, n)]
           B == [n \in 0 .. m |-> StakeAt({j \in S : j <= n})]
           C == [n \in 0 .. m |-> CountUpTo(S, n)]
<1>0. 0 \in 0 .. m /\ m \in 0 .. m /\ \A n \in 1 .. m : n \in 0 .. m /\ n - 1 \in 0 .. m
  OBVIOUS
<1>11. /\ A \in [0 .. m -> Nat] /\ A[0] = 0 /\ A[m] = Total(a)
       /\ \A n \in 1 .. m : A[n] = A[n - 1] + (IF n \in S THEN a[n] ELSE 0)
  <2>1. /\ \A n \in 0 .. m : TotalUpTo(a, n) \in Nat
        /\ TotalUpTo(a, 0) = 0
        /\ TotalUpTo(a, m) = Total(a)
        /\ \A n \in 1 .. m : TotalUpTo(a, n) =
               TotalUpTo(a, n - 1) + (IF n \in S THEN a[n] ELSE 0)
    <3>. HIDE DEF A, B, C
    <3>. QED  BY <1>9, TotalFacts
  <2>. QED  BY <1>0, <2>1
<1>12. /\ B \in [0 .. m -> Nat] /\ B[0] = 0 /\ B[m] = V
       /\ \A n \in 1 .. m : B[n] = B[n - 1] + (IF n \in S THEN s[n] ELSE 0)
  <2>1. /\ \A n \in 0 .. m : StakeAt({j \in S : j <= n}) \in Nat
        /\ StakeAt({j \in S : j <= 0}) = 0
        /\ StakeAt({j \in S : j <= m}) = V
        /\ \A n \in 1 .. m : StakeAt({j \in S : j <= n}) =
                StakeAt({j \in S : j <= n - 1}) + (IF n \in S THEN Stake(Order[n]) ELSE 0)
    BY <1>2, <1>4, <1>5, StakeUpToFacts
  <2>. QED  BY <1>0, <1>s, <2>1
<1>13. /\ C \in [0 .. m -> Nat] /\ C[0] = 0
       /\ \A n \in 1 .. m : C[n] = C[n - 1] + (IF n \in S THEN 1 ELSE 0)
  <2>1. /\ \A n \in 0 .. m : CountUpTo(S, n) \in Nat
        /\ CountUpTo(S, 0) = 0
        /\ \A n \in 1 .. m : CountUpTo(S, n) = CountUpTo(S, n - 1) + (IF n \in S THEN 1 ELSE 0)
    <3>. HIDE DEF A, B, C
    <3>. QED  BY CountFacts
  <2>. QED  BY <1>0, <2>1
<1>c. \A n \in 0 .. m : C[n] = CountUpTo(S, n)
  OBVIOUS
<1>. HIDE DEF A, B, C
<1>14. A[m] <= pool /\ pool < A[m] + C[m]
  <2>1. RoundedDown(S, pool, V, s, a)
    BY <1>8 DEF RoundedDown
  <2>2. RunningSum(m, S, a, A)
    BY <1>11 DEF RunningSum
  <2>3. RunningSum(m, S, s, B) /\ B[m] = V
    BY <1>12 DEF RunningSum
  <2>4. RunningCount(m, S, C)
    BY <1>13 DEF RunningCount
  <2>. QED  BY <1>1, <1>7, <1>9, <2>1, <2>2, <2>3, <2>4, RoundedShares
<1>15. PICK rem \in Nat : rem = pool - A[m]
  BY <1>0, <1>1, <1>11, <1>14
<1>16. rem <= C[m]
  <2>1. PICK x, y \in Nat : x = A[m] /\ y = C[m]
    BY <1>0, <1>11, <1>13
  <2>. QED  BY <1>1, <1>14, <1>15, <2>1
<1> DEFINE r == [i \in S |-> a[i] + (IF C[i] <= rem THEN 1 ELSE 0)]
<1>17. DistributeVotingRewards(k, pool) = r
  <2>1. DOMAIN a = S
    BY <1>9
  <2>2. \A i \in S : Cardinality({j \in S : j <= i}) = C[i]
    BY <1>c DEF CountUpTo
  <2>3. pool - Total(Shares(k, pool)) = rem
    BY <1>10, <1>11, <1>15
  <2>. QED  BY <1>10, <2>1, <2>2, <2>3 DEF DistributeVotingRewards
<1>18. r \in [S -> Nat] /\ \A i \in S : r[i] = a[i] + (IF C[i] <= rem THEN 1 ELSE 0)
  BY <1>9
<1>. HIDE DEF r
<1> DEFINE R == [n \in 0 .. m |-> TotalUpTo(r, n)]
<1>19. /\ R \in [0 .. m -> Nat] /\ R[0] = 0 /\ R[m] = Total(r)
       /\ \A n \in 1 .. m : R[n] = R[n - 1] + (IF n \in S THEN r[n] ELSE 0)
  <2>1. /\ \A n \in 0 .. m : TotalUpTo(r, n) \in Nat
        /\ TotalUpTo(r, 0) = 0
        /\ TotalUpTo(r, m) = Total(r)
        /\ \A n \in 1 .. m : TotalUpTo(r, n) =
               TotalUpTo(r, n - 1) + (IF n \in S THEN r[n] ELSE 0)
    <3>. HIDE DEF R
    <3>. QED  BY <1>18, TotalFacts
  <2>. QED  BY <1>0, <2>1
<1>. HIDE DEF R
<1>20. R[m] = A[m] + rem
  <2>1. RunningSum(m, S, a, A)
    BY <1>11 DEF RunningSum
  <2>2. RunningCount(m, S, C)
    BY <1>13 DEF RunningCount
  <2>3. RunningSum(m, S, r, R)
    BY <1>19 DEF RunningSum
  <2>4. r \in [S -> Nat] /\ FirstGetOneMore(S, C, rem, a, r)
    BY <1>18 DEF FirstGetOneMore
  <2>. QED  BY <1>9, <1>16, <2>1, <2>2, <2>3, <2>4, RemainderIsPaid
<1>21. Total(r) = pool
  <2>1. A[m] \in Nat
    BY <1>0, <1>11
  <2>. QED  BY <1>1, <1>15, <1>19, <1>20, <2>1
<1>22. ASSUME NEW i \in S
       PROVE  /\ r[i] * V <= pool * s[i] + V
              /\ pool * s[i] < r[i] * V + V
  <2>1. PICK x, y, z \in Nat : x = a[i] /\ y = r[i] /\ z = s[i]
    BY <1>7, <1>9, <1>18
  <2>2. y = x \/ y = x + 1
    BY <1>18, <2>1
  <2>3. V * x <= pool * z /\ pool * z < V * x + V
    BY <1>8, <2>1
  <2>4. y * V <= pool * z + V /\ pool * z < y * V + V
    BY <1>1, <2>2, <2>3, OneUnitOff
  <2>. QED  BY <2>1, <2>4
<1>. QED  BY <1>3, <1>4, <1>17, <1>21, <1>22, <1>s

\* In every state that votes and slashing lead to, the rewards of the voters of a
\* final block add up to the pool exactly, and each is less than a unit below its
\* exact share and at most a unit above it, whatever the stakes, fees and inflation.
THEOREM RewardsAreFair == Spec => []PoolFairlyPaid
<1>1. Spec => []TypeOK
  BY VotesAreSound, PTL
<1>. QED  BY <1>1, PoolIsFairlyPaid, PTL

=============================================================================
