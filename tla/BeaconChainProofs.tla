------------------------- MODULE BeaconChainProofs -------------------------
(***************************************************************************)
(* Proofs about the beacon chain and the consensus of its shards, for any  *)
(* validators, scores, numbers of shards and epochs: registrations, epochs *)
(* and governance updates leave the past as it is and the present whole,   *)
(* every entry of the validator set is dealt one seat, and instances of    *)
(* one committee never fork, keep what they finalized and share no member. *)
(***************************************************************************)
EXTENDS ShardConsensus, FiniteSetTheorems, SequenceTheorems, TLAPS

\* Committees exist for the epochs up to the current one only.
EpochsReached ==
    /\ current_epoch \in Nat
    /\ \A key \in DOMAIN shard_committees : key[1] \in 0 .. current_epoch

\* rebuild_epoch of the current epoch or a later one.
LEMMA RebuildFacts ==
    ASSUME EpochsReached, NEW epoch \in Nat, epoch >= current_epoch,
           NEW vs, RebuildEpoch(epoch, vs)
    PROVE  /\ EpochsReached'
           /\ \A key \in DOMAIN shard_committees : key[1] < current_epoch =>
                  /\ key \in DOMAIN shard_committees'
                  /\ shard_committees'[key] = shard_committees[key]
           /\ ChangedRoots = {}
           /\ \A s \in 0 .. (shard_count' - 1) :
                  /\ <<current_epoch', s>> \in DOMAIN shard_committees'
                  /\ <<current_epoch', s>> \in DOMAIN shard_state_roots'
<1> DEFINE kept == {key \in DOMAIN shard_committees : key[1] # epoch}
           C(key) == Committee(epoch, shard_count, vs, key[2])
<1>1. /\ current_epoch' = epoch
      /\ shard_count' = shard_count
      /\ shard_committees' =
             [key \in kept \cup KeysOf(epoch) |->
                 IF key \in kept THEN shard_committees[key] ELSE C(key)]
      /\ shard_state_roots' =
             [key \in DOMAIN shard_state_roots \cup KeysOf(epoch) |->
                 IF key \in DOMAIN shard_state_roots
                 THEN shard_state_roots[key] ELSE EmptyRoot]
  BY DEF RebuildEpoch, ReplaceCommittees, InitializeStateRoots
<1> HIDE DEF C
<1>2. ASSUME NEW key \in DOMAIN shard_committees'
      PROVE  key[1] \in 0 .. epoch
  <2>1. CASE key \in kept
    BY <2>1 DEF EpochsReached
  <2>2. CASE key \in KeysOf(epoch)
    BY <2>2 DEF KeysOf
  <2>3. QED
    BY <1>1, <2>1, <2>2
<1>3. ASSUME NEW key \in DOMAIN shard_committees, key[1] < current_epoch
      PROVE  /\ key \in DOMAIN shard_committees'
             /\ shard_committees'[key] = shard_committees[key]
  <2>1. key[1] # epoch
    BY <1>3 DEF EpochsReached
  <2>2. key \in kept
    BY <2>1
  <2>3. QED
    BY <1>1, <2>2
<1>4. ChangedRoots = {}
  BY <1>1 DEF ChangedRoots
<1>5. ASSUME NEW s \in 0 .. (shard_count' - 1)
      PROVE  /\ <<current_epoch', s>> \in DOMAIN shard_committees'
             /\ <<current_epoch', s>> \in DOMAIN shard_state_roots'
  <2>1. <<epoch, s>> \in KeysOf(epoch)
    BY <1>1 DEF KeysOf
  <2>2. QED
    BY <1>1, <2>1
<1>6. EpochsReached'
  BY <1>1, <1>2 DEF EpochsReached
<1>7. QED
  BY <1>3, <1>4, <1>5, <1>6

\* store_shard_state_root changes the root of one epoch and shard.
LEMMA StoreFacts ==
    ASSUME NEW epoch, NEW shard, NEW root, StoreShardStateRoot(epoch, shard, root)
    PROVE  /\ IsFiniteSet(ChangedRoots)
           /\ Cardinality(ChangedRoots) <= 1
           /\ ChangedRoots \subseteq DOMAIN shard_state_roots'
<1>1. /\ DOMAIN shard_state_roots' =
             DOMAIN shard_state_roots \cup {<<epoch, shard>>}
      /\ \A key \in DOMAIN shard_state_roots :
             key # <<epoch, shard>> => shard_state_roots'[key] = shard_state_roots[key]
  BY DEF StoreShardStateRoot
<1>2. ChangedRoots \subseteq {<<epoch, shard>>}
  BY <1>1 DEF ChangedRoots
<1>3. IsFiniteSet({<<epoch, shard>>}) /\ Cardinality({<<epoch, shard>>}) = 1
  BY FS_Singleton
<1>4. /\ IsFiniteSet(ChangedRoots)
      /\ Cardinality(ChangedRoots) <= Cardinality({<<epoch, shard>>})
  BY <1>2, <1>3, FS_Subset
<1>5. ChangedRoots \subseteq DOMAIN shard_state_roots'
  BY <1>1, <1>2
<1>6. QED
  BY <1>3, <1>4, <1>5, FS_CardinalityType

ExactStep == PastCommitteesKept /\ RootsChangeAlone /\ PresentIsWhole

LEMMA StepIsExact ==
    ASSUME EpochsReached, Next
    PROVE  EpochsReached' /\ ExactStep
<1>1. ASSUME NEW epoch \in Nat, epoch >= current_epoch, NEW vs, RebuildEpoch(epoch, vs)
      PROVE  EpochsReached' /\ ExactStep
  <2>1. IsFiniteSet({}) /\ Cardinality({}) = 0
    BY FS_EmptySet
  <2>2. /\ EpochsReached'
        /\ \A key \in DOMAIN shard_committees : key[1] < current_epoch =>
               /\ key \in DOMAIN shard_committees'
               /\ shard_committees'[key] = shard_committees[key]
        /\ ChangedRoots = {}
        /\ \A s \in 0 .. (shard_count' - 1) :
               /\ <<current_epoch', s>> \in DOMAIN shard_committees'
               /\ <<current_epoch', s>> \in DOMAIN shard_state_roots'
    BY <1>1, RebuildFacts
  <2>3. RootsChangeAlone
    BY <2>1, <2>2 DEF RootsChangeAlone
  <2>4. QED
    BY <2>2, <2>3 DEF ExactStep, PastCommitteesKept, PresentIsWhole
<1>2. current_epoch \in Nat /\ current_epoch + 1 \in Nat
  BY DEF EpochsReached
<1>3. ASSUME NEW v \in Registrations, RegisterValidator(v)
      PROVE  EpochsReached' /\ ExactStep
  BY <1>1, <1>2, <1>3 DEF RegisterValidator
<1>4. ASSUME NEW vs \in Replacements, ReplaceValidators(vs)
      PROVE  EpochsReached' /\ ExactStep
  BY <1>1, <1>2, <1>4 DEF ReplaceValidators
<1>5. CASE AdvanceEpoch
  BY <1>1, <1>2, <1>5 DEF AdvanceEpoch
<1>6. ASSUME NEW n \in Proposals, ApplyGovernanceUpdate(n)
      PROVE  EpochsReached' /\ ExactStep
  BY <1>6 DEF ApplyGovernanceUpdate, EpochsReached, ExactStep,
     PastCommitteesKept, RootsChangeAlone, PresentIsWhole
<1>7. ASSUME NEW epoch \in Epochs, NEW shard \in 0 .. MaxShard,
             NEW root \in Roots \cup BadRoots, StoreShardStateRoot(epoch, shard, root)
      PROVE  EpochsReached' /\ ExactStep
  <2>1. UNCHANGED <<shard_count, validators, current_epoch, shard_committees>>
    BY <1>7 DEF StoreShardStateRoot
  <2>2. Cardinality(ChangedRoots) <= 1 /\ ChangedRoots \subseteq DOMAIN shard_state_roots'
    BY <1>7, StoreFacts
  <2>3. QED
    BY <2>1, <2>2 DEF EpochsReached, ExactStep, PastCommitteesKept,
       RootsChangeAlone, PresentIsWhole
<1>8. QED
  BY <1>3, <1>4, <1>5, <1>6, <1>7 DEF Next

\* Through registrations, replacements, epochs and governance updates in any order:
\* the committees of past epochs never change, a step stores the root of one epoch
\* and shard at most and loses none, and register_validator, replace_validators and
\* advance_epoch leave every shard of the current epoch a committee and a state root.
THEOREM PastIsKeptAndPresentIsWhole == Spec => RebuildIsExact
<1>1. Init => EpochsReached
  <2> SUFFICES ASSUME Init PROVE EpochsReached
    OBVIOUS
  <2>1. /\ current_epoch = 0
        /\ DOMAIN shard_committees = {0} \X (0 .. (InitialCount - 1))
    BY DEF Init
  <2>2. QED
    BY <2>1 DEF EpochsReached
<1>2. EpochsReached /\ [Next]_vars => EpochsReached'
  BY StepIsExact DEF EpochsReached, vars
<1>3. EpochsReached /\ [Next]_vars => [ExactStep]_vars
  BY StepIsExact
<1>4. Spec => [][ExactStep]_vars
  BY <1>1, <1>2, <1>3, PTL DEF Spec
<1>5. QED
  BY <1>4 DEF RebuildIsExact, ExactStep


(***************************************************************************)
(* Sorting by rank.                                                        *)
(***************************************************************************)

StrictOrder(S, R) ==
    /\ \A i \in S : <<i, i>> \notin R
    /\ \A i, j, k \in S : <<i, j>> \in R /\ <<j, k>> \in R => <<i, k>> \in R
    /\ \A i, j \in S : i = j \/ <<i, j>> \in R \/ <<j, i>> \in R

\* A sequence that holds every element of S once.
Enumerates(order, S) ==
    /\ order \in [1 .. Cardinality(S) -> S]
    /\ \A n, m \in 1 .. Cardinality(S) : order[n] = order[m] => n = m
    /\ \A i \in S : \E n \in 1 .. Cardinality(S) : order[n] = i

LEMMA IntervalSize ==
    ASSUME NEW n \in Nat
    PROVE  /\ IsFiniteSet(0 .. (n - 1)) /\ Cardinality(0 .. (n - 1)) = n
           /\ IsFiniteSet(1 .. n) /\ Cardinality(1 .. n) = n
<1>1. n - 1 \in Int /\ 0 \in Int /\ 1 \in Int
  OBVIOUS
<1>2. PICK m \in Int : m = n - 1
  BY <1>1
<1>3. IsFiniteSet(0 .. m) /\ IsFiniteSet(1 .. n)
  BY <1>1, FS_Interval
<1>4. CASE n = 0
  <2>1. 0 > m /\ 1 > n
    BY <1>2, <1>4
  <2>2. Cardinality(0 .. m) = 0 /\ Cardinality(1 .. n) = 0
    BY <1>1, <2>1, FS_Interval
  <2>. QED  BY <1>2, <1>3, <1>4, <2>2
<1>5. CASE n # 0
  <2>1. ~(0 > m) /\ ~(1 > n)
    BY <1>2, <1>5
  <2>2. Cardinality(0 .. m) = m - 0 + 1 /\ Cardinality(1 .. n) = n - 1 + 1
    BY <1>1, <2>1, FS_Interval
  <2>. QED  BY <1>2, <1>3, <2>2
<1>. QED  BY <1>4, <1>5

LEMMA SortedByRank ==
    ASSUME NEW S, IsFiniteSet(S), NEW R, StrictOrder(S, R)
    PROVE  Enumerates(InOrder(S, R), S)
<1> DEFINE B(i) == {j \in S : <<j, i>> \in R}
           N == Cardinality(S)
           rank == [i \in S |-> Cardinality(B(i))]
<1>1. N \in Nat
  BY FS_CardinalityType
<1>2. \A i : B(i) \in SUBSET S
  OBVIOUS
<1>3. \A i : IsFiniteSet(B(i)) /\ Cardinality(B(i)) \in Nat
  <2>. HIDE DEF B
  <2>. QED  BY <1>2, FS_Subset, FS_CardinalityType
<1>4. \A i \in S : i \notin B(i)
  BY DEF StrictOrder
<1>5. \A i, j \in S : <<i, j>> \in R => B(i) \cup {i} \in SUBSET B(j)
  BY DEF StrictOrder
<1>6. \A i \in S : rank[i] \in 0 .. (N - 1)
  <2>. TAKE i \in S
  <2>1. B(i) # S
    BY <1>4
  <2>2. PICK b \in Nat : b = Cardinality(B(i))
    BY <1>3
  <2>3. b <= N /\ b # N
    <3>. HIDE DEF B
    <3>. QED  BY <1>2, <2>1, <2>2, FS_Subset
  <2>4. rank[i] = b
    BY <2>2
  <2>. QED  BY <1>1, <2>2, <2>3, <2>4
<1>7. \A i, j \in S : <<i, j>> \in R => rank[i] < rank[j]
  <2>. SUFFICES ASSUME NEW i \in S, NEW j \in S, <<i, j>> \in R PROVE rank[i] < rank[j]
    OBVIOUS
  <2>1. B(i) \cup {i} \in SUBSET B(j) /\ i \notin B(i)
    BY <1>4, <1>5
  <2>2. Cardinality(B(i)) < Cardinality(B(j))
    <3>. HIDE DEF B
    <3>1. Cardinality(B(i) \cup {i}) = Cardinality(B(i)) + 1
      BY <1>3, <2>1, FS_AddElement
    <3>2. Cardinality(B(i) \cup {i}) <= Cardinality(B(j))
      BY <1>3, <2>1, FS_Subset
    <3>. QED  BY <1>3, <3>1, <3>2
  <2>. QED  BY <2>2
<1>8. \A i, j \in S : rank[i] = rank[j] => i = j
  <2>. SUFFICES ASSUME NEW i \in S, NEW j \in S, rank[i] = rank[j], i # j PROVE FALSE
    OBVIOUS
  <2>1. <<i, j>> \in R \/ <<j, i>> \in R
    BY DEF StrictOrder
  <2>2. rank[i] < rank[j] \/ rank[j] < rank[i]
    BY <1>7, <2>1
  <2>3. rank[i] \in Nat /\ rank[j] \in Nat
    BY <1>3
  <2>. QED  BY <2>2, <2>3
<1>9. \A n \in 0 .. (N - 1) : \E i \in S : rank[i] = n
  <2>1. rank \in [S -> 0 .. (N - 1)]
    BY <1>6
  <2>2. rank \in Injection(S, 0 .. (N - 1))
    <3>. HIDE DEF rank, N
    <3>. QED  BY <1>8, <2>1 DEF Injection, IsInjective
  <2>3. IsFiniteSet(0 .. (N - 1)) /\ Cardinality(0 .. (N - 1)) = Cardinality(S)
    <3>. HIDE DEF N
    <3>1. IsFiniteSet(0 .. (N - 1)) /\ Cardinality(0 .. (N - 1)) = N
      BY <1>1, IntervalSize
    <3>. QED  BY <3>1 DEF N
  <2>4. rank \in Surjection(S, 0 .. (N - 1))
    <3>. HIDE DEF rank, N
    <3>. QED  BY <2>2, <2>3, FS_Injection
  <2>. HIDE DEF rank, N
  <2>. QED  BY <2>4 DEF Surjection
<1> DEFINE order == InOrder(S, R)
<1>10. ASSUME NEW n \in 1 .. N
       PROVE  order[n] \in S /\ rank[order[n]] = n - 1
  <2>1. n - 1 \in 0 .. (N - 1)
    BY <1>1
  <2>2. \E i \in S : Cardinality({j \in S : <<j, i>> \in R}) = n - 1
    BY <1>9, <2>1
  <2>3. order[n] = CHOOSE i \in S : Cardinality({j \in S : <<j, i>> \in R}) = n - 1
    BY DEF InOrder
  <2>4. order[n] \in S /\ Cardinality({j \in S : <<j, order[n]>> \in R}) = n - 1
    <3>. HIDE DEF order
    <3>. QED  BY <2>2, <2>3
  <2>. HIDE DEF order
  <2>. QED  BY <2>4
<1>11. order \in [1 .. N -> S]
  <2>1. order = [n \in 1 .. N |->
                    CHOOSE i \in S : Cardinality({j \in S : <<j, i>> \in R}) = n - 1]
    BY DEF InOrder
  <2>. HIDE DEF order, N
  <2>. QED  BY <1>10, <2>1
<1>. HIDE DEF order, rank
<1>12. \A n, m \in 1 .. N : order[n] = order[m] => n = m
  BY <1>1, <1>10
<1>13. \A i \in S : \E n \in 1 .. N : order[n] = i
  <2>. TAKE i \in S
  <2>1. PICK r \in 0 .. (N - 1) : r = rank[i]
    BY <1>6
  <2>2. r + 1 \in 1 .. N /\ (r + 1) - 1 = r
    BY <1>1
  <2>3. order[r + 1] \in S /\ rank[order[r + 1]] = r
    BY <1>10, <2>2
  <2>4. order[r + 1] = i
    BY <1>8, <2>1, <2>3
  <2>. QED  BY <2>2, <2>4
<1>. QED  BY <1>11, <1>12, <1>13 DEF Enumerates, order

LEMMA MakeSeq ==
    ASSUME NEW n \in Nat, NEW S, NEW f \in [1 .. n -> S]
    PROVE  f \in Seq(S) /\ Len(f) = n /\ DOMAIN f = 1 .. n
<1>1. f \in Seq(S)
  BY SeqDef
<1>2. Len(f) \in Nat /\ DOMAIN f = 1 .. Len(f) /\ DOMAIN f = 1 .. n
  BY <1>1, LenProperties
<1>3. Len(f) = n
  <2>1. PICK m \in Nat : m = Len(f)
    BY <1>2
  <2>2. Cardinality(1 .. m) = m /\ Cardinality(1 .. n) = n
    BY <2>1, IntervalSize
  <2>. QED  BY <1>2, <2>1, <2>2
<1>. QED  BY <1>1, <1>2, <1>3

LEMMA ValidatorFacts ==
    ASSUME NEW vs \in Seq(Validators)
    PROVE  /\ Len(vs) \in Nat /\ DOMAIN vs = 1 .. Len(vs)
           /\ IsFiniteSet(DOMAIN vs) /\ Cardinality(DOMAIN vs) = Len(vs)
           /\ \A i \in DOMAIN vs : /\ vs[i] \in Validators
                                   /\ i \in Nat
                                   /\ vs[i].address \in Addresses /\ vs[i].address \in Nat
                                   /\ vs[i].stake \in Stakes /\ vs[i].stake \in Nat
<1>1. Len(vs) \in Nat /\ DOMAIN vs = 1 .. Len(vs)
  BY LenProperties
<1>2. \A i \in DOMAIN vs : vs[i] \in Validators /\ i \in Nat
  BY <1>1, ElementOfSeq
<1>3. \A v \in Validators : /\ v.address \in Addresses /\ v.address \in Nat
                            /\ v.stake \in Stakes /\ v.stake \in Nat
  BY BeaconAssumption DEF Validators
<1>4. PICK n \in Nat : n = Len(vs)
  BY <1>1
<1>5. IsFiniteSet(1 .. n) /\ Cardinality(1 .. n) = n
  BY IntervalSize
<1>. QED  BY <1>1, <1>2, <1>3, <1>4, <1>5

\* sort_validators permutes the vector.
LEMMA SortPermutes ==
    ASSUME NEW vs \in Seq(Validators)
    PROVE  /\ SortValidators(vs) \in Seq(Validators)
           /\ Len(SortValidators(vs)) = Len(vs)
           /\ \A n \in DOMAIN SortValidators(vs) :
                  \E i \in DOMAIN vs : SortValidators(vs)[n] = vs[i]
<1>. USE ValidatorFacts
<1> DEFINE S == DOMAIN vs
           Before(i, j) ==
               \/ vs[i].address < vs[j].address
               \/ /\ vs[i].address = vs[j].address
                  /\ vs[i].stake < vs[j].stake \/ (vs[i].stake = vs[j].stake /\ i < j)
           R == {p \in S \X S : Before(p[1], p[2])}
           order == InOrder(S, R)
           sorted == [n \in 1 .. Len(vs) |-> vs[order[n]]]
<1>1. \A i, j \in S : <<i, j>> \in R <=> Before(i, j)
  OBVIOUS
<1>2. \A i \in S : ~Before(i, i)
  OBVIOUS
<1>3. \A i, j, k \in S : Before(i, j) /\ Before(j, k) => Before(i, k)
  OBVIOUS
<1>4. \A i, j \in S : i = j \/ Before(i, j) \/ Before(j, i)
  OBVIOUS
<1>5. StrictOrder(S, R)
  <2>. HIDE DEF R, Before, S
  <2>. QED  BY <1>1, <1>2, <1>3, <1>4 DEF StrictOrder
<1>6. Enumerates(order, S)
  <2>. HIDE DEF R
  <2>. QED  BY <1>5, SortedByRank
<1>7. SortValidators(vs) = sorted
  BY DEF SortValidators
<1>8. \A n \in 1 .. Len(vs) : order[n] \in S
  <2>. HIDE DEF order
  <2>. QED  BY <1>6 DEF Enumerates
<1>9. sorted \in [1 .. Len(vs) -> Validators]
  <2>. HIDE DEF order
  <2>. QED  BY <1>8
<1>10. PICK n \in Nat : n = Len(vs)
  OBVIOUS
<1>11. sorted \in Seq(Validators) /\ Len(sorted) = Len(vs) /\ DOMAIN sorted = 1 .. Len(vs)
  <2>. HIDE DEF sorted
  <2>. QED  BY <1>9, <1>10, MakeSeq
<1>12. \A m \in 1 .. Len(vs) : \E i \in S : sorted[m] = vs[i]
  <2>. HIDE DEF order
  <2>. QED  BY <1>8
<1>. HIDE DEF sorted
<1>. QED  BY <1>7, <1>11, <1>12

(***************************************************************************)
(* Dealing the validators out.                                             *)
(***************************************************************************)

LEMMA ShuffledFacts ==
    ASSUME NEW epoch \in Epochs, NEW vs \in Seq(Validators)
    PROVE  /\ ActiveOf(vs) \in SUBSET (DOMAIN vs)
           /\ IsFiniteSet(ActiveOf(vs))
           /\ Cardinality(ActiveOf(vs)) \in 0 .. Len(vs)
           /\ Enumerates(Shuffled(epoch, vs), ActiveOf(vs))
<1>. USE ValidatorFacts
<1> DEFINE S == ActiveOf(vs)
           score(i) == Score[epoch][vs[i].address]
           Before(i, j) ==
               \/ score(i) < score(j)
               \/ /\ score(i) = score(j)
                  /\ \/ vs[i].address < vs[j].address
                     \/ vs[i].address = vs[j].address /\ i < j
           R == {p \in S \X S : Before(p[1], p[2])}
<1>1. S \in SUBSET (DOMAIN vs)
  BY DEF ActiveOf
<1>2. IsFiniteSet(S) /\ Cardinality(S) <= Len(vs) /\ Cardinality(S) \in Nat
  <2>. HIDE DEF S
  <2>. QED  BY <1>1, FS_Subset, FS_CardinalityType
<1>s. \A i \in S : i \in Nat /\ vs[i].address \in Nat /\ score(i) \in Nat
  <2>. TAKE i \in S
  <2>1. i \in Nat /\ vs[i].address \in Nat /\ vs[i].address \in Addresses
    BY <1>1
  <2>2. \A a \in Addresses : Score[epoch][a] \in Nat
    BY BeaconAssumption
  <2>. QED  BY <2>1, <2>2
<1>. HIDE DEF S, score
<1>3. \A i, j \in S : <<i, j>> \in R <=> Before(i, j)
  OBVIOUS
<1>4. \A i \in S : ~Before(i, i)
  BY <1>s
<1>5. \A i, j, k \in S : Before(i, j) /\ Before(j, k) => Before(i, k)
  BY <1>s
<1>6. \A i, j \in S : i = j \/ Before(i, j) \/ Before(j, i)
  BY <1>s
<1>7. StrictOrder(S, R)
  <2>. HIDE DEF R, Before
  <2>. QED  BY <1>3, <1>4, <1>5, <1>6 DEF StrictOrder
<1>8. Enumerates(InOrder(S, R), S)
  <2>. HIDE DEF R
  <2>. QED  BY <1>2, <1>7, SortedByRank
<1>9. Shuffled(epoch, vs) = InOrder(S, R)
  BY DEF Shuffled, S, score
<1>10. Cardinality(S) \in 0 .. Len(vs)
  <2>1. PICK x, y \in Nat : x = Cardinality(S) /\ y = Len(vs)
    BY <1>2
  <2>. QED  BY <1>2, <2>1
<1>. QED  BY <1>1, <1>2, <1>8, <1>9, <1>10 DEF S

\* Division with remainder: index p is at place k of shard s.
LEMMA Rounding ==
    ASSUME NEW x \in Nat, NEW n \in Nat \ {0}
    PROVE  /\ x \div n \in Nat
           /\ n * (x \div n) <= x
           /\ x < n * (x \div n) + n
  OBVIOUS

LEMMA Spread ==
    ASSUME NEW c \in Int, NEW x \in Int, NEW y \in Int
    PROVE  c * (x + y) = c * x + c * y
  OBVIOUS

\* Multiples of n that are less than n apart are equal.
LEMMA SameQuotient ==
    ASSUME NEW n \in Nat \ {0}, NEW x \in Int, NEW y \in Int, n * x < n * y + n
    PROVE  x <= y
<1>. SUFFICES ASSUME y + 1 <= x PROVE FALSE
  OBVIOUS
<1>1. n * (y + 1) <= n * x
  OBVIOUS
<1>2. n * (y + 1) = n * y + n * 1
  BY Spread
<1>. QED  BY <1>1, <1>2

\* The index in the shuffled order of the validator in place k of shard s.
Index(n, s, k) == (k - 1) * n + s + 1

Size(N, n, s) == (N + n - 1 - s) \div n

LEMMA SizeFacts ==
    ASSUME NEW N \in Nat, NEW n \in Nat \ {0}, NEW s \in 0 .. (n - 1)
    PROVE  /\ Size(N, n, s) \in Nat
           /\ \A k \in Nat \ {0} : k <= Size(N, n, s) <=> Index(n, s, k) <= N
           /\ \A k \in Nat \ {0} : Index(n, s, k) \in Nat \ {0}
<1>1. PICK x \in Nat : x = N + n - 1 - s
  OBVIOUS
<1>2. PICK q \in Nat : q = Size(N, n, s)
  BY <1>1, Rounding DEF Size
<1>3. n * q <= x /\ x < n * q + n
  BY <1>1, <1>2, Rounding DEF Size
<1>4. ASSUME NEW k \in Nat \ {0}
      PROVE  (k <= q <=> Index(n, s, k) <= N) /\ Index(n, s, k) \in Nat \ {0}
  <2>1. (k - 1) * n \in Nat
    OBVIOUS
  <2>2. PICK y \in Nat : y = (k - 1) * n
    BY <2>1
  <2>3. n * k = y + n
    <3>1. n * ((k - 1) + 1) = n * (k - 1) + n * 1
      BY Spread
    <3>2. (k - 1) + 1 = k /\ n * (k - 1) = (k - 1) * n /\ n * 1 = n
      OBVIOUS
    <3>. QED  BY <2>2, <3>1, <3>2
  <2>4. Index(n, s, k) = y + s + 1
    BY <2>2 DEF Index
  <2>5. ASSUME k <= q PROVE y + s + 1 <= N
    <3>1. n * k <= n * q
      BY <2>5
    <3>2. PICK z \in Nat : z = n * q
      OBVIOUS
    <3>. QED  BY <1>1, <1>3, <2>3, <3>1, <3>2
  <2>6. ASSUME y + s + 1 <= N PROVE k <= q
    <3>1. PICK z \in Nat : z = n * q
      OBVIOUS
    <3>2. n * k < z + n
      BY <1>1, <1>3, <2>3, <2>6, <3>1
    <3>. QED  BY <3>1, <3>2, SameQuotient
  <2>. QED  BY <2>2, <2>4, <2>5, <2>6
<1>. QED  BY <1>2, <1>4

LEMMA IndexIsUnique ==
    ASSUME NEW n \in Nat \ {0}, NEW s \in 0 .. (n - 1), NEW r \in 0 .. (n - 1),
           NEW k \in Nat \ {0}, NEW l \in Nat \ {0}, Index(n, s, k) = Index(n, r, l)
    PROVE  s = r /\ k = l
<1>1. n * k = (k - 1) * n + n /\ n * l = (l - 1) * n + n
  <2>1. n * ((k - 1) + 1) = n * (k - 1) + n * 1 /\ n * ((l - 1) + 1) = n * (l - 1) + n * 1
    BY Spread
  <2>2. (k - 1) + 1 = k /\ n * (k - 1) = (k - 1) * n /\ n * 1 = n
        /\ (l - 1) + 1 = l /\ n * (l - 1) = (l - 1) * n
    OBVIOUS
  <2>. QED  BY <2>1, <2>2
<1>2. PICK x, y \in Nat : x = (k - 1) * n /\ y = (l - 1) * n
  OBVIOUS
<1>3. x + s + 1 = y + r + 1
  BY <1>2 DEF Index
<1>4. n * k < n * l + n /\ n * l < n * k + n
  BY <1>1, <1>2, <1>3
<1>5. k <= l /\ l <= k
  BY <1>4, SameQuotient
<1>6. k = l
  BY <1>5
<1>. QED  BY <1>2, <1>3, <1>6

LEMMA IndexExists ==
    ASSUME NEW n \in Nat \ {0}, NEW p \in Nat \ {0}
    PROVE  \E s \in 0 .. (n - 1), k \in Nat \ {0} : Index(n, s, k) = p /\ k <= p
<1>1. PICK x \in Nat : x = p - 1
  OBVIOUS
<1>2. PICK q \in Nat : q = x \div n
  BY Rounding
<1>3. n * q <= x /\ x < n * q + n
  BY <1>2, Rounding
<1>4. PICK y \in Nat : y = n * q
  OBVIOUS
<1>5. x - y \in 0 .. (n - 1)
  BY <1>3, <1>4
<1>6. q + 1 \in Nat \ {0} /\ ((q + 1) - 1) * n = n * q
  OBVIOUS
<1>7. Index(n, x - y, q + 1) = p
  BY <1>1, <1>4, <1>6 DEF Index
<1>8. q <= x
  <2>1. 1 * q <= n * q
    OBVIOUS
  <2>. QED  BY <1>3, <1>4, <2>1
<1>9. q + 1 <= p
  BY <1>1, <1>8
<1>. QED  BY <1>5, <1>6, <1>7, <1>9

LEMMA SizesBalanced ==
    ASSUME NEW N \in Nat, NEW n \in Nat \ {0}, NEW s \in 0 .. (n - 1), NEW r \in 0 .. (n - 1)
    PROVE  Size(N, n, s) <= Size(N, n, r) + 1
<1>1. PICK x, y \in Nat : x = N + n - 1 - s /\ y = N + n - 1 - r
  OBVIOUS
<1>2. PICK p, q \in Nat : p = x \div n /\ q = y \div n
  BY Rounding
<1>3. n * p <= x /\ y < n * q + n
  BY <1>2, Rounding
<1>4. n * (q + 1) = n * q + n * 1
  BY Spread
<1>5. PICK u, v \in Nat : u = n * p /\ v = n * q
  OBVIOUS
<1>6. u < v + n + n
  BY <1>1, <1>3, <1>5
<1>7. n * p < n * (q + 1) + n
  BY <1>4, <1>5, <1>6
<1>8. p <= q + 1
  BY <1>7, SameQuotient
<1>. QED  BY <1>1, <1>2, <1>8 DEF Size

LEMMA CommitteeFacts ==
    ASSUME NEW epoch \in Epochs, NEW vs \in Seq(Validators), NEW n \in Nat \ {0},
           NEW s \in 0 .. (n - 1)
    PROVE  LET N == Cardinality(ActiveOf(vs))
               committee == Committee(epoch, n, vs, s)
           IN  /\ committee \in Seq(Addresses)
               /\ Len(committee) = Size(N, n, s)
               /\ DOMAIN committee = 1 .. Size(N, n, s)
               /\ \A k \in DOMAIN committee :
                      /\ k \in Nat \ {0} /\ k <= Len(vs)
                      /\ Index(n, s, k) \in 1 .. N
                      /\ committee[k] = vs[Shuffled(epoch, vs)[Index(n, s, k)]].address
<1>. USE ValidatorFacts
<1>1. PICK N \in Nat : N = Cardinality(ActiveOf(vs)) /\ N <= Len(vs)
  <2>1. Cardinality(ActiveOf(vs)) \in 0 .. Len(vs)
    BY ShuffledFacts
  <2>. QED  BY <2>1
<1>2. PICK order : order = Shuffled(epoch, vs)
  OBVIOUS
<1>3. \A p \in 1 .. N : order[p] \in DOMAIN vs
  BY <1>1, <1>2, ShuffledFacts DEF Enumerates
<1>4. PICK z \in Nat : z = Size(N, n, s)
  BY SizeFacts
<1> DEFINE committee == Committee(epoch, n, vs, s)
<1>5. committee = [k \in 1 .. z |-> vs[order[Index(n, s, k)]].address]
  BY <1>1, <1>2, <1>4 DEF Committee, Size, Index
<1>. HIDE DEF committee
<1>6. ASSUME NEW k \in 1 .. z
      PROVE  k \in Nat \ {0} /\ k <= Len(vs) /\ Index(n, s, k) \in 1 .. N
  <2>1. k \in Nat \ {0} /\ k <= z
    OBVIOUS
  <2>2. Index(n, s, k) <= N /\ Index(n, s, k) \in Nat \ {0}
    BY <1>4, <2>1, SizeFacts
  <2>3. k <= Index(n, s, k)
    <3>1. (k - 1) * 1 <= (k - 1) * n
      BY <2>1
    <3>2. PICK y \in Nat : y = (k - 1) * n
      BY <2>1
    <3>. QED  BY <2>1, <3>1, <3>2 DEF Index
  <2>4. PICK x \in Nat : x = Index(n, s, k)
    BY <2>2
  <2>5. PICK len \in Nat : len = Len(vs)
    OBVIOUS
  <2>. QED  BY <1>1, <2>1, <2>2, <2>3, <2>4, <2>5
<1>7. \A k \in 1 .. z : vs[order[Index(n, s, k)]].address \in Addresses
  BY <1>3, <1>6
<1>8. committee \in [1 .. z -> Addresses]
  BY <1>5, <1>7
<1>9. committee \in Seq(Addresses) /\ Len(committee) = z /\ DOMAIN committee = 1 .. z
  BY <1>8, MakeSeq
<1>10. \A k \in DOMAIN committee : committee[k] = vs[order[Index(n, s, k)]].address
  BY <1>5, <1>9
<1>. QED  BY <1>1, <1>2, <1>4, <1>6, <1>9, <1>10 DEF committee

\* The committees of epoch e are those of validators vs dealt to n shards.
Dealt(e, n, vs) ==
    /\ ShardsOf(e) = 0 .. (n - 1)
    /\ \A s \in 0 .. (n - 1) : shard_committees[<<e, s>>] = Committee(e, n, vs, s)

LEMMA SeatsOfEntries ==
    ASSUME NEW e \in Epochs, validators \in Seq(Validators), NEW n \in Nat \ {0},
           Dealt(e, n, validators), NEW a
    PROVE  Cardinality(Seats(e, a)) =
               Cardinality({i \in ActiveOf(validators) : validators[i].address = a})
<1>1. PICK vs \in Seq(Validators) : vs = validators
  OBVIOUS
<1>2. PICK N \in Nat : N = Cardinality(ActiveOf(vs))
  <2>1. Cardinality(ActiveOf(vs)) \in 0 .. Len(vs)
    BY ShuffledFacts
  <2>2. Len(vs) \in Nat
    BY ValidatorFacts
  <2>. QED  BY <2>1, <2>2
<1>3. PICK order : order = Shuffled(e, vs)
  OBVIOUS
<1>4. /\ order \in [1 .. N -> ActiveOf(vs)]
      /\ \A p, q \in 1 .. N : order[p] = order[q] => p = q
      /\ \A i \in ActiveOf(vs) : \E p \in 1 .. N : order[p] = i
  <2>1. Enumerates(order, ActiveOf(vs))
    BY <1>3, ShuffledFacts
  <2>. QED  BY <1>2, <2>1 DEF Enumerates
<1>c. ASSUME NEW s \in 0 .. (n - 1)
      PROVE  /\ shard_committees[<<e, s>>] = Committee(e, n, vs, s)
             /\ DOMAIN Committee(e, n, vs, s) = 1 .. Size(N, n, s)
             /\ \A k \in DOMAIN Committee(e, n, vs, s) :
                    /\ k \in Nat \ {0} /\ k <= Len(vs)
                    /\ Index(n, s, k) \in 1 .. N
                    /\ Committee(e, n, vs, s)[k] = vs[order[Index(n, s, k)]].address
  <2>1. shard_committees[<<e, s>>] = Committee(e, n, vs, s)
    BY <1>1 DEF Dealt
  <2>2. /\ DOMAIN Committee(e, n, vs, s) = 1 .. Size(Cardinality(ActiveOf(vs)), n, s)
        /\ \A k \in DOMAIN Committee(e, n, vs, s) :
               /\ k \in Nat \ {0} /\ k <= Len(vs)
               /\ Index(n, s, k) \in 1 .. Cardinality(ActiveOf(vs))
               /\ Committee(e, n, vs, s)[k] = vs[Shuffled(e, vs)[Index(n, s, k)]].address
    BY CommitteeFacts
  <2>. QED  BY <1>2, <1>3, <2>1, <2>2
<1> DEFINE T == {i \in ActiveOf(vs) : vs[i].address = a}
           Q == Seats(e, a)
           f == [seat \in Q |-> order[Index(n, seat[1], seat[2])]]
<1>5. ASSUME NEW seat \in Q
      PROVE  /\ seat = <<seat[1], seat[2]>>
             /\ seat[1] \in 0 .. (n - 1)
             /\ seat[2] \in Nat \ {0}
             /\ Index(n, seat[1], seat[2]) \in 1 .. N
             /\ vs[order[Index(n, seat[1], seat[2])]].address = a
  <2>1. PICK s \in 0 .. (n - 1), k \in 1 .. Len(vs) :
            /\ seat = <<s, k>>
            /\ k \in DOMAIN shard_committees[<<e, s>>]
            /\ shard_committees[<<e, s>>][k] = a
    BY <1>1 DEF Seats, Dealt
  <2>3. /\ k \in Nat \ {0}
        /\ Index(n, s, k) \in 1 .. N
        /\ a = vs[order[Index(n, s, k)]].address
    BY <1>c, <2>1
  <2>. QED  BY <2>1, <2>3
<1>6. ASSUME NEW s \in 0 .. (n - 1), NEW k \in Nat \ {0}, Index(n, s, k) \in 1 .. N,
             vs[order[Index(n, s, k)]].address = a
      PROVE  <<s, k>> \in Q
  <2>1. shard_committees[<<e, s>>] = Committee(e, n, vs, s)
    BY <1>1 DEF Dealt
  <2>2. k <= Size(N, n, s) /\ Size(N, n, s) \in Nat
    BY <1>6, SizeFacts
  <2>3. k \in 1 .. Size(N, n, s)
    BY <2>2
  <2>4. /\ k \in DOMAIN Committee(e, n, vs, s)
        /\ Committee(e, n, vs, s)[k] = a
        /\ k <= Len(vs)
    BY <1>c, <1>6, <2>3
  <2>5. k \in 1 .. Len(validators)
    BY <1>1, <2>4, ValidatorFacts
  <2>. QED  BY <2>1, <2>4, <2>5 DEF Seats, Dealt
<1>7. f \in [Q -> T]
  <2>1. ASSUME NEW seat \in Q PROVE order[Index(n, seat[1], seat[2])] \in T
    <3>. HIDE DEF Q, f
    <3>. QED  BY <1>4, <1>5
  <2>. HIDE DEF Q, T
  <2>. QED  BY <2>1
<1>8. \A x, y \in Q : f[x] = f[y] => x = y
  <2>. SUFFICES ASSUME NEW x \in Q, NEW y \in Q, f[x] = f[y] PROVE x = y
    OBVIOUS
  <2>1. order[Index(n, x[1], x[2])] = order[Index(n, y[1], y[2])]
    OBVIOUS
  <2>. HIDE DEF Q, f
  <2>2. Index(n, x[1], x[2]) = Index(n, y[1], y[2])
    BY <1>4, <1>5, <2>1
  <2>3. x[1] = y[1] /\ x[2] = y[2]
    BY <1>5, <2>2, IndexIsUnique
  <2>. QED  BY <1>5, <2>3
<1>9. \A i \in T : \E seat \in Q : f[seat] = i
  <2>. SUFFICES ASSUME NEW i \in T PROVE \E seat \in Q : f[seat] = i
    OBVIOUS
  <2>1. PICK p \in 1 .. N : order[p] = i
    BY <1>4
  <2>2. p \in Nat \ {0}
    OBVIOUS
  <2>3. PICK s \in 0 .. (n - 1), k \in Nat \ {0} : Index(n, s, k) = p
    <3>. HIDE DEF Q, T, f
    <3>1. \E s \in 0 .. (n - 1), k \in Nat \ {0} : Index(n, s, k) = p /\ k <= p
      BY <2>2, IndexExists
    <3>. QED  BY <3>1
  <2>4. vs[order[Index(n, s, k)]].address = a /\ Index(n, s, k) \in 1 .. N
    BY <2>1, <2>3
  <2>. HIDE DEF Q
  <2>5. <<s, k>> \in Q
    BY <1>6, <2>4
  <2>6. f[<<s, k>>] = i
    BY <2>1, <2>3, <2>5
  <2>. QED  BY <2>5, <2>6
<1>10. IsFiniteSet(T)
  <2>1. T \in SUBSET ActiveOf(vs)
    OBVIOUS
  <2>. HIDE DEF T
  <2>. QED  BY <2>1, ShuffledFacts, FS_Subset
<1>11. Cardinality(Q) = Cardinality(T)
  <2>. HIDE DEF Q, T, f
  <2>1. f \in Injection(Q, T)
    BY <1>7, <1>8 DEF Injection, IsInjective
  <2>2. f \in Surjection(Q, T)
    BY <1>7, <1>9 DEF Surjection
  <2>. QED  BY <1>10, <2>1, <2>2, FS_Injection
<1>. QED  BY <1>1, <1>11

(***************************************************************************)
(* The invariant of the beacon chain: every epoch so far was dealt whole.  *)
(***************************************************************************)

Counts == {n \in Proposals \cup {InitialCount} : ValidShardCount(n)}

EveryEpochDealt ==
    \A e \in 0 .. current_epoch :
        \E n \in Counts, vs \in Seq(Validators) :
            Dealt(e, n, vs) /\ (e = current_epoch => vs = validators)

BeaconInv ==
    /\ current_epoch \in Epochs
    /\ validators \in Seq(Validators)
    /\ shard_count \in Counts
    /\ \A key \in DOMAIN shard_committees : key \in (0 .. current_epoch) \X Nat
    /\ EveryEpochDealt

LEMMA CountsArePositive == \A n \in Counts : n \in Nat \ {0}
  BY DEF Counts, ValidShardCount

LEMMA InvGivesSeats ==
    ASSUME BeaconInv
    PROVE  SeatsAreDealt
<1>1. current_epoch \in 0 .. current_epoch /\ current_epoch \in Nat
  BY BeaconAssumption DEF BeaconInv, Epochs
<1>2. \A a : Cardinality(Seats(current_epoch, a)) =
                 Cardinality({i \in ActiveOf(validators) : validators[i].address = a})
  <2>. TAKE a
  <2>1. PICK n \in Counts : Dealt(current_epoch, n, validators)
    BY <1>1 DEF BeaconInv, EveryEpochDealt
  <2>. QED  BY <2>1, CountsArePositive, SeatsOfEntries DEF BeaconInv
<1>3. ASSUME NEW epoch \in 0 .. current_epoch
      PROVE  /\ \E n \in Proposals \cup {InitialCount} :
                    ValidShardCount(n) /\ ShardsOf(epoch) = 0 .. (n - 1)
             /\ \A s, r \in ShardsOf(epoch) :
                    Len(shard_committees[<<epoch, s>>])
                        <= Len(shard_committees[<<epoch, r>>]) + 1
  <2>1. PICK n \in Counts, vs \in Seq(Validators) : Dealt(epoch, n, vs)
    BY DEF BeaconInv, EveryEpochDealt
  <2>2. epoch \in Epochs
    BY BeaconAssumption DEF BeaconInv, Epochs
  <2>3. n \in Nat \ {0}
    BY CountsArePositive
  <2>4. Cardinality(ActiveOf(vs)) \in Nat
    BY ShuffledFacts, FS_CardinalityType, <2>2
  <2>5. ASSUME NEW s \in 0 .. (n - 1)
        PROVE  Len(shard_committees[<<epoch, s>>]) = Size(Cardinality(ActiveOf(vs)), n, s)
    <3>1. shard_committees[<<epoch, s>>] = Committee(epoch, n, vs, s)
      BY <2>1 DEF Dealt
    <3>2. Len(Committee(epoch, n, vs, s)) = Size(Cardinality(ActiveOf(vs)), n, s)
      BY <2>2, <2>3, CommitteeFacts
    <3>. QED  BY <3>1, <3>2
  <2>6. \A s, r \in 0 .. (n - 1) :
            Size(Cardinality(ActiveOf(vs)), n, s) <= Size(Cardinality(ActiveOf(vs)), n, r) + 1
    BY <2>3, <2>4, SizesBalanced
  <2>7. ShardsOf(epoch) = 0 .. (n - 1) /\ n \in Proposals \cup {InitialCount} /\ ValidShardCount(n)
    BY <2>1 DEF Dealt, Counts
  <2>8. \A s, r \in ShardsOf(epoch) :
            Len(shard_committees[<<epoch, s>>]) <= Len(shard_committees[<<epoch, r>>]) + 1
    BY <2>5, <2>6, <2>7
  <2>. QED  BY <2>7, <2>8
<1>. QED  BY <1>2, <1>3 DEF SeatsAreDealt

LEMMA ShardsOfKeys ==
    ASSUME NEW e, NEW S
    PROVE  {key[2] : key \in {e} \X S} = S
<1>1. \A s \in S : <<e, s>> \in {e} \X S /\ <<e, s>>[2] = s
  OBVIOUS
<1>2. \A key \in {e} \X S : key[2] \in S
  OBVIOUS
<1>. QED  BY <1>1, <1>2, Zenon

LEMMA BeaconInit == Init => BeaconInv
<1>. SUFFICES ASSUME Init PROVE BeaconInv
  OBVIOUS
<1>1. current_epoch = 0 /\ shard_count = InitialCount /\ 0 \in Epochs /\ 0 .. 0 = {0}
  BY BeaconAssumption DEF Init, Epochs
<1>2. PICK vs \in Replacements :
          /\ validators = SortValidators(vs)
          /\ shard_committees = [key \in {0} \X (0 .. (InitialCount - 1)) |->
                 Committee(0, InitialCount, SortValidators(vs), key[2])]
  BY DEF Init
<1>3. vs \in Seq(Validators)
  BY BeaconAssumption
<1>4. validators \in Seq(Validators)
  BY <1>2, <1>3, SortPermutes
<1>5. InitialCount \in Counts /\ InitialCount \in Nat \ {0}
  BY BeaconAssumption, CountsArePositive DEF Counts
<1>6. DOMAIN shard_committees = {0} \X (0 .. (InitialCount - 1))
  BY <1>2
<1>7. ShardsOf(0) = 0 .. (InitialCount - 1)
  <2>1. {k \in DOMAIN shard_committees : k[1] = 0} = {0} \X (0 .. (InitialCount - 1))
    BY <1>6
  <2>. QED  BY <2>1, ShardsOfKeys DEF ShardsOf
<1>8. \A s \in 0 .. (InitialCount - 1) :
          shard_committees[<<0, s>>] = Committee(0, InitialCount, validators, s)
  BY <1>2
<1>9. EveryEpochDealt
  BY <1>1, <1>4, <1>5, <1>7, <1>8 DEF EveryEpochDealt, Dealt
<1>10. \A key \in DOMAIN shard_committees : key \in (0 .. current_epoch) \X Nat
  BY <1>1, <1>5, <1>6
<1>. QED  BY <1>1, <1>4, <1>5, <1>9, <1>10 DEF BeaconInv

LEMMA RebuildDeals ==
    ASSUME BeaconInv, NEW epoch \in Epochs,
           epoch = current_epoch \/ epoch = current_epoch + 1,
           NEW vs \in Seq(Validators), RebuildEpoch(epoch, vs)
    PROVE  BeaconInv'
<1>1. current_epoch \in Nat /\ epoch \in Nat
  BY BeaconAssumption DEF BeaconInv, Epochs
<1>2. PICK c \in Counts : c = shard_count
  BY DEF BeaconInv
<1>3. c \in Nat \ {0}
  BY CountsArePositive
<1> DEFINE kept == {key \in DOMAIN shard_committees : key[1] # epoch}
           keys == {epoch} \X (0 .. (c - 1))
<1>4. /\ current_epoch' = epoch /\ validators' = vs /\ shard_count' = c
      /\ shard_committees' = [key \in kept \cup keys |->
             IF key \in kept THEN shard_committees[key] ELSE Committee(epoch, c, vs, key[2])]
  BY <1>2 DEF RebuildEpoch, ReplaceCommittees, KeysOf
<1>5. DOMAIN shard_committees' = kept \cup keys
  BY <1>4
<1>6. \A key \in DOMAIN shard_committees : key \in (0 .. current_epoch) \X Nat
  BY DEF BeaconInv
<1>7. \A key \in DOMAIN shard_committees' : key \in (0 .. current_epoch') \X Nat
  <2>1. \A key \in kept : key \in (0 .. epoch) \X Nat
    BY <1>1, <1>6
  <2>2. \A key \in keys : key \in (0 .. epoch) \X Nat
    BY <1>1, <1>3
  <2>. QED  BY <1>4, <1>5, <2>1, <2>2
<1>8. \A s \in 0 .. (c - 1) : <<epoch, s>> \in keys /\ <<epoch, s>> \notin kept
  OBVIOUS
<1>9. Dealt(epoch, c, vs)'
  <2>1. ShardsOf(epoch)' = {key[2] : key \in {k \in kept \cup keys : k[1] = epoch}}
    BY <1>5 DEF ShardsOf
  <2>2. {k \in kept \cup keys : k[1] = epoch} = keys
    OBVIOUS
  <2>3. {key[2] : key \in keys} = 0 .. (c - 1)
    BY ShardsOfKeys
  <2>4. \A s \in 0 .. (c - 1) : shard_committees'[<<epoch, s>>] = Committee(epoch, c, vs, s)
    <3>. TAKE s \in 0 .. (c - 1)
    <3>1. <<epoch, s>> \in keys /\ <<epoch, s>> \notin kept /\ <<epoch, s>>[2] = s
      BY <1>8
    <3>. HIDE DEF kept, keys
    <3>. QED  BY <1>4, <3>1
  <2>5. ShardsOf(epoch)' = 0 .. (c - 1)
    <3>. HIDE DEF kept, keys
    <3>. QED  BY <2>1, <2>2, <2>3
  <2>. QED  BY <2>4, <2>5 DEF Dealt
<1>10. ASSUME NEW e \in 0 .. current_epoch, e # epoch, NEW n \in Counts,
              NEW ws \in Seq(Validators), Dealt(e, n, ws)
       PROVE  Dealt(e, n, ws)'
  <2>1. {k \in kept \cup keys : k[1] = e} = {k \in DOMAIN shard_committees : k[1] = e}
    BY <1>10
  <2>2. ShardsOf(e)' = ShardsOf(e)
    BY <1>5, <2>1 DEF ShardsOf
  <2>3. ASSUME NEW s \in 0 .. (n - 1)
        PROVE  shard_committees'[<<e, s>>] = Committee(e, n, ws, s)
    <3>1. s \in ShardsOf(e)
      BY <1>10 DEF Dealt
    <3>2. PICK key \in DOMAIN shard_committees : key[1] = e /\ key[2] = s
      BY <3>1 DEF ShardsOf
    <3>3. key = <<e, s>>
      BY <1>6, <3>2
    <3>4. <<e, s>> \in kept
      BY <1>10, <3>2, <3>3
    <3>5. shard_committees'[<<e, s>>] = shard_committees[<<e, s>>]
      <4>. HIDE DEF kept, keys
      <4>. QED  BY <1>4, <3>4
    <3>. QED  BY <1>10, <3>5 DEF Dealt
  <2>4. ShardsOf(e)' = 0 .. (n - 1)
    BY <1>10, <2>2 DEF Dealt
  <2>. QED  BY <2>3, <2>4 DEF Dealt
<1>. HIDE DEF kept, keys
<1>11. EveryEpochDealt'
  <2>. SUFFICES ASSUME NEW e \in 0 .. epoch
                PROVE  \E n \in Counts, ws \in Seq(Validators) :
                           Dealt(e, n, ws)' /\ (e = epoch => ws = vs)
    BY <1>4 DEF EveryEpochDealt
  <2>1. CASE e = epoch
    BY <1>9, <2>1
  <2>2. CASE e # epoch
    <3>1. e \in 0 .. current_epoch
      BY <1>1, <2>2
    <3>2. PICK n \in Counts, ws \in Seq(Validators) : Dealt(e, n, ws)
      BY <3>1 DEF BeaconInv, EveryEpochDealt
    <3>. QED  BY <1>10, <2>2, <3>1, <3>2
  <2>. QED  BY <2>1, <2>2
<1>. QED  BY <1>4, <1>7, <1>11 DEF BeaconInv

LEMMA BeaconStep ==
    ASSUME BeaconInv, [Next]_vars
    PROVE  BeaconInv'
<1>1. current_epoch \in Epochs /\ validators \in Seq(Validators)
  BY DEF BeaconInv
<1>2. ASSUME UNCHANGED <<validators, current_epoch, shard_committees>>, shard_count' \in Counts
      PROVE  BeaconInv'
  <2>1. \A e, n, vs : Dealt(e, n, vs)' <=> Dealt(e, n, vs)
    BY <1>2 DEF Dealt, ShardsOf
  <2>2. EveryEpochDealt'
    BY <1>2, <2>1 DEF BeaconInv, EveryEpochDealt
  <2>. QED  BY <1>2, <2>2 DEF BeaconInv
<1>3. ASSUME NEW v \in Registrations, RegisterValidator(v)
      PROVE  BeaconInv'
  <2>1. v \in Validators
    BY BeaconAssumption
  <2>2. Append(validators, v) \in Seq(Validators)
    BY <1>1, <2>1
  <2>3. SortValidators(Append(validators, v)) \in Seq(Validators)
    BY <2>2, SortPermutes
  <2>. QED  BY <1>1, <1>3, <2>3, RebuildDeals DEF RegisterValidator
<1>4. ASSUME NEW vs \in Replacements, ReplaceValidators(vs)
      PROVE  BeaconInv'
  <2>1. vs \in Seq(Validators)
    BY BeaconAssumption
  <2>2. SortValidators(vs) \in Seq(Validators)
    BY <2>1, SortPermutes
  <2>. QED  BY <1>1, <1>4, <2>2, RebuildDeals DEF ReplaceValidators
<1>5. CASE AdvanceEpoch
  <2>1. current_epoch + 1 \in Epochs
    BY <1>1, <1>5, BeaconAssumption DEF AdvanceEpoch, Epochs
  <2>. QED  BY <1>1, <1>5, <2>1, RebuildDeals DEF AdvanceEpoch
<1>6. ASSUME NEW n \in Proposals, ApplyGovernanceUpdate(n)
      PROVE  BeaconInv'
  <2>1. n \in Counts
    BY <1>6 DEF ApplyGovernanceUpdate, Counts
  <2>. QED  BY <1>2, <1>6, <2>1 DEF ApplyGovernanceUpdate
<1>7. ASSUME NEW epoch \in Epochs, NEW shard \in 0 .. MaxShard,
             NEW root \in Roots \cup BadRoots, StoreShardStateRoot(epoch, shard, root)
      PROVE  BeaconInv'
  BY <1>2, <1>7 DEF StoreShardStateRoot, BeaconInv
<1>8. CASE UNCHANGED vars
  BY <1>2, <1>8 DEF vars, BeaconInv
<1>. QED  BY <1>3, <1>4, <1>5, <1>6, <1>7, <1>8 DEF Next

LEMMA BeaconInvariant == Spec => []BeaconInv
<1>1. BeaconInv /\ [Next]_vars => BeaconInv'
  BY BeaconStep
<1>. QED  BY <1>1, BeaconInit, PTL DEF Spec

\* Whatever registrations, replacements, epochs and governance updates came before,
\* build_committee_assignments has dealt every entry of the validator set with stake
\* exactly one seat of the current epoch, and the committees of every epoch are those
\* of a number of shards that was in force and differ by one member at most.
THEOREM EverySeatIsDealt == Spec => []SeatsAreDealt
  BY BeaconInvariant, InvGivesSeats, PTL

\* The consensus instances read the beacon chain and never act on it: its invariants
\* are theirs.
THEOREM ConsensusKeepsBeacon == ConsensusSpec => Spec /\ []BeaconInv
<1>1. ConsensusInit => Init
  BY DEF ConsensusInit
<1>2. [ConsensusNext]_allVars => [Next]_vars
  BY DEF ConsensusNext, allVars, ConsensusForShard, CollectVote
<1>3. ConsensusSpec => Spec
  BY <1>1, <1>2, PTL DEF ConsensusSpec, Spec
<1>. QED  BY <1>3, BeaconInvariant, PTL

(***************************************************************************)
(* The consensus instances.                                                *)
(***************************************************************************)

\* The members of an instance are active validators with a seat.
LEMMA MembersHaveSeats ==
    ASSUME BeaconInv, NEW epoch, NEW shard
    PROVE  LET committee == ValidatorsForShard(epoch, shard)
               seats == shard_committees[<<epoch, shard>>]
           IN  /\ committee \in Seq(Validators)
               /\ \A n \in DOMAIN committee :
                      \E i \in ActiveOf(validators), k \in DOMAIN seats :
                          committee[n] = validators[i] /\ seats[k] = validators[i].address
<1> DEFINE seats == shard_committees[<<epoch, shard>>]
           seated == {i \in ActiveOf(validators) :
                         \E k \in DOMAIN seats : seats[k] = validators[i].address}
           R == {p \in seated \X seated : p[1] < p[2]}
           order == InOrder(seated, R)
           ws == [n \in 1 .. Cardinality(seated) |-> validators[order[n]]]
<1>1. validators \in Seq(Validators)
  BY DEF BeaconInv
<1>2. seated \in SUBSET (DOMAIN validators)
  BY DEF ActiveOf
<1>s. \A i \in seated : i \in ActiveOf(validators)
                        /\ \E k \in DOMAIN seats : seats[k] = validators[i].address
  OBVIOUS
<1>3. IsFiniteSet(seated) /\ Cardinality(seated) \in Nat /\ \A i \in seated : i \in Nat
  <2>. HIDE DEF seated
  <2>. QED  BY <1>1, <1>2, ValidatorFacts, FS_Subset, FS_CardinalityType
<1>. HIDE DEF seated
<1>4. StrictOrder(seated, R)
  <2>1. \A i, j \in seated : <<i, j>> \in R <=> i < j
    OBVIOUS
  <2>2. \A i, j, k \in seated : i < j /\ j < k => i < k
    BY <1>3
  <2>3. \A i, j \in seated : ~(i < i) /\ (i = j \/ i < j \/ j < i)
    BY <1>3
  <2>. HIDE DEF R
  <2>. QED  BY <2>1, <2>2, <2>3 DEF StrictOrder
<1>5. Enumerates(order, seated)
  <2>. HIDE DEF R
  <2>. QED  BY <1>3, <1>4, SortedByRank
<1>6. \A n \in 1 .. Cardinality(seated) : order[n] \in seated
  <2>. HIDE DEF order
  <2>. QED  BY <1>5 DEF Enumerates
<1>7. ws \in [1 .. Cardinality(seated) -> Validators]
  <2>. HIDE DEF order
  <2>. QED  BY <1>1, <1>2, <1>6, ValidatorFacts
<1>8. ws \in Seq(Validators) /\ DOMAIN ws = 1 .. Cardinality(seated)
  <2>1. PICK n \in Nat : n = Cardinality(seated)
    BY <1>3
  <2>. HIDE DEF ws
  <2>. QED  BY <1>7, <2>1, MakeSeq
<1>9. \A m \in DOMAIN ws : \E i \in seated : ws[m] = validators[i]
  <2>. HIDE DEF order
  <2>. QED  BY <1>6, <1>8
<1>10. ValidatorsForShard(epoch, shard) = SortValidators(ws)
  BY DEF ValidatorsForShard, seated
<1>. HIDE DEF ws
<1>11. /\ SortValidators(ws) \in Seq(Validators)
       /\ \A n \in DOMAIN SortValidators(ws) : \E m \in DOMAIN ws : SortValidators(ws)[n] = ws[m]
  BY <1>8, SortPermutes
<1>12. \A n \in DOMAIN SortValidators(ws) : \E i \in seated : SortValidators(ws)[n] = validators[i]
  BY <1>9, <1>11
<1>. QED  BY <1>s, <1>10, <1>11, <1>12

Openings == [epoch : Epochs, shard_id : Nat, committee : Seq(Validators)]

Ballots == [voter : Addresses, approve : BOOLEAN]

OpenedOnce == \A k \in Instances : \A c, d \in opened[k] : c = d

BallotsAreSigned ==
    \A k \in Instances : \A v \in collected[k] : \E c \in opened[k] :
        [voter |-> v.voter, epoch |-> c.epoch, shard_id |-> c.shard_id,
         block |-> BlockOf[k]] \in signed

SignedOnce ==
    \A v, w \in signed :
        v.voter = w.voter /\ v.epoch = w.epoch /\ v.shard_id = w.shard_id => v.block = w.block

ConsensusInv ==
    /\ opened \in [Instances -> SUBSET Openings]
    /\ collected \in [Instances -> SUBSET Ballots]
    /\ OpenedOnce
    /\ BallotsAreSigned
    /\ SignedOnce

\* One block per validator, epoch and shard, one ballot per instance.
LEMMA VotesStep ==
    ASSUME ConsensusInv, NEW k \in Instances, NEW c \in opened[k], NEW a \in Addresses,
           NEW approve \in BOOLEAN, CollectVote(k, c, a, approve)
    PROVE  ConsensusInv'
<1> DEFINE vote == [voter |-> a, epoch |-> c.epoch, shard_id |-> c.shard_id, block |-> BlockOf[k]]
           ballot == [voter |-> a, approve |-> approve]
<1>1. /\ signed' = signed \cup {vote}
      /\ collected' = [collected EXCEPT ![k] = @ \cup {ballot}]
      /\ opened' = opened
  BY DEF CollectVote
<1>2. ballot \in Ballots /\ ballot.voter = a
  BY DEF Ballots
<1>3. vote.voter = a /\ vote.epoch = c.epoch /\ vote.shard_id = c.shard_id /\ vote.block = BlockOf[k]
  OBVIOUS
<1>4. \A v \in signed : v.voter = a /\ v.epoch = c.epoch /\ v.shard_id = c.shard_id
                            => v.block = BlockOf[k]
  BY DEF CollectVote
<1>5. SignedOnce'
  <2>. SUFFICES ASSUME NEW v \in signed', NEW w \in signed', v.voter = w.voter,
                       v.epoch = w.epoch, v.shard_id = w.shard_id
                PROVE  v.block = w.block
    BY DEF SignedOnce
  <2>. HIDE DEF vote
  <2>1. v \in signed \/ v = vote
    BY <1>1
  <2>2. w \in signed \/ w = vote
    BY <1>1
  <2>3. CASE v \in signed /\ w \in signed
    BY <2>3 DEF ConsensusInv, SignedOnce
  <2>4. CASE v = vote
    BY <1>3, <1>4, <2>2, <2>4
  <2>5. CASE w = vote
    BY <1>3, <1>4, <2>1, <2>5
  <2>. QED  BY <2>1, <2>2, <2>3, <2>4, <2>5
<1>6. BallotsAreSigned'
  <2>. SUFFICES ASSUME NEW m \in Instances, NEW v \in collected'[m]
                PROVE  \E d \in opened[m] :
                           [voter |-> v.voter, epoch |-> d.epoch, shard_id |-> d.shard_id,
                            block |-> BlockOf[m]] \in signed'
    BY <1>1 DEF BallotsAreSigned
  <2>1. CASE v \in collected[m]
    BY <1>1, <2>1 DEF ConsensusInv, BallotsAreSigned
  <2>2. CASE v \notin collected[m]
    <3>1. m = k /\ v = ballot
      <4>. HIDE DEF ballot, vote
      <4>. QED  BY <1>1, <2>2 DEF ConsensusInv
    <3>2. v.voter = a
      BY <1>2, <3>1
    <3>3. vote \in signed'
      <4>. HIDE DEF ballot, vote
      <4>. QED  BY <1>1
    <3>. QED  BY <3>1, <3>2, <3>3
  <2>. QED  BY <2>1, <2>2
<1>7. collected' \in [Instances -> SUBSET Ballots]
  <2>. HIDE DEF ballot, vote
  <2>. QED  BY <1>1, <1>2 DEF ConsensusInv
<1>8. opened' \in [Instances -> SUBSET Openings] /\ OpenedOnce'
  BY <1>1 DEF ConsensusInv, OpenedOnce
<1>. QED  BY <1>5, <1>6, <1>7, <1>8 DEF ConsensusInv

LEMMA OpeningStep ==
    ASSUME BeaconInv, ConsensusInv, NEW k \in Instances, NEW epoch \in Epochs,
           NEW shard \in 0 .. MaxShard, ConsensusForShard(k, epoch, shard)
    PROVE  ConsensusInv'
<1> DEFINE new == [epoch |-> epoch, shard_id |-> shard,
                   committee |-> ValidatorsForShard(epoch, shard)]
<1>1. /\ opened[k] = {} /\ opened' = [opened EXCEPT ![k] = {new}]
      /\ collected' = collected /\ signed' = signed
  BY DEF ConsensusForShard
<1>2. new \in Openings
  <2>1. ValidatorsForShard(epoch, shard) \in Seq(Validators)
    BY MembersHaveSeats
  <2>2. shard \in Nat
    BY BeaconAssumption
  <2>. QED  BY <2>1, <2>2 DEF Openings
<1>. HIDE DEF new
<1>3. opened' \in [Instances -> SUBSET Openings]
  BY <1>1, <1>2 DEF ConsensusInv
<1>4. \A m \in Instances : opened'[m] = IF m = k THEN {new} ELSE opened[m]
  BY <1>1 DEF ConsensusInv
<1>5. OpenedOnce'
  BY <1>4 DEF ConsensusInv, OpenedOnce
<1>6. BallotsAreSigned'
  BY <1>1, <1>4 DEF ConsensusInv, BallotsAreSigned
<1>7. SignedOnce'
  BY <1>1 DEF ConsensusInv, SignedOnce
<1>. QED  BY <1>1, <1>3, <1>5, <1>6, <1>7 DEF ConsensusInv

LEMMA ConsensusStep ==
    ASSUME BeaconInv, ConsensusInv, [ConsensusNext]_allVars
    PROVE  ConsensusInv'
<1>1. CASE UNCHANGED consensusVars
  BY <1>1 DEF consensusVars, ConsensusInv, OpenedOnce, BallotsAreSigned, SignedOnce
<1>2. CASE \E k \in Instances, epoch \in Epochs, shard \in 0 .. MaxShard :
               ConsensusForShard(k, epoch, shard)
  BY <1>2, OpeningStep
<1>3. CASE \E k \in Instances : \E c \in opened[k], a \in Addresses, approve \in BOOLEAN :
               CollectVote(k, c, a, approve)
  BY <1>3, VotesStep
<1>4. UNCHANGED allVars => UNCHANGED consensusVars
  BY DEF allVars
<1>. QED  BY <1>1, <1>2, <1>3, <1>4 DEF ConsensusNext

LEMMA ConsensusStart == ConsensusInit => ConsensusInv
  BY DEF ConsensusInit, ConsensusInv, OpenedOnce, BallotsAreSigned, SignedOnce

LEMMA ConsensusInvariant == ConsensusSpec => [](BeaconInv /\ ConsensusInv)
<1>1. BeaconInv /\ ConsensusInv /\ [ConsensusNext]_allVars => ConsensusInv'
  BY ConsensusStep
<1>. QED  BY <1>1, ConsensusStart, ConsensusKeepsBeacon, PTL DEF ConsensusSpec

\* The stake of the members is finite, and the approving stake is a part of it.
LEMMA StakeIsFinite ==
    ASSUME NEW committee \in Seq(Validators)
    PROVE  /\ IsFiniteSet(StakeAt(committee, DOMAIN committee))
           /\ TotalStake(committee) \in Nat
<1> DEFINE S == DOMAIN committee
           U(i) == {i} \X (1 .. committee[i].stake)
           f == [i \in S |-> U(i)]
           T == {U(i) : i \in S}
<1>1. IsFiniteSet(S) /\ \A i \in S : committee[i].stake \in Nat
  BY ValidatorFacts
<1>2. f \in Surjection(S, T)
  <2>1. f \in [S -> T] /\ \A t \in T : \E i \in S : f[i] = t
    OBVIOUS
  <2>. HIDE DEF f, T, S
  <2>. QED  BY <2>1 DEF Surjection
<1>3. IsFiniteSet(T)
  <2>. HIDE DEF f, T, S
  <2>. QED  BY <1>1, <1>2, FS_Surjection
<1>4. \A t \in T : IsFiniteSet(t)
  <2>1. ASSUME NEW i \in S PROVE IsFiniteSet(U(i))
    <3>1. PICK n \in Nat : n = committee[i].stake
      BY <1>1
    <3>2. IsFiniteSet(1 .. n) /\ IsFiniteSet({i})
      BY IntervalSize, FS_Singleton
    <3>3. IsFiniteSet({i} \X (1 .. n))
      BY <3>2, FS_Product
    <3>. QED  BY <3>1, <3>3
  <2>. HIDE DEF U
  <2>. QED  BY <2>1
<1>5. IsFiniteSet(UNION T)
  <2>. HIDE DEF T
  <2>. QED  BY <1>3, <1>4, FS_UNION
<1>6. StakeAt(committee, DOMAIN committee) = UNION T
  BY DEF StakeAt
<1>. HIDE DEF T
<1>. QED  BY <1>5, <1>6, FS_CardinalityType DEF TotalStake

LEMMA ApprovingIsPart ==
    ASSUME NEW k, NEW c, c.committee \in Seq(Validators)
    PROVE  /\ Approving(k, c) \in SUBSET StakeAt(c.committee, DOMAIN c.committee)
           /\ \A u \in Approving(k, c) :
                  \E v \in collected[k] : c.committee[u[1]].address = v.voter
<1>1. \A S : S \subseteq DOMAIN c.committee =>
              StakeAt(c.committee, S) \subseteq StakeAt(c.committee, DOMAIN c.committee)
  BY DEF StakeAt
<1>2. \A a : StakeOf(c.committee, a) \subseteq DOMAIN c.committee
             /\ \A i \in StakeOf(c.committee, a) : c.committee[i].address = a
  BY DEF StakeOf, ActiveEntries
<1> DEFINE A == UNION {StakeOf(c.committee, v.voter) : v \in {w \in collected[k] : w.approve}}
<1>3. A \subseteq DOMAIN c.committee /\ \A i \in A : \E v \in collected[k] : c.committee[i].address = v.voter
  <2>. SUFFICES ASSUME NEW i \in A
                PROVE  i \in DOMAIN c.committee /\ \E v \in collected[k] : c.committee[i].address = v.voter
    OBVIOUS
  <2>1. PICK v \in collected[k] : i \in StakeOf(c.committee, v.voter)
    OBVIOUS
  <2>. QED  BY <1>2, <2>1
<1>4. Approving(k, c) = StakeAt(c.committee, A)
  BY DEF Approving
<1>. HIDE DEF A
<1>5. \A u \in StakeAt(c.committee, A) : u[1] \in A
  BY DEF StakeAt
<1>. QED  BY <1>1, <1>3, <1>4, <1>5

LEMMA InvGivesAgreement ==
    ASSUME ConsensusInv
    PROVE  SameCommitteeAgrees
<1>. SUFFICES ASSUME NEW k \in Instances, NEW m \in Instances,
                     NEW c \in opened[k], NEW d \in opened[m],
                     SameShard(c, d), c.committee = d.committee,
                     IsFinalized(k), IsFinalized(m)
              PROVE  BlockOf[k] = BlockOf[m]
  BY DEF SameCommitteeAgrees
<1>1. c \in Openings /\ d \in Openings
  BY DEF ConsensusInv
<1>2. PICK com \in Seq(Validators) : com = c.committee /\ com = d.committee
  BY <1>1 DEF Openings
<1>3. PICK U : U = StakeAt(com, DOMAIN com)
  OBVIOUS
<1>4. IsFiniteSet(U) /\ TotalStake(com) = Cardinality(U) /\ Cardinality(U) \in Nat
  BY <1>3, StakeIsFinite DEF TotalStake
<1>5. PICK A, B : A = Approving(k, c) /\ B = Approving(m, d)
  OBVIOUS
<1>6. A \in SUBSET U /\ B \in SUBSET U
  BY <1>2, <1>3, <1>5, ApprovingIsPart
<1>7. Cardinality(A) * 3 > Cardinality(U) * 2 /\ Cardinality(B) * 3 > Cardinality(U) * 2
  <2>1. \A x \in opened[k] : x = c
    BY DEF ConsensusInv, OpenedOnce
  <2>2. \A x \in opened[m] : x = d
    BY DEF ConsensusInv, OpenedOnce
  <2>3. Cardinality(A) * 3 > TotalStake(com) * 2
    BY <1>2, <1>5, <2>1 DEF IsFinalized
  <2>4. Cardinality(B) * 3 > TotalStake(com) * 2
    BY <1>2, <1>5, <2>2 DEF IsFinalized
  <2>. QED  BY <1>4, <2>3, <2>4
<1>8. A \cap B # {}
  <2>. SUFFICES ASSUME A \cap B = {} PROVE FALSE
    OBVIOUS
  <2>1. IsFiniteSet(A) /\ IsFiniteSet(B) /\ Cardinality(A) \in Nat /\ Cardinality(B) \in Nat
    BY <1>4, <1>6, FS_Subset, FS_CardinalityType
  <2>2. Cardinality(A \cup B) = Cardinality(A) + Cardinality(B) - Cardinality(A \cap B)
    BY <2>1, FS_Union
  <2>3. Cardinality(A \cap B) = 0
    BY FS_EmptySet
  <2>4. A \cup B \in SUBSET U
    BY <1>6
  <2>5. Cardinality(A \cup B) <= Cardinality(U)
    BY <1>4, <2>4, FS_Subset
  <2>. QED  BY <1>4, <1>7, <2>1, <2>2, <2>3, <2>5
<1>9. PICK u : u \in A /\ u \in B
  BY <1>8
<1>10. PICK v \in collected[k] : com[u[1]].address = v.voter
  BY <1>2, <1>5, <1>9, ApprovingIsPart
<1>11. PICK w \in collected[m] : com[u[1]].address = w.voter
  BY <1>2, <1>5, <1>9, ApprovingIsPart
<1>12. [voter |-> v.voter, epoch |-> c.epoch, shard_id |-> c.shard_id, block |-> BlockOf[k]] \in signed
  <2>1. PICK x \in opened[k] : [voter |-> v.voter, epoch |-> x.epoch,
                                shard_id |-> x.shard_id, block |-> BlockOf[k]] \in signed
    BY <1>10 DEF ConsensusInv, BallotsAreSigned
  <2>2. x = c
    BY DEF ConsensusInv, OpenedOnce
  <2>. QED  BY <2>1, <2>2
<1>13. [voter |-> v.voter, epoch |-> c.epoch, shard_id |-> c.shard_id, block |-> BlockOf[m]] \in signed
  <2>1. PICK x \in opened[m] : [voter |-> w.voter, epoch |-> x.epoch,
                                shard_id |-> x.shard_id, block |-> BlockOf[m]] \in signed
    BY <1>11 DEF ConsensusInv, BallotsAreSigned
  <2>2. x = d
    BY DEF ConsensusInv, OpenedOnce
  <2>3. w.voter = v.voter /\ x.epoch = c.epoch /\ x.shard_id = c.shard_id
    BY <1>10, <1>11, <2>2 DEF SameShard
  <2>. QED  BY <2>1, <2>3
<1>. QED  BY <1>12, <1>13 DEF ConsensusInv, SignedOnce

\* Two instances with the same committee of one shard and epoch never finalize
\* different blocks, for any validators, stakes and interleaving of votes with what
\* happens to the beacon chain.
THEOREM SameCommitteeNeverForks == ConsensusSpec => []SameCommitteeAgrees
<1>1. ConsensusInv => SameCommitteeAgrees
  BY InvGivesAgreement
<1>. QED  BY <1>1, ConsensusInvariant, PTL

\* No vote takes finality back.
LEMMA FinalityStays ==
    ASSUME ConsensusInv, [ConsensusNext]_allVars, NEW k \in Instances, IsFinalized(k)
    PROVE  IsFinalized(k)'
<1>1. PICK c \in opened[k] : /\ TotalStake(c.committee) > 0
                             /\ Cardinality(Approving(k, c)) * 3 > TotalStake(c.committee) * 2
  BY DEF IsFinalized
<1>2. PICK com \in Seq(Validators) : com = c.committee
  BY DEF ConsensusInv, Openings
<1>3. opened'[k] = opened[k] /\ collected[k] \subseteq collected'[k]
  <2>1. CASE UNCHANGED consensusVars
    BY <2>1 DEF consensusVars
  <2>2. ASSUME NEW m \in Instances, NEW epoch, NEW shard, ConsensusForShard(m, epoch, shard)
        PROVE  opened'[k] = opened[k] /\ collected[k] \subseteq collected'[k]
    <3>1. m # k
      BY <1>1, <2>2 DEF ConsensusForShard
    <3>. QED  BY <2>2, <3>1 DEF ConsensusForShard, ConsensusInv
  <2>3. ASSUME NEW m \in Instances, NEW d, NEW a, NEW approve, CollectVote(m, d, a, approve)
        PROVE  opened'[k] = opened[k] /\ collected[k] \subseteq collected'[k]
    BY <2>3 DEF CollectVote, ConsensusInv
  <2>. QED  BY <2>1, <2>2, <2>3 DEF ConsensusNext, allVars
<1> DEFINE V(x) == {w \in x : w.approve}
           A(x) == StakeAt(com, UNION {StakeOf(com, v.voter) : v \in V(x)})
<1>4. A(collected[k]) \subseteq A(collected'[k])
  <2>1. V(collected[k]) \subseteq V(collected'[k])
    BY <1>3
  <2>. QED  BY <2>1 DEF StakeAt
<1>5. Approving(k, c) = A(collected[k]) /\ Approving(k, c)' = A(collected'[k])
  BY <1>2 DEF Approving, StakeAt, StakeOf, ActiveEntries
<1>6. Approving(k, c)' \in SUBSET StakeAt(com, DOMAIN com)
  <2>1. \A x : A(x) \subseteq StakeAt(com, DOMAIN com)
    BY DEF StakeAt, StakeOf, ActiveEntries
  <2>. HIDE DEF A
  <2>. QED  BY <1>5, <2>1
<1>. HIDE DEF A
<1>7. IsFiniteSet(StakeAt(com, DOMAIN com)) /\ TotalStake(com) \in Nat
  BY StakeIsFinite
<1>8. PICK P, Q : P = Approving(k, c) /\ Q = Approving(k, c)'
  OBVIOUS
<1>9. IsFiniteSet(Q) /\ P \in SUBSET Q
  BY <1>4, <1>5, <1>6, <1>7, <1>8, FS_Subset
<1>10. Cardinality(P) <= Cardinality(Q) /\ Cardinality(P) \in Nat /\ Cardinality(Q) \in Nat
  BY <1>9, FS_Subset, FS_CardinalityType
<1>11. Cardinality(Q) * 3 > TotalStake(com) * 2
  <2>1. Cardinality(P) * 3 > TotalStake(com) * 2
    BY <1>1, <1>2, <1>8
  <2>. QED  BY <1>7, <1>10, <2>1
<1>12. Cardinality(Approving(k, c)') * 3 > TotalStake(c.committee) * 2 /\ TotalStake(c.committee) > 0
  BY <1>1, <1>2, <1>8, <1>11
<1>. QED  BY <1>1, <1>3, <1>12 DEF IsFinalized, TotalStake, StakeAt

\* Addresses that occur once sit on one committee of the current epoch.
LEMMA SeatsAreDisjoint ==
    ASSUME BeaconInv,
           \A i, j \in DOMAIN validators : validators[i].address = validators[j].address => i = j,
           NEW s \in ShardsOf(current_epoch), NEW r \in ShardsOf(current_epoch),
           NEW k \in DOMAIN shard_committees[<<current_epoch, s>>],
           NEW l \in DOMAIN shard_committees[<<current_epoch, r>>],
           shard_committees[<<current_epoch, s>>][k] = shard_committees[<<current_epoch, r>>][l]
    PROVE  s = r
<1>1. PICK e \in Epochs : e = current_epoch
  BY DEF BeaconInv
<1>2. PICK vs \in Seq(Validators) : vs = validators
  BY DEF BeaconInv
<1>3. PICK n \in Counts : Dealt(e, n, vs)
  <2>1. e \in 0 .. current_epoch
    BY <1>1, BeaconAssumption DEF Epochs
  <2>. QED  BY <1>1, <1>2, <2>1 DEF BeaconInv, EveryEpochDealt
<1>4. n \in Nat \ {0}
  BY CountsArePositive
<1>5. s \in 0 .. (n - 1) /\ r \in 0 .. (n - 1)
  BY <1>1, <1>3 DEF Dealt
<1>6. PICK N : N = Cardinality(ActiveOf(vs))
  OBVIOUS
<1>7. PICK order : order = Shuffled(e, vs)
  OBVIOUS
<1>8. /\ \A p \in 1 .. N : order[p] \in DOMAIN vs
      /\ \A p, q \in 1 .. N : order[p] = order[q] => p = q
  <2>1. Enumerates(order, ActiveOf(vs)) /\ ActiveOf(vs) \in SUBSET (DOMAIN vs)
    BY <1>7, ShuffledFacts
  <2>. QED  BY <1>6, <2>1 DEF Enumerates
<1>9. ASSUME NEW t \in 0 .. (n - 1), NEW x \in DOMAIN shard_committees[<<e, t>>]
      PROVE  /\ x \in Nat \ {0} /\ Index(n, t, x) \in 1 .. N
             /\ shard_committees[<<e, t>>][x] = vs[order[Index(n, t, x)]].address
  <2>1. shard_committees[<<e, t>>] = Committee(e, n, vs, t)
    BY <1>3 DEF Dealt
  <2>2. \A y \in DOMAIN Committee(e, n, vs, t) :
               /\ y \in Nat \ {0}
               /\ Index(n, t, y) \in 1 .. Cardinality(ActiveOf(vs))
               /\ Committee(e, n, vs, t)[y] = vs[Shuffled(e, vs)[Index(n, t, y)]].address
    BY <1>4, CommitteeFacts
  <2>. QED  BY <1>6, <1>7, <2>1, <2>2
<1>10. PICK p \in 1 .. N, q \in 1 .. N : p = Index(n, s, k) /\ q = Index(n, r, l)
  BY <1>1, <1>5, <1>9
<1>11. vs[order[p]].address = vs[order[q]].address
  BY <1>1, <1>5, <1>9, <1>10
<1>12. order[p] = order[q]
  BY <1>2, <1>8, <1>11
<1>13. p = q
  BY <1>8, <1>12
<1>14. k \in Nat \ {0} /\ l \in Nat \ {0}
  BY <1>1, <1>5, <1>9
<1>15. Index(n, s, k) = Index(n, r, l)
  BY <1>10, <1>13
<1>16. \A a, b \in 0 .. (n - 1), x, y \in Nat \ {0} : Index(n, a, x) = Index(n, b, y) => a = b
  BY <1>4, IndexIsUnique
<1>. QED  BY <1>5, <1>14, <1>15, <1>16

Isolated(k) ==
    /\ IsFinalized(k) => IsFinalized(k)'
    /\ \A c \in opened'[k] :
           /\ opened[k] = {}
           /\ c.epoch = current_epoch
           /\ \A i, j \in DOMAIN validators :
                  validators[i].address = validators[j].address => i = j
           => \A shard \in ShardsOf(current_epoch) \ {c.shard_id} :
                  \A i \in DOMAIN c.committee :
                      c.committee[i].address
                          \notin Range(shard_committees[<<current_epoch, shard>>])

LEMMA StepIsolated ==
    ASSUME BeaconInv, ConsensusInv, [ConsensusNext]_allVars, NEW k \in Instances
    PROVE  Isolated(k)
<1>1. ASSUME NEW c \in opened'[k], opened[k] = {}, c.epoch = current_epoch,
             \A i, j \in DOMAIN validators : validators[i].address = validators[j].address => i = j,
             NEW shard \in ShardsOf(current_epoch) \ {c.shard_id},
             NEW n \in DOMAIN c.committee,
             c.committee[n].address \in Range(shard_committees[<<current_epoch, shard>>])
      PROVE  FALSE
  <2>1. PICK epoch \in Epochs, s \in 0 .. MaxShard : ConsensusForShard(k, epoch, s)
    <3>1. opened'[k] # opened[k]
      BY <1>1
    <3>2. ~(UNCHANGED consensusVars)
      BY <3>1 DEF consensusVars
    <3>3. ASSUME NEW m \in Instances, NEW d, NEW a, NEW approve, CollectVote(m, d, a, approve)
          PROVE  FALSE
      BY <3>1, <3>3 DEF CollectVote
    <3>4. PICK m \in Instances, epoch \in Epochs, s \in 0 .. MaxShard : ConsensusForShard(m, epoch, s)
      BY <3>2, <3>3 DEF ConsensusNext, allVars
    <3>5. m = k
      BY <3>1, <3>4 DEF ConsensusForShard, ConsensusInv
    <3>. QED  BY <3>4, <3>5
  <2>2. /\ c.epoch = epoch /\ c.shard_id = s /\ c.committee = ValidatorsForShard(epoch, s)
        /\ <<epoch, s>> \in DOMAIN shard_committees
    <3>1. opened'[k] = {[epoch |-> epoch, shard_id |-> s,
                         committee |-> ValidatorsForShard(epoch, s)]}
      BY <2>1 DEF ConsensusForShard, ConsensusInv
    <3>2. c = [epoch |-> epoch, shard_id |-> s, committee |-> ValidatorsForShard(epoch, s)]
      BY <1>1, <3>1
    <3>. QED  BY <2>1, <3>2 DEF ConsensusForShard
  <2>3. epoch = current_epoch
    BY <1>1, <2>2
  <2>4. PICK i \in ActiveOf(validators), x \in DOMAIN shard_committees[<<epoch, s>>] :
            c.committee[n] = validators[i] /\ shard_committees[<<epoch, s>>][x] = validators[i].address
    BY <1>1, <2>2, MembersHaveSeats
  <2>5. PICK y \in DOMAIN shard_committees[<<current_epoch, shard>>] :
            shard_committees[<<current_epoch, shard>>][y] = c.committee[n].address
    BY <1>1 DEF Range
  <2>6. s \in ShardsOf(current_epoch)
    <3>1. <<epoch, s>>[1] = epoch /\ <<epoch, s>>[2] = s
      OBVIOUS
    <3>. QED  BY <2>2, <2>3, <3>1 DEF ShardsOf
  <2>7. s = shard
    BY <1>1, <2>3, <2>4, <2>5, <2>6, SeatsAreDisjoint
  <2>. QED  BY <1>1, <2>2, <2>7
<1>2. IsFinalized(k) => IsFinalized(k)'
  BY FinalityStays
<1>. QED  BY <1>1, <1>2 DEF Isolated

\* What an instance finalized stays final whatever votes, registrations, epochs and
\* governance updates follow, and the members of an instance opened for the current
\* epoch sit on no other committee of that epoch.
THEOREM InstancesStayIsolated == ConsensusSpec => InstancesAreIsolated
<1> DEFINE Step == \A k \in Instances : Isolated(k)
<1>1. BeaconInv /\ ConsensusInv /\ [ConsensusNext]_allVars => [Step]_allVars
  BY StepIsolated
<1>2. ConsensusSpec => [][Step]_allVars
  <2>. HIDE DEF Step
  <2>. QED  BY <1>1, ConsensusInvariant, PTL DEF ConsensusSpec
<1>. QED  BY <1>2 DEF InstancesAreIsolated, Isolated

=============================================================================
