------------------------------- MODULE Blocks -------------------------------
(***************************************************************************)
(* Blocks from proposal to fork choice: propose_block, sign_block_header   *)
(* and choose_heaviest_chain of src/consensus/mod.rs, validate_block of    *)
(* src/blockchain/validation.rs and calculate_merkle_root of               *)
(* src/blockchain/hash.rs.  Proposers take transactions from a mempool;    *)
(* the block reaches every node with its signed header, but with whatever  *)
(* list of transactions was sent along; nodes receive blocks in different  *)
(* orders and choose among the tips they know.                             *)
(*                                                                         *)
(* The timestamp of a proposal is its number, so no two headers are equal  *)
(* and the number stands for the header hash.  A signature is the pair of  *)
(* its signer and what was signed.                                         *)
(***************************************************************************)
EXTENDS Naturals, Sequences, FiniteSets, SequencesExt

CONSTANTS
    Nodes,
    Proposers,    \* validators that propose
    Txs,          \* transactions
    Pool,         \* those in the mempool of every proposer, which keeps repetitions
    TxSize,       \* encoded size of a transaction
    MaxSize,      \* MAX_BLOCK_SIZE_BYTES
    MaxTxs,       \* largest max_transactions passed to propose_block
    MaxBody,      \* bound on the transactions in a block that is received
    MaxProposals, \* bound on the proposals
    HashRank,     \* order of the header hashes
    Stakes        \* approve_stake a tally may show

ASSUME BlocksAssumption ==
    /\ Pool \in Seq(Txs)
    /\ TxSize \in [Txs -> Nat]
    /\ MaxSize \in Nat
    /\ MaxTxs \in Nat \ {0}
    /\ MaxBody \in Nat
    /\ MaxProposals \in Nat
    /\ HashRank \in [1 .. MaxProposals -> Nat]
    /\ \A i, j \in 1 .. MaxProposals : HashRank[i] = HashRank[j] => i = j
    /\ Stakes \subseteq Nat

VARIABLES
    proposed,  \* proposed blocks, in order
    tally,     \* tally[i]: approve_stake of the votes on block i
    validated, \* validated[n]: blocks node n validated, in the order of arrival
    pooled     \* pooled[v]: which places of Pool proposer v has not taken yet

blockVars == <<proposed, tally, validated, pooled>>

Genesis == 0

-----------------------------------------------------------------------------
\* hash_transaction, and the hash of a pair
HashTransaction(t) == <<t>>
HashPair(left, right) == <<left, right>>

\* Mutant: the last node of an odd level is dropped.
NextMerkleLevelDrops(level) ==
    [j \in 1 .. (Len(level) \div 2) |-> HashPair(level[2 * j - 1], level[2 * j])]

\* One turn of the loop: pairs are hashed, a last odd one with itself.
NextMerkleLevel(level) ==
    [j \in 1 .. ((Len(level) + 1) \div 2) |->
        HashPair(level[2 * j - 1],
                 IF 2 * j <= Len(level) THEN level[2 * j] ELSE level[2 * j - 1])]

CalculateMerkleRoot(transactions) ==
    LET level[k \in 1 .. Len(transactions)] ==
            IF k = 1 THEN [i \in DOMAIN transactions |-> HashTransaction(transactions[i])]
            ELSE LET below == level[k - 1]
                 IN  IF Len(below) > 1 THEN NextMerkleLevel(below) ELSE below
    IN  IF transactions = <<>> THEN <<>> ELSE level[Len(transactions)][1]

\* What of a header is signed: unsigned_block_header_bytes clears the signature.
Unsigned(header) ==
    <<header.previous_hash, header.merkle_root, header.timestamp, header.height,
      header.validator>>

Hash(header) == header.timestamp

SizeOf(block) ==
    LET sum[k \in 0 .. Len(block.transactions)] ==
            IF k = 0 THEN 0 ELSE sum[k - 1] + TxSize[block.transactions[k]]
    IN  sum[Len(block.transactions)]

-----------------------------------------------------------------------------
\* The header propose_block builds, and then signs
NewHeader(v, parent, transactions) ==
    LET header == [previous_hash |-> parent,
                   merkle_root |-> CalculateMerkleRoot(transactions),
                   timestamp |-> Len(proposed) + 1,
                   height |-> IF parent = Genesis THEN 1
                              ELSE proposed[parent].header.height + 1,
                   validator |-> v,
                   signature |-> <<>>]
    IN  [header EXCEPT !.signature = [by |-> v, over |-> Unsigned(header)]]

\* take_for_block: places of the mempool, in some order and up to max of them; at
\* least one if there is any, though the cap per sender may leave some behind (which
\* ones and in what order, Mempool says).  A transaction that was added twice may be
\* taken twice, and the size of what is taken is not looked at.
TakeForBlock(pool, max) ==
    LET n == Cardinality(pool)
        most == IF n < max THEN n ELSE max
        least == IF n = 0 THEN 0 ELSE 1
    IN  UNION {{places \in [1 .. k -> pool] : IsInjective(places)} : k \in least .. most}

\* propose_block on a parent the caller chose, and the votes on the block
ProposeBlock(v, parent, max) ==
    /\ Len(proposed) < MaxProposals
    /\ \E places \in TakeForBlock(pooled[v], max) :
           LET list == [k \in DOMAIN places |-> Pool[places[k]]]
           IN  /\ pooled' = [pooled EXCEPT ![v] = @ \ ToSet(places)]
               /\ proposed' = Append(proposed, [header |-> NewHeader(v, parent, list),
                                                transactions |-> list])
    /\ \E stake \in Stakes : tally' = Append(tally, stake)
    /\ UNCHANGED validated

ValidateBlockSize(block) == SizeOf(block) < MaxSize

\* validate_block: neither the height nor the choice of the proposer is checked.
ValidateBlock(block, expected) ==
    /\ ValidateBlockSize(block)
    /\ block.header.previous_hash = expected
    /\ block.header.merkle_root = CalculateMerkleRoot(block.transactions)
    /\ block.header.signature.by = block.header.validator
    /\ block.header.signature.over = Unsigned(block.header)

\* The lists of transactions a block may arrive with
TxLists == UNION {[1 .. k -> Txs] : k \in 0 .. MaxBody}

Known(n) == {Genesis} \cup {Hash(b.header) : b \in ToSet(validated[n])}

\* A node that knows the parent receives the header of a proposal with some list
\* of transactions, and keeps the block if it is valid on the parent.
Receive(n, i, parent) ==
    /\ i \notin Known(n)
    /\ proposed[i].header.previous_hash = parent
    /\ \E list \in TxLists :
           LET block == [proposed[i] EXCEPT !.transactions = list]
           IN  /\ ValidateBlock(block, parent)
               /\ validated' = [validated EXCEPT ![n] = Append(@, block)]
    /\ UNCHANGED <<proposed, tally, pooled>>

-----------------------------------------------------------------------------
\* The hash that block k builds on
Previous(k) == proposed[k].header.previous_hash

\* The blocks from the first one to block i
Chain(i) ==
    LET chain[k \in 0 .. Len(proposed)] ==
            IF k = Genesis THEN {} ELSE {k} \cup chain[Previous(k)]
    IN  chain[i]

\* cumulative_chain_weight of the tallies of these blocks
CumulativeChainWeight(i) ==
    LET weight[k \in 0 .. Len(proposed)] ==
            IF k = Genesis THEN 0 ELSE tally[k] + weight[Previous(k)]
    IN  weight[i]

\* The ChainFork of a tip
ForkOf(i) ==
    [tip_hash |-> i, height |-> proposed[i].header.height,
     weight |-> CumulativeChainWeight(i)]

\* Mutant: forks of the same weight are equal.
CompareWeightOnly(left, right) == left.weight <= right.weight

\* left is not greater than right: weight, then height, then tip hash.
Compare(left, right) ==
    \/ left.weight < right.weight
    \/ left.weight = right.weight /\ left.height < right.height
    \/ /\ left.weight = right.weight
       /\ left.height = right.height
       /\ HashRank[left.tip_hash] <= HashRank[right.tip_hash]

\* choose_heaviest_chain: max_by keeps the later one of equal elements.
ChooseHeaviestChain(forks) ==
    LET best[k \in 1 .. Len(forks)] ==
            IF k = 1 THEN forks[1]
            ELSE LET before == best[k - 1]
                 IN  IF Compare(before, forks[k]) THEN forks[k] ELSE before
    IN  best[Len(forks)]

\* The tips a node knows, in the order in which it learned of them
Forks(n) == [k \in DOMAIN validated[n] |-> ForkOf(Hash(validated[n][k].header))]

-----------------------------------------------------------------------------
BlocksInit ==
    /\ proposed = <<>>
    /\ tally = <<>>
    /\ validated = [n \in Nodes |-> <<>>]
    /\ pooled = [v \in Proposers |-> DOMAIN Pool]

BlocksNext ==
    \/ \E v \in Proposers, parent \in {Genesis} \cup DOMAIN proposed :
       \E max \in 1 .. MaxTxs : ProposeBlock(v, parent, max)
    \/ \E n \in Nodes : \E i \in DOMAIN proposed, parent \in Known(n) :
           Receive(n, i, parent)

BlocksSpec == BlocksInit /\ [][BlocksNext]_blockVars

-----------------------------------------------------------------------------
\* b is a, or a followed by repetitions: every further transaction is the one a
\* power of two, the width of a doubled node, before it.
RepeatsTail(a, b) ==
    LET width[e \in 0 .. Len(b)] == IF e = 0 THEN 1 ELSE 2 * width[e - 1]
    IN  /\ IsPrefix(a, b)
        /\ \A j \in (Len(a) + 1) .. Len(b) :
               \E e \in 0 .. Len(b) : width[e] < j /\ b[j] = b[j - width[e]]

\* The signed header commits to the transactions.  A node that validated a block
\* has the list its proposer took, up to repetitions at its end, which the doubling
\* of odd nodes cannot tell apart: copies may have been added, and copies that the
\* proposer took may be missing.  Never is there another order or a foreign
\* transaction, and never is one missing altogether.  And what a proposer builds is
\* valid on its parent, unless its transactions exceed the size limit, which
\* propose_block does not look at.
BodyIsCommitted ==
    /\ \A n \in Nodes : \A block \in ToSet(validated[n]) :
           LET taken == proposed[Hash(block.header)].transactions
           IN  /\ \/ RepeatsTail(taken, block.transactions)
                  \/ RepeatsTail(block.transactions, taken)
               /\ ToSet(block.transactions) = ToSet(taken)
    /\ \A i \in DOMAIN proposed :
           ValidateBlock(proposed[i], proposed[i].header.previous_hash)
               <=> ValidateBlockSize(proposed[i])

\* Fork choice converges: nodes that know the same tips choose the same one,
\* whatever the order they arrived in; and no node settles on a block when it
\* knows a descendant of it, even one that nobody voted for.
ForkChoiceConverges ==
    \A n, m \in Nodes : validated[n] # <<>> /\ Known(n) = Known(m) =>
        LET choice == ChooseHeaviestChain(Forks(n))
        IN  /\ choice = ChooseHeaviestChain(Forks(m))
            /\ \A i \in Known(n) \ {Genesis, choice.tip_hash} :
                   choice.tip_hash \notin Chain(i)

=============================================================================
