# Formal model of the Prims node

TLA+ modules, TLC configurations and TLAPS proofs for the core of Prims, a
proof-of-stake blockchain node in Rust. Paths below are those of the repository
(`src/consensus/mod.rs` is the file of that name in its `src` directory).

## 1. The system

Prims is one Cargo crate: a library with the ledger's logic and binaries around
it. Nothing in the repository runs consensus rounds over the network yet; the
library offers the operations, and the node wires the mempool, the storage, the
RPC server and the gossip network together.

| Component | State | Operations | Interacts with |
|---|---|---|---|
| Mempool (`src/consensus/mod.rs` 22-269) | one task per partition, owning a `Vec` of transactions and a bounded channel of commands | `add_transaction_async`, `len_async`, `pending_transactions`, `take_for_block` | RPC, gossip loop and block production hold clones of the handle |
| Votes, finality, slashing (`src/consensus/mod.rs` 272-489) | `VoteCollector.votes_by_voter`, stakes of the validators | `create_signed_vote`, `collect_vote`, `tally`, `is_block_finalized`, `detect_double_vote`, `slash_validator_for_double_vote` | stakes read at every tally |
| Rewards, proposer (`src/consensus/mod.rs` 491-633) | none: functions of stakes and votes | `annualized_inflation_reward`, `distribute_voting_rewards`, `select_proposer_by_seed` | collector and stakes |
| Cross-shard protocol (`src/sharding/mod.rs` 296-459) | `CrossShardExecution`, a value that callers pass around | prepare, validate, commit, receipts, execution proofs, global finality | reads the shard count, which governance changes |
| Beacon chain (`src/sharding/mod.rs` 197-597) | validators, epoch, committees, shard state roots | register, replace, advance epoch, governance update, store root | rebuilds committees |
| Shard consensus (`src/sharding/mod.rs` 99-137, 244-294) | a copy of a committee and a vote collector | `consensus_for_shard`, `collect_vote`, `is_finalized` | copies from the beacon chain |
| Storage (`src/storage/mod.rs`) | a RocksDB: accounts, contracts, slots, blocks, notes, indexes | puts, gets, one batch | shared by all threads without a lock |
| Contract VM (`src/vm/mod.rs`) | staged writes, pending transfers, events and fuel of a call | host functions, `execute_contract_call` | storage |
| Transaction admission (`src/api/mod.rs`, `src/blockchain/validation.rs`) | none of its own | `send_transaction` | storage, VM, mempool |
| Notes and conversion (`src/privacy`) | tree of commitments, account's notes | tree, proofs, both conversions | accounts |
| Anonymous transfers (`src/privacy/mod.rs` 396-975) | none: functions of a witness | native rules, circuit, proofs | note tree |
| Blocks (`src/consensus/mod.rs` 386-407, 635-738, `src/blockchain`) | none: functions of a mempool, a key and lists of forks | `propose_block`, `validate_block`, `calculate_merkle_root`, `choose_heaviest_chain` | take transactions from the mempool |
| Peer penalties (`src/network/connection.rs`, `node.rs`) | counters and times per peer | accept, disconnect, invalid message | the driver of the node |
| Event loop and gossip (`src/main.rs`, `src/network`) | `message_sent`; the swarm of libp2p | one event at a time; publish transaction, block, vote | adds to the mempool and waits for it |
| Command line wallet (`src/bin/prims-cli.rs`) | none between commands; a key file | send, stake, unstake, create and call contract, generate-key, flood | RPC, gossip |
| Explorer and faucet (`src/bin/prims-explorer.rs`) | the key of the faucet | faucet transfer, pages | RPC |
| Set-up tool (`src/bin/prims-setup.rs`) | four files in a directory | init, contribute, finalize, inspect | operators share the directory |

What is hard to get right here: the mempool is a set of actors with bounded
channels, requests that span several of them and callers that may be dropped at
any await; votes arrive late, twice, in any order, while slashing changes the
stakes they are weighed with; cross-shard executions and shard committees are
copies that outlive the state they were taken from; the database is used by many
threads in several puts per operation, and the process may stop between them;
admission decides on an account it read before it acts, and wallets sign with a
nonce they read in an earlier call, over connections that fail while a request is
under way; nodes learn of blocks in different orders; the load generator retries
against limits; the set-up tool and the key generator rewrite files in place and
may be killed. `PROJECT.json` lists
these hazards with the line at which each one bites.

Properties that make each component correct, in words: the mempool loses,
doubles and reorders nothing, respects its caps and always answers; two
conflicting blocks are never both final and honest stake is never slashed; global
finality of a cross-shard execution means three genuine receipts; every active
validator has its seat and past epochs stay as they were; only a call that
returned leaves writes behind; what is admitted was affordable and what is
acknowledged was queued, also as the user of a wallet sees it; conversions conserve
value; a ban is served and ends; a signed header commits to the transactions of its
block and fork choice converges; a flood sends every nonce once and ends; a
generated key is never lost and one configuration means one key; a set-up ceremony
can be audited.

## 2. Modules

| Module | Models | Composes / uses |
|---|---|---|
| `Mempool` | partition tasks, channels, oneshots, all operations, cancelled callers | |
| `AddressHash` | `partition_for_address` | instantiated by `MCMempool` |
| `MempoolScan` | the selection loop of a partition task, iteration by iteration | extends `Mempool` |
| `SenderQueues` | what the mempool promises: a queue per sender | abstract |
| `MempoolRefinement` | refinement mapping from `Mempool` to `SenderQueues` | both |
| `VoteFinality` | signing, collecting, tallying, finality, slashing | |
| `ValidatorRewards` | inflation, distribution, proposer draw | extends `VoteFinality` |
| `CrossShard` | phases, receipts, proofs of executions, governance | |
| `BeaconChain` | validators, epochs, committees, roots | |
| `ShardConsensus` | consensus values opened from the beacon chain | extends `BeaconChain` |
| `ContractStorage` | deployment, contract calls, storage root, crashes | |
| `ContractVM` | host functions, memory ranges, fuel and outcomes of calls | extends `ContractStorage` |
| `NodeStorage` | blocks and notes with their indexes, crashes | |
| `TxAdmission` | `send_transaction` and the gossip path | |
| `Wallet` | the wallet's commands and the faucet against the node, failing connections | extends `TxAdmission` |
| `Blocks` | proposal, Merkle root, validation, fork choice | |
| `Gossip` | the event loop of the node, `flood` and other peers as senders | |
| `KeyFiles` | generate-key and the three programs that load a key | |
| `SetupCeremony` | the commands of the set-up tool over their files, crashes, overlap | |
| `NoteMerkle`, `NoteConversion` | the commitment tree and both conversions | second extends first |
| `ZkTransfer` | the rules of an anonymous transfer, native and as a circuit | extends `NoteConversion` |
| `PeerPenalty` | bans and reconnection delays | |
| `MempoolProofs` | theorems about the mempool, its selection loop and its refinement | extends `MempoolScan` and `MempoolRefinement` |
| `VoteFinalityProofs` | theorems about finality, rewards and the proposer draw | extends `ValidatorRewards` |
| `CrossShardProofs` | theorems about cross-shard executions | extends `CrossShard` |
| `BeaconChainProofs` | theorems about the beacon chain and shard consensus | extends `ShardConsensus` |
| `ContractVMProofs` | theorems about contract storage and machine | extends `ContractVM` |
| `WalletProofs` | theorems about admission and wallets | extends `Wallet` |
| `NoteConversionProofs` | theorems about note tree, conversions, anonymous transfers | extends `ZkTransfer` |
| `NodePartsProofs` | theorems about penalties, node storage, key files, ceremony, gossip, blocks | extends these six modules, which share no state |
| `MC...` | constants, bounds and symmetry for TLC | |

`PROJECT.json` maps every definition to the lines it stands for. Operators whose
comment begins with "Mutant:" are plausible bugs: replacing the definition that
follows by its mutant must violate a property. They are not used by any action.

### How state and actions correspond to the code

**Mempool.** A partition's `Vec` is `log` (everything ever pushed, in order) with
`transactions` (the positions still there), which gives equal transactions an
identity. `inbox[p]` is the mpsc channel; a full one blocks `SendAdd` and
`Request`. `pc`, `part` and `wait` say which loop over the partitions a client is
in, which partition it has reached and whether its request is unsent, sent or
answered; `reply` is the oneshot. `Handle(p)` is one iteration of the task's
`while let Some(command)`: add, take, len or pending with the answer.
`Cancel` drops a caller's future at an await: its requests stay in the channels,
with no receiver. `take_for_block` is its whole loop: it counts first, returns
early when the count or the limit is zero, then takes from each partition what
is left of the limit. The partition task's selection is stated in closed form
(`SelectForBlock`); `ScanLoop` is the loop as written and
`LoopSelectsClosedForm` compares the two in every reachable state.
`MempoolRefinement` maps this to `SenderQueues`: a sender's queue is what it has in
the `Vec` of its partition followed by what it has in the channel, so that an addition
joins the queue when it is sent, not when the task gets to it.

**VoteFinality.** A stake is a set of units, so that slashing removes units and
quorum intersection is about sets. `signed` is every signature made (a vote
verifies exactly if it is in it), so delivery in any order and any number of times
is `CollectVote` on any signed vote. `Decide` calls `is_block_finalized` and
remembers the result. `CallerRoutes` says whether callers hand a collector only
the votes on its block: the code does not compare them. In `ValidatorRewards` the
validators are the positions of `Order`, their list by address; rewards belong to
positions, and the loops that add up are sets of units counted.

**CrossShard.** `exec[s]` is the execution a caller holds; `Foreign` are values
that were deserialized. Digests are tuples of what they digest.

**BeaconChain, ShardConsensus.** The vectors searched by epoch and shard are
functions of the pairs present. `Score` stands for the seeded hash; collisions are
allowed. A sort puts an element where the number of those before it says (`InOrder`),
ties in the order they had, as Rust's stable sorts leave them; a shard's committee
is every `shard_count`-th of the shuffled validators. An instance keeps the committee it copied.

**ContractStorage, NodeStorage.** One step per database operation; `Crash` resets
what is in memory. A storage root is the slot map it hashes. `contested` are the
heights at which one block replaced another.

**ContractVM.** The contract is arbitrary code that calls host functions with any
memory ranges and amounts; a host function that fails ends the call (`TrapCall`),
so the guards of the `Host...` actions are the conditions of success. What is
copied into the memory of the contract is not kept. `Spend` is the fuel a call
burns at the least. `funds` is the stored account of a contract, written by
deployments and by whoever credits or debits it; `payers` remembers, for every
transfer, the account it was prepared from. `Outcome` is what
`execute_contract_call` returns after the commit; a crash in between loses it.

**TxAdmission.** One step per suspension point of `send_transaction`; between
the read of the account and the checks the account may be written. Of a
transaction's data only what the checks look at is kept: none, empty, too large, a
call with everything it needs, other bytes.

**Wallet.** `wallet[c]` is a command or a faucet request between its two calls to
the node: the one that reads the nonce and the one that sends the transaction.
`wire` holds requests on their way, `caller[r]` the wallet that waits for request
`r`. `Fail` is every way in which a call of the wallet ends without an answer: its
request may be lost, may arrive later or may already be worked on. `Dropped` is
the server dropping the future of a request nobody waits for.

**Blocks.** `validated[n]` are the blocks node `n` accepted, in the order of
arrival. The mempool removes no duplicates, so what a proposer has is a list (`Pool`)
with the places still in it (`pooled`), and a block may take one transaction several times. A
block arrives with its signed header and *any* list of transactions
(`TxLists`); what `ValidateBlock` lets through is the question. A proposal's
number stands for its timestamp and so for its header hash; `HashRank` orders the
hashes differently. Weights come from tallies of the votes, chosen freely.

**Gossip.** `FloodAt` names the phase of `flood`; a deadline is a step that is always
possible in its phase. The receiving node is in `loop` while it waits for the
mempool. libp2p changes subscriptions, refuses to publish, loses and reorders.

**KeyFiles.** File contents and variables are texts by what parsing tells apart:
a key in hexadecimal, digits of another number, other characters, JSON with either
field, a ciphertext. A program is told a file, a variable, both or neither: the file
goes first, and one that is missing is an error, never replaced by the variable. `gen[w]` is a generate-key between its prompts, the creation
of the file and its write.

**SetupCeremony.** A command is `Begin` (which reads and decides), then for each
file it writes `OpenFile` (truncation) and `WritePart`, one flush after another at the
offset it has reached, and `Report` at the end. A file is a list of parts, each with the
content it is a part of: a file two commands write to at once is a mixture, with a
`Hole` where one of them wrote behind the end the other had set, and it can be read
exactly if it ends where the texts say (`IsWhole`). `LastFlushFails` is the error that
`write_json_pretty` never sees. `Abort` is a kill or an error at any point, before a
file is opened, between two parts or after the last write and before the report.
`mixed` remembers that two commands had one file open.

**NoteConversion, PeerPenalty.** One action per function, with the caller that
stores the result; time and stale proofs are inputs.

**ZkTransfer.** `VerifyPublicInputs` is the native check, `CircuitSatisfied` the
constraints; Groth16 is external: a proof that verifies exists for the witnesses that satisfy
the constraints and have the one shape the keys are generated for (`FitsKey`), which is
`VerifyTransferProof`. `generate_constraints` makes the native check before it lays down
constraints; a verifier does not see that check, so it is left to
`GenerateTransferProof`, the prover of this program. All are evaluated in
every state of `NoteConversion`, with the proofs the wallets hold. The circuit
adds modulo the word size and has no constraint against zero values and keys,
which the native check refuses; `TransferRulesAgree` says that this is all the
difference, and `ProofConservesValue`, which is violated, what the wrapping costs. No code
applies an `AnonTransaction` to the tree, so there is no action
for it, and nothing in the public inputs tells which note was spent.

## 3. Runs

All runs use two TLC workers and finish in less than five minutes.

| Run | Instance | What it shows |
|---|---|---|
| `Mempool_safety` | 2 clients, 3 senders over 2 partitions routed by the real hash, 3 submissions of 3 transactions, channel capacity 1, cap 1, limit 2 | nothing is lost, doubled, over the cap or out of order; answers reach the call that asked; a length includes the caller's own earlier adds; the selection loop equals its closed form |
| `Mempool_liveness` | 2 transactions of one sender, limit 1 | every call returns; the mempool implements `SenderQueues` |
| `VoteFinality_safety` | stakes 3, 2, 1 honest and 3 Byzantine, two blocks at one height and one at the next, penalties 0, 50 and 100 % | agreement, honest stake kept, finality withdrawn by slashing only; rewards paid in full and fairly and the draw proportional to stake in every state reached |
| `VoteFinality_mixed` | the same, callers do not sort votes | **violated**: see section 6 |
| `ShardConsensus_safety` | 3 addresses, one without stake at first and one registered twice, colliding scores, 2 epochs, 1 or 2 shards, roots of the right and of a wrong length, 2 consensus values | seats are dealt evenly; a rebuild freezes past epochs, isolates roots and is complete; values with one committee agree; instances are isolated: finality is stable while the beacon chain moves on, committees are disjoint |
| `ContractStorage_concurrent` | 2 threads, 2 keys, crashes, direct writes, fuel limits 0 and 2, ranges that fit, are empty, negative and too long, amounts -1, 0 and 2, balances 0 and 3 | accounts have contracts, only a crash leaves a contract without account, only calls that returned leave writes, outcomes are earned |
| `ContractStorage_race` | 2 threads, calls only, of a contract that has been deployed | **violated**: see section 6 |
| `Node_parts` | six parts, one moving at a time. Storage: 2 writers, 2 blocks competing for a height and one above, 3 notes of 2 owners, crashes. Blocks: 2 nodes, 3 proposals, a mempool with one transaction three times and one that fills a block, proposals and bodies of up to 4. Penalties: 2 peers, ban 3, delay 2, time to 6 and 4 invalid messages each. Keys: 2 generate-key, every form of key file and variable. Ceremony: 2 operators, 3 commands, files in parts, kills, `--force`. Executions: routes that need two and four shards and one that is no route, proposals 0 to 4, received executions with any flags and up to three receipts out of genuine and doctored ones | `SavedIsFound`: indexes never dangle, what was saved is found, a note by its owner only, a replaced block's hash leads elsewhere only at a contested height. `BodyIsCommitted`, `ForkChoiceConverges`. `BansAreExact`, `OffencesAreCounted`. `ConfiguredKeyLoads`. `CeremonyIsAuditable`. `FinalMeansThreeReceipts`: finality means three genuine receipts; `PhasesKeepVerdict`, `FinalityOutlivesPhases` |
| `Wallet_safety` | a wallet and the faucet with one key, 3 commands, 2 requests at the node, an account that is missing, moves on or not, words of 3 values, one foreign transaction with `amount + fee` at the word size | what is admitted was affordable without wrap-around; a user told `accepted` has exactly this transaction queued, and its call has run; whatever a wallet sends is refused only for what it could not know or was asked for, and is admitted only with the nonce right after the account's |
| `NoteConversion_safety` | 2 accounts, up to 4 notes, equal notes included, a stale proof; transfers with one or two inputs, good and bad outputs and sums that wrap | value is conserved, in accounts and tree; proofs are exact and no note is stranded; the two forms of the transfer rules agree |
| `NoteConversion_circuit` | the same | **violated**: see section 6 |
| `Gossip_flood` | up to 2 transactions, starting in the middle and at the top of a two-bit word, limits 1 and 2 on attempts, messages of other peers of several kinds, 2 subscriptions | `GossipIsExact`: every nonce published once and in order, the node queues what was published and decodes, its own message goes out at most once. `FloodEnds`: flood ends and the event loop gets back to its events |

**Why the bounds are enough.** A channel of capacity 1 is full with a single
command, so every wait for room that 1024 allow happens; two clients give every
pairwise interleaving, and transactions, partitions and senders are so few that
each property still has a case on either side of it (two senders on one
partition, a cap of one with two transactions, a limit below the number queued).
Limit zero, at which a take returns at once, is left out: `propose_block` refuses it.
The stakes of `VoteFinality_safety` make the Byzantine share exactly a third and
allow exactly two thirds for a block, the two boundaries of the rule.
Words of three values put `amount + fee` at the word size, and a nonce too, where
`saturating_add` repeats it. Three commands are enough for one that failed, whose
request is still under way, next to two more with the same key. Three proposals make
a fork with a longer branch. Four places make a Merkle tree with an odd level above
the leaves when three of them are taken, and bodies of four the smallest list whose
root equals that of a list of three; with one transaction at three of the places the
longer of the two may be the proposal or the body. Three commands of the set-up tool
make init, contribute and finalize in sequence, or two of any kind that overlap after
the first; with two operators and three commands a file with mixed texts that can be
read and is no chain, an unreported contribution in a whole file and metadata over two
contributions are all reached. (With four commands the ceremony part alone has 613 302
states and passes too; it is left out of the run for its time.) `Node_parts` is a sum: `part` is fixed at the start and the
variables of the other five parts never move, so its states are those of six
separate instances; nothing in the code relates these parts. `Related`, the state
constraint of `ShardConsensus_safety`, leaves out states that combine an open
consensus value with a hand-written root, or values of two different shards;
they share no state, and the properties relate values of one shard only. `MaxTime`
of `PeerPenalty` is the top of `u64`, so the saturation of the ban's end is
reached. The remaining bounds (`MaxSubmissions`, `MaxReceipts`, `MaxCount`,
`MaxNotes`, `MaxProofs`, `MaxMessages`, `MaxEpoch`, `MaxValidators`, `MaxQueued`,
`MaxCommands`, `MaxProposals`, `MaxBody`, `MaxSubs`) limit counters that
grow for ever in the code and only stop a behaviour.

**Symmetry** is used over clients, callers, writers, requests, peers and
consensus values where nothing distinguishes them, and in safety runs only.

**Fairness** (`Mempool_liveness`): weak fairness of `Handle(p)`, a spawned tokio
task that is ready whenever its channel holds a command; weak fairness of
`Receive(c)`, a future woken by its oneshot; strong fairness of `SendAdd(c)` or
`Request(c)`, the send a caller is waiting in, because tokio's mpsc hands permits to waiting senders in order, so a
sender that finds the channel with room again and again gets its turn. New calls
and cancellations are not assumed to happen. In `Gossip_flood`: weak fairness of
`FloodStep`, because `flood` is a sequential program whose waits all have a time
limit, and of `AddReturns`, which is what `Mempool_liveness` shows. Connections,
subscriptions and deliveries are not assumed to happen.

**Deadlock.** Checked in every run but two, because the bound of one operation leaves
others enabled. `Gossip_flood` and `Node_parts` may stop: flood is over and all
messages are handled, all proposals are received, or all commands of the ceremony have
been used.

## 4. Proofs

The theorems hold for all values of the constants that satisfy the `ASSUME`
of the module: no bound on clients, partitions, capacity, validators, slots,
threads, peers, requests, wallets, operators, nodes, blocks, transactions in a block,
accounts or notes. The bounds that stop a run (`MaxProposals`, `MaxCommands`, ...)
are any natural number. Where a property of section 3 is named, the run checks it on
an instance and the theorem states the same definition.

*Mempool* (from `MempoolAssumption`). `Safe` = `TypeOK` /\ `RequestProtocol` /\
`Gathering`. `RequestProtocol` pairs each command in a channel with the one call
that waits for it; without it the type of an answer, and which client it goes to,
could not be known, and `Gathering` (what a running take holds is within its
limit and in the logs) would not be preserved by an answer. From `Safe`,
`Conserved` = `NoTransactionLost` /\ `NoTransactionTwice` /\ `SenderFifo` /\
`BlocksInLog` is inductive over what each step does to the positions in the
`Vec`s, in answers on their way, in the hands of callers and in blocks; `Capped`
adds that every sender's transactions are on one partition (`Routed`), which is
why a cap per partition is a cap per block. The selection is characterised once
(`SelectionFacts`: the first eligible positions, at most the limit, an initial
segment of each sender's).
`LoopIsClosedForm` is about the loop of the task as it is written: by induction over
its iterations the counters are the numbers selected per sender and the selection is
the closed form cut off at the iteration.
`LenSeesEarlierAdds` needs an invariant about places in channels, `EveryoneOwns`: for
every caller there is a set of positions, as many as it has had additions acknowledged,
that these additions have in a log or will get once the commands before them are
served (`Reach`); while the caller counts, its request travels behind them in its
channel, and the partitions it has passed reported at least those of them that nobody
had taken. A position that is taken stays taken, which is why a length may be outdated
and yet not too small.
`MempoolIsSenderQueues` is the refinement, step by step. Sequences of transactions
are named by the positions they have in a log or channel, in ascending order; lemmas
say what such a listing does when a last position is added, when the set is cut in two
and when all positions shift by one. Requests, answers to `len` and `pending`, dropped
calls and the actor receiving an addition leave every queue as it was; `SendAdd` is
`Submit`. A `TakeForBlock` command is `HandOut`: by `Conserved` what a sender has in
the `Vec` follows all it has been handed out, so an initial segment of its positions is a
prefix of its queue; by `Routed` the cap of the partition is the cap per sender, and by
`LimitGiven` and `Gathering` the command asks for no more than a limit some caller gave.
Theorems: `TypeCorrect`, `RequestsAreMatched`, `TakeStaysWithinLimit`,
`NothingIsLost`, `NothingIsTakenTwice`, `SendersLeaveInOrder`, `SendersAreCapped`,
`LoopIsClosedForm`, `LenSeesEarlierAdds`, `MempoolIsSenderQueues`.

*VoteFinality* (from `VoteAssumption`). `VoteInv` = `TypeOK` /\
`HonestNeverSlashed` /\ `CollectedOnce` /\ `SignedOk` /\ `RoutedVotes` /\
`DecidedQuorum`. Agreement is not inductive: the tally is taken with the stakes
of the moment, and a later slashing takes away the evidence. `DecidedQuorum`
remembers what survives: honest units that approved a decided block, more than
two thirds of the total less the Byzantine ones. Two such sets for two blocks of
one height intersect in an honest validator, which signs once per height.
`FinalityIsStable` is the action property: a step other than slashing a voter of the
collector can only add approving stake, and the total is the same.
Theorems: `VotesAreSound`, `FinalityIsSafe`, `FinalityIsStable`.

*ValidatorRewards* (also from `RewardAssumption`: `Order` lists every validator once).
Both theorems are about every state votes and slashing lead to and need no more than
its types. The cumulative stakes cut the possible draws into intervals, one per
validator and as long as its stake, and a draw selects the validator in whose interval
it falls. For rewards, partial sums over the positions of the participants bound what
rounding down loses: less than a unit for each of them. The remainder is therefore
smaller than their number, one unit each to the first of them pays it out, and no
reward is more than a unit off its exact share. A final block has a participant with
stake, since the approving stake is part of the participants': the division by the
voting stake is defined. Theorems: `ProposerDrawIsFair`, `RewardsAreFair`.

*CrossShard* (from `CrossShardAssumption`). `CrossTypeOK` /\ `OnePerSlot`. Theorems:
`TypeCorrect`, `FinalityNeedsReceipts`, and the action properties `VerdictIsKept`
and `FinalityIsKept`, by cases on the phase whose flag a step sets.

*BeaconChain and ShardConsensus* (from `BeaconAssumption`). `PastIsKeptAndPresentIsWhole` is an action
property over `EpochsReached`: committees exist for epochs up to the current one
only. Without it a rebuild of the next epoch could replace committees that were
already there. `BeaconInv` adds that the number of shards is one that validation lets
through and `EveryEpochDealt`: the committees of each epoch are those dealt from *some*
validators to *some* such number of shards, for the current epoch from the present
validators. It has to be said of every epoch that way, because a governance update and a later
registration leave nothing else to compare an old epoch with. A sort by rank is a
bijection for every strict order; dealing by index modulo the number of shards then
gives every position one seat, and sizes differ by one at most.
`ConsensusInv` for the consensus values: a value is opened once (`OpenedOnce`), what it
has collected was signed for its epoch, shard and block (`BallotsAreSigned`), and a
validator signs one block per epoch and shard (`SignedOnce`; votes that break this rule
are the subject of `VoteFinality`). Two values with one committee have equal stakes to
weigh, so two quorums share a member;
finality stays because a value owns its copy of the committee. Theorems:
`PastIsKeptAndPresentIsWhole`, `EverySeatIsDealt`, `ConsensusKeepsBeacon`,
`SameCommitteeNeverForks`, `InstancesStayIsolated`.

*ContractStorage* (from `ContractStorageAssumption`). `IInv` = `TypeOK` /\
`AccountHasContract` /\ `ContractHasAccount` (together
`ContractsHaveAccounts`) /\ `OnlySuccessfulCallsPersist` /\ `Underway`, where
`Underway` says that an operation past its first check works on
a contract that exists; it is what makes `PutAccount` and the commits safe.
Theorems: `StorageIsSound`, `DeployedContractsHaveAccounts`.

*ContractVM* (also from `ContractVMAssumption`). `VMImplementsStorage`: every step
of the machine is a step of `ContractStorage` or leaves its variables alone, so the
storage invariants carry over. `VMInv` = `IInv` /\ `VMTypeOK` /\ `AllCovered` /\
`Limited` /\ `WithinLimit` /\ `WritesCommitted`. `AllCovered` pairs every transfer, by its place in the
list, with the account it was prepared from, so later credits and debits do not
matter to it; `Limited` says that a call runs on a limit that is not zero, `WithinLimit`
balances fuel and effects against it. Theorem: `OutcomesAreEarned`.

*TxAdmission and Wallet* (from `TxAdmissionAssumption`, `WalletAssumption`). `IInv` =
`TypeInv` /\ `NodeInv` /\ `NonceInv` /\ `OneOutstanding` /\ `AcceptedAreQueued`.
`NodeInv` says what was done for a request by how far it has come; `NonceInv` that
the nonce a wallet read, and one more for what it sent, are not beyond the account,
which only moves forward: this is why an admitted transaction of a wallet leaves no
hole. `OneOutstanding` says that a wallet waits for one request at most, on the wire
or at the node, and for the very transaction it built; without it the answer to
an earlier attempt could reach the next command. Theorems:
`AcceptedTransactionsAreQueued`, `AdmissionIsAffordable`, `WalletsFitTheChecks`.

*NoteConversion and ZkTransfer* (from `ConversionAssumption`, `TransferAssumption`).
`ConversionInv` = `TypeInv` /\ `TreeIsTracked` /\ `HintsAreDue` /\ `TotalKept`.
`ValueConserved` counts the commitments that are somewhere; the induction needs the
count for every commitment, because a conversion brings in a new one. Sums over
accounts and lists are folds, characterised by lemmas that add, change and remove one
element. `NoForeignLeafVerifies` is about the tree alone: by induction from the root
down, the hash that a verifying proof has computed after k siblings is a node of
level k; leaf and inner hashes are told apart by their tags. `ProofsAreComplete` goes
the other way, odd levels included. `ProofsStayExact` has one hypothesis of its own,
`SumOver(Supply) < WordSize`: converting back adds with a check for overflow, and a
supply beyond a u64 could strand a note. No constant of the code bounds the supply;
`docs/genesis_parameters.md` fixes it at 1 000 000 000. `TransferRulesAlwaysAgree`
needs that the proofs in the wallets are of notes (`ProofsAreOfNotes`); that a note
spent is in the present tree is `NoForeignLeafVerifies` again. Theorems:
`ConversionsConserveValue`, `NoForeignLeafVerifies`, `ProofsStayExact`,
`TransferRulesAlwaysAgree`.

*Blocks* (from `BlocksAssumption`). `BlocksInv`: a header's parent is an earlier
proposal and its height one more than its parent's (`HeadersLinked`), tallies and
proposals are as many, nodes hold proposals only. Weights and chains are recursive
along the parents, so everything about them is by induction over the number of the
proposal; a descendant is higher and at least as heavy. `Compare` is a total order
because hashes differ, and the maximum of a list under it does not depend on the
order of the list: `ForkChoiceAlwaysConverges`. `BodyInv` adds that headers commit to
the transactions taken and validated blocks have the header of a proposal. `MerkleCommits`:
two lists with one root, of any transactions and repetitions, are equal or one of them is
the other with transactions repeated at its end. The proof goes from the root down and
relates the two trees level by level: on each level one is the other with nodes repeated
at its end, at distances that are powers of two. Theorems: `ForkChoiceAlwaysConverges`,
`BodyStaysCommitted`.

*PeerPenalty* (from `PenaltyAssumption`). `PenaltyInv` = `TypeOK` /\ `BanMatches`: the
time a ban ends is the one computed from the last offence, or it has passed. Counting
is modulo the limit (`RemainderFacts`). Theorems: `BansServedAndLifted`,
`NoOffenceIsForgotten`.

*NodeStorage* (from `NodeStorageAssumption`). `StorageInv`: an entry is put before its
index, whoever else writes and wherever a crash falls, and only another block for the
height replaces a block. Theorem: `SavedBlocksAndNotesAreFound`.

*KeyFiles* (from `KeyFilesAssumption`). `KeysInv`: the file belongs to the one
generate-key that created it, and to it for ever once it has written. Theorem:
`GeneratedKeysStayUsable`; its second half, the three parsers, is by cases on what is
configured and on the forms of a file.

*SetupCeremony* (from `SetupAssumption`). `CeremonyInv`: files are mixed only where
commands overlapped, and as long as none is mixed, `Sound` holds. It says of every command
under way that what it writes is a chain, or the keys and metadata of one (`CommandOk`);
of every open file that it holds exactly the parts its command has written (`Placed`),
which is what a mixture breaks and why `mixed` is an exception; of the state file that
it is otherwise an initial part of some chain (`StateFile`), so that a file that can be
read is the whole of one; and, for commands that run one at a time, that the state on
its way, or in the file, has what was reported (`Alone`, `ReportedIsThere`). That
metadata belong to their keys (`KeysBelong`) needs that, besides, no finalize was forced.
Theorem: `CeremonyStaysAuditable`.

*Gossip* (from `GossipAssumption`). `FloodInv` ties the published sequence to the
offset `flood` has reached in each phase; `NodeInv` says that a payload is under way,
waited for or queued, in one place only. Nonces of different offsets differ because
the count stays below the word size. Theorem: `GossipStaysExact`.

The type invariants of these modules but for the mempool's are proved only, as are
`TakeStaysWithinLimit`, `NoForeignLeafVerifies`, `VMImplementsStorage` and
`ConsensusKeepsBeacon`.

**Induction.** The library's induction theorems take an operator as a parameter,
which the installed provers cannot instantiate. Where a theorem needs induction over
data (loop iterations, tree levels, chains, sums) the proof takes the least
counterexample instead (`LeastNatural`, from `NatLessThanWellFounded` and
`WFMin`), one such argument per statement; where a statement can be put as a set of
numbers that contains its successors, `UpTo` is that argument once for all. That a recursive function
satisfies its equation is such an argument too: a CHOOSE has to be shown to have a
value (`LoopHasRun`).

**What the proofs changed.** The statement of `BodyIsCommitted` was wrong for bodies
longer than any run has: it let only one block of the end repeat, but of a proposal of
five transactions, a body with the last of them twice more has the same root: the
end of one odd level is repeated on top of that of another. `RepeatsTail` now says that each further
transaction is the one a power of two before it. Several definitions were restated, with
the same meaning, in a form that can be reasoned about: weights and chains follow
parents, the fork choice is its loop, `Levels` and indexes are functions; sorts go by
rank, rewards by position, and the sender queues list positions in ascending order
where they once filtered and sorted sequences. `SenderQueues` counts acknowledgements
per caller, and its `HandOut` bounds what a step hands out by a limit a proposer may
give. Assumptions
that types and instances had left implicit are now stated: finite sets of accounts
and transactions, markers that are no values, word sizes above zero.

**Only model-checked.**

* `EveryCallReturns`, `FloodEnds`: liveness under fairness, out of TLAPS' reach.

Every safety invariant, every action property and the refinement that a run checks
is also a theorem.

## 5. Not modelled

Cryptography (signatures, hashes, encryption of key files, Groth16), wasmtime, libp2p
beyond what its users may observe, serialization, the explorer's pages, and the RPC
methods that read one key and format it. `AnonTransaction` is not applied to the note
tree by any code, so there is nothing to model beyond its rules. No code drives
proposals, votes and blocks between nodes: `Blocks` lets any caller propose on any
parent and any node receive, which is what the functions allow. Errors that need u64 or
u128 sums near their limits are modelled only where a word of a few values can stand
for them (admission, wallets, flood, conversion, bans). A few properties have no more
than a note: nothing in the code tells a second preparation of a cross-shard transaction
from the first (`src/sharding/mod.rs` line 296), and the transfers of one contract call
are not checked together (`src/vm/mod.rs` line 170).

## 6. Where code and documents disagree

Checked:

* `VoteFinality_mixed`: `collect_vote` looks at neither block nor height, so one
  collector given votes on two blocks reports finality for a set of votes in which
  no block has two thirds; `roadmap.md` line 141 and `journal_avancement.md` line
  742 define finality per block. With callers that sort votes by block the rule
  holds (`VoteFinality_safety`, `FinalityIsSafe`).
* `ContractStorage_race`: two concurrent calls of one contract each compute the
  root from slots read before the other's batch; the recorded `storage_root` is
  then not the hash of the slots, contrary to `journal_avancement.md` lines 256
  and 311. The run begins with the contract deployed and has calls only.
* `NoteConversion_circuit`: the constraints of an anonymous transfer add modulo 2^64, so
  a proof that verifies exists for outputs that exceed the input by 2^64;
  `src/privacy/mod.rs` lines 588 to 592 ask of the circuit the same rules as of the native check,
  "conservation des montants" among them, and `roadmap.md` line 205 that inputs equal
  outputs plus fee. Proofs made with `generate_zk_transfer_proof` conserve value.

Seen in the models, without a run of its own: the same transaction is accepted by
`send_transaction` any number of times until something else stores the nonce, because
it is compared and never stored (`roadmap.md` line 122); two wallets with one key, or
one wallet used twice before the account moves, sign different transactions with
one nonce, and both are admitted; a cross-shard transaction can be prepared and
committed twice (line 182); a registration in the middle of an epoch replaces
the committees of that epoch (line 177); a crash between the two puts of
`deploy_contract` leaves a contract that can be neither called nor deployed again
(the exception in `ContractHasAccount`); the transfers of one contract call are each
checked against the same balance and carry the same nonce, and `send_transaction`
drops the outcome that holds them; a second deployment to an address, racing the first,
resets the storage root of a contract that may have run since; the hash index answers a lookup of a
replaced block with its replacement (`docs/api_rpc.md` line 116); a list of
transactions with its tail repeated has the same Merkle root as without, if its length
makes a level odd, so a header validates with either: copies may be added at the end of a
body, and copies that the proposer took may be dropped (`BodyIsCommitted` names the
exception); `propose_block` may build a block that every node refuses for its size;
an encrypted key file works for the wallet and neither for the faucet nor for the
node's identity; `write_json_pretty` of the set-up tool reports success when its last
flush fails, a contribution may be in the file although its command was killed before it
reported it, and two commands that have the state file open at once may leave a file that
can be read and is no chain.

## 7. Plan

Done: the inventory above, and the modules, runs and theorems of sections 2 to 4,
in the order mempool, votes, cross-shard, beacon chain and shard consensus,
storage and contract machine, admission, notes and transfers, peers; then wallets and
faucet on top of admission, blocks and fork choice, gossip and the event loop, key
files, the set-up ceremony.

Proved since: admission and wallets, conversions and transfers, blocks, the rebuild of
the beacon chain, node storage, key files, the ceremony, gossip, the selection loop and
the stability of finality; then the lengths callers see, rewards and the proposer draw,
the committees, the consensus of a shard, and the refinement of the sender queues
(section 4).

Next, in this order:

1. Fork choice over the tallies of `VoteFinality` instead of free ones.
2. The event loop composed with `PeerPenalty`, once the node registers penalties: today
   no code calls the penalty functions from the loop.
