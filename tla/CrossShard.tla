----------------------------- MODULE CrossShard -----------------------------
(***************************************************************************)
(* The prepare / validate / commit protocol of cross-shard transactions,   *)
(* src/sharding/mod.rs.  Its state is a value, CrossShardExecution, which  *)
(* callers hold, hand over and drive; BeaconChain only supplies the number *)
(* of shards, which governance may change between any two phases.  An      *)
(* execution received from elsewhere is any value of that type: the beacon *)
(* chain decides from its receipts whether to believe it.                  *)
(*                                                                         *)
(* The 32-byte digests are abstracted to tuples of what they digest.       *)
(***************************************************************************)
EXTENDS Naturals, Sequences

CONSTANTS
    CrossTxs,         \* transactions
    SourceShard,      \* source_shard of each transaction
    DestinationShard, \* destination_shard of each transaction
    InitialCount,     \* shard_count at the start
    Proposals,        \* the new_shard_count arguments of governance updates
    Slots,            \* executions the callers hold
    Foreign,          \* executions that may be received from elsewhere
    MaxReceipts       \* bound on the receipts of the block under construction

\* validate_shard_count: a u16, at least MIN_SHARD_COUNT and a power of two.
ValidShardCount(n) ==
    /\ n \in 1 .. 65535
    /\ \E k \in 0 .. 15 : n = 2 ^ k

Phases == {"Prepare", "Validate", "Commit"}

\* build_cross_shard_transaction_hash
TxHash(t) == <<"transaction", t>>

\* build_receipt_proof
Proof(h, phase, source, destination) == <<h, source, destination, phase>>

\* build_cross_shard_receipt
Receipt(t, h, phase) ==
    [tx_hash |-> h,
     source_shard |-> SourceShard[t],
     destination_shard |-> DestinationShard[t],
     phase |-> phase,
     proof |-> Proof(h, phase, SourceShard[t], DestinationShard[t])]

Hashes == {TxHash(t) : t \in CrossTxs}

Genuine == {Receipt(t, h, phase) : t \in CrossTxs, h \in Hashes, phase \in Phases}

\* Receipts as they may be received: the proof need not fit the rest.
Receipts ==
    [tx_hash : Hashes, source_shard : Nat, destination_shard : Nat,
     phase : Phases, proof : {r.proof : r \in Genuine}]

Executions ==
    [transaction : CrossTxs, tx_hash : Hashes, source_prepared : BOOLEAN,
     destination_validated : BOOLEAN, committed : BOOLEAN,
     receipts : Seq(Receipts)]

ASSUME CrossShardAssumption ==
    /\ SourceShard \in [CrossTxs -> Nat]
    /\ DestinationShard \in [CrossTxs -> Nat]
    /\ ValidShardCount(InitialCount)
    /\ Foreign \subseteq Executions
    /\ MaxReceipts \in Nat

VARIABLES
    shard_count, \* config.shard_count of the beacon chain
    exec,        \* exec[s]: the executions held in slot s, at most one
    included     \* receipts of the block under construction

crossVars == <<shard_count, exec, included>>

(***************************************************************************)
(* Checks of the beacon chain.                                             *)
(***************************************************************************)

\* Mutant: an off-by-one in the bound on shard ids.
RouteOkOffByOne(t) ==
    /\ SourceShard[t] + 1 < shard_count
    /\ DestinationShard[t] + 1 < shard_count
    /\ SourceShard[t] # DestinationShard[t]

\* validate_cross_shard_route
RouteOk(t) ==
    /\ SourceShard[t] < shard_count
    /\ DestinationShard[t] < shard_count
    /\ SourceShard[t] # DestinationShard[t]

\* Mutant: the proof is not recomputed.
ReceiptOkUnproved(t, h, r) ==
    /\ r.tx_hash = h
    /\ r.source_shard = SourceShard[t]
    /\ r.destination_shard = DestinationShard[t]

\* validate_cross_shard_receipt, but for the route of the transaction
ReceiptOk(t, h, r) ==
    /\ r.tx_hash = h
    /\ r.source_shard = SourceShard[t]
    /\ r.destination_shard = DestinationShard[t]
    /\ r.proof = Proof(h, r.phase, r.source_shard, r.destination_shard)

ExpectedReceiptPhases(e) ==
    (IF e.source_prepared \/ e.destination_validated \/ e.committed
        THEN <<"Prepare">> ELSE <<>>)
    \o (IF e.destination_validated \/ e.committed
        THEN <<"Validate">> ELSE <<>>)
    \o (IF e.committed THEN <<"Commit">> ELSE <<>>)

\* What validate_cross_shard_execution_proofs requires of the execution
\* itself: flags set in order and one receipt per expected phase.
Consistent(e) ==
    LET phases == ExpectedReceiptPhases(e)
    IN  /\ e.committed => e.destination_validated
        /\ e.destination_validated \/ e.committed => e.source_prepared
        /\ Len(e.receipts) = Len(phases)
        /\ \A i \in 1 .. Len(phases) :
               /\ e.receipts[i].phase = phases[i]
               /\ ReceiptOk(e.transaction, e.tx_hash, e.receipts[i])

\* validate_cross_shard_execution_proofs(e) is Ok
ProofsOk(e) == RouteOk(e.transaction) /\ Consistent(e)

\* is_cross_shard_execution_globally_finalized(e) is Ok(true)
GloballyFinalized(e) ==
    /\ ProofsOk(e)
    /\ e.source_prepared /\ e.destination_validated /\ e.committed
    /\ Len(e.receipts) = 3

(***************************************************************************)
(* Operations.                                                             *)
(***************************************************************************)

\* ShardingConfig::apply_governance_update
ApplyGovernanceUpdate(n) ==
    /\ ValidShardCount(n)
    /\ shard_count' = n
    /\ UNCHANGED <<exec, included>>

Hold(s, e) ==
    /\ exec' = [exec EXCEPT ![s] = {e}]
    /\ UNCHANGED <<shard_count, included>>

\* prepare_cross_shard_transaction
Prepare(s, t) ==
    /\ exec[s] = {}
    /\ RouteOk(t)
    /\ Hold(s, [transaction |-> t, tx_hash |-> TxHash(t),
                source_prepared |-> TRUE, destination_validated |-> FALSE,
                committed |-> FALSE,
                receipts |-> <<Receipt(t, TxHash(t), "Prepare")>>])

\* An execution is received: deserialized, not checked.
ReceiveExecution(s, e) ==
    /\ exec[s] = {}
    /\ Hold(s, e)

\* Mutant: the flag is set without a receipt.
ValidateWithoutReceipt(s, e) ==
    /\ RouteOk(e.transaction)
    /\ e.source_prepared
    /\ ~e.destination_validated
    /\ ~e.committed
    /\ Hold(s, [e EXCEPT !.destination_validated = TRUE])

\* validate_cross_shard_transaction
Validate(s, e) ==
    /\ RouteOk(e.transaction)
    /\ e.source_prepared
    /\ ~e.destination_validated
    /\ ~e.committed
    /\ Hold(s, [e EXCEPT
           !.receipts = Append(@, Receipt(e.transaction, e.tx_hash, "Validate")),
           !.destination_validated = TRUE])

\* commit_cross_shard_transaction
Commit(s, e) ==
    /\ RouteOk(e.transaction)
    /\ ~e.committed
    /\ e.source_prepared
    /\ e.destination_validated
    /\ Hold(s, [e EXCEPT
           !.receipts = Append(@, Receipt(e.transaction, e.tx_hash, "Commit")),
           !.committed = TRUE])

\* include_receipts_in_block: at any phase, any number of times
IncludeReceipts(e) ==
    /\ Len(included) + Len(e.receipts) <= MaxReceipts
    /\ included' = included \o e.receipts
    /\ UNCHANGED <<shard_count, exec>>

CrossInit ==
    /\ shard_count = InitialCount
    /\ exec = [s \in Slots |-> {}]
    /\ included = <<>>

CrossNext ==
    \/ \E n \in Proposals : ApplyGovernanceUpdate(n)
    \/ \E s \in Slots, t \in CrossTxs : Prepare(s, t)
    \/ \E s \in Slots, e \in Foreign : ReceiveExecution(s, e)
    \/ \E s \in Slots : \E e \in exec[s] :
           Validate(s, e) \/ Commit(s, e) \/ IncludeReceipts(e)

CrossSpec == CrossInit /\ [][CrossNext]_crossVars

-----------------------------------------------------------------------------
CrossTypeOK ==
    /\ ValidShardCount(shard_count)
    /\ exec \in [Slots -> SUBSET Executions]
    /\ included \in Seq(Receipts)

\* Whatever execution is received and however it is driven on, the beacon chain
\* reports global finality only for one that carries exactly the three genuine
\* receipts of its transaction's route, in order.
FinalMeansThreeReceipts ==
    \A s \in Slots : \A e \in exec[s] :
        GloballyFinalized(e) =>
            e.receipts = << Receipt(e.transaction, e.tx_hash, "Prepare"),
                            Receipt(e.transaction, e.tx_hash, "Validate"),
                            Receipt(e.transaction, e.tx_hash, "Commit") >>

\* Driving an execution through its phases neither repairs one whose receipts
\* do not verify nor breaks one whose receipts do: validate and commit append
\* the receipt of the phase whose flag they set, whatever they were given.
PhasesKeepVerdict ==
    [][\A s \in Slots : \A e \in exec[s], f \in exec'[s] :
           Consistent(e) <=> Consistent(f)]_crossVars

\* Global finality, once reported, is withdrawn only by a governance update
\* that removes a shard of the transaction's route.
FinalityOutlivesPhases ==
    [][\A s \in Slots : \A e \in exec[s] :
           GloballyFinalized(e) =>
               /\ exec'[s] = {e}
               /\ \/ GloballyFinalized(e)'
                  \/ /\ shard_count' < shard_count
                     /\ \/ SourceShard[e.transaction] >= shard_count'
                        \/ DestinationShard[e.transaction] >= shard_count']_crossVars

=============================================================================
