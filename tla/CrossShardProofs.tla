-------------------------- MODULE CrossShardProofs --------------------------
(***************************************************************************)
(* Proofs about CrossShard for any transactions, shard counts and received *)
(* executions.                                                             *)
(***************************************************************************)
EXTENDS CrossShard, SequenceTheorems, TLAPS

LEMMA ReceiptType ==
    ASSUME NEW t \in CrossTxs, NEW h \in Hashes, NEW phase \in Phases
    PROVE  /\ Receipt(t, h, phase) \in Receipts
           /\ Receipt(t, h, phase).phase = phase
           /\ ReceiptOk(t, h, Receipt(t, h, phase))
<1>1. Receipt(t, h, phase) \in Genuine
  BY DEF Genuine
<1>2. Receipt(t, h, phase).proof \in {r.proof : r \in Genuine}
  BY <1>1
<1>3. Receipt(t, h, phase) \in Receipts
  BY <1>2, CrossShardAssumption DEF Receipt, Receipts
<1>4. QED
  BY <1>3 DEF Receipt, ReceiptOk

\* A receipt that verifies is the genuine one of its phase.
LEMMA ReceiptUnique ==
    ASSUME NEW t \in CrossTxs, NEW h \in Hashes, NEW r \in Receipts, ReceiptOk(t, h, r)
    PROVE  r = Receipt(t, h, r.phase)
  BY DEF Receipts, ReceiptOk, Receipt

LEMMA PhaseSequences ==
    /\ <<"Prepare">> \in Seq(Phases)
    /\ <<"Validate">> \in Seq(Phases)
    /\ <<"Commit">> \in Seq(Phases)
    /\ <<"Prepare", "Validate">> \in Seq(Phases)
    /\ <<"Prepare", "Validate", "Commit">> \in Seq(Phases)
  BY DEF Phases

LEMMA PrepareValidate ==
    <<"Prepare">> \o <<"Validate">> = <<"Prepare", "Validate">>
<1> DEFINE s == <<"Prepare">> \o <<"Validate">>
<1>1. s \in Seq(Phases) /\ Len(s) = 2 /\ s[1] = "Prepare" /\ s[2] = "Validate"
  BY PhaseSequences, ConcatProperties
<1> HIDE DEF s
<1>2. s = <<"Prepare", "Validate">>
  BY <1>1, PhaseSequences, SeqEqual
<1>3. QED
  BY <1>2 DEF s

LEMMA PrepareValidateCommit ==
    <<"Prepare", "Validate">> \o <<"Commit">> = <<"Prepare", "Validate", "Commit">>
<1> DEFINE s == <<"Prepare", "Validate">> \o <<"Commit">>
<1>1. /\ s \in Seq(Phases) /\ Len(s) = 3
      /\ s[1] = "Prepare" /\ s[2] = "Validate" /\ s[3] = "Commit"
  BY PhaseSequences, ConcatProperties
<1> HIDE DEF s
<1>2. s = <<"Prepare", "Validate", "Commit">>
  BY <1>1, PhaseSequences, SeqEqual
<1>3. QED
  BY <1>2 DEF s

\* The phases whose receipts an execution has to carry, by its flags.
LEMMA PhasesOfCommitted ==
    ASSUME NEW e, e.committed
    PROVE  ExpectedReceiptPhases(e) = <<"Prepare", "Validate", "Commit">>
  BY PrepareValidate, PrepareValidateCommit DEF ExpectedReceiptPhases

LEMMA PhasesOfValidated ==
    ASSUME NEW e, e.destination_validated, ~e.committed
    PROVE  ExpectedReceiptPhases(e) = <<"Prepare", "Validate">>
<1>1. <<"Prepare", "Validate">> \o <<>> = <<"Prepare", "Validate">>
  BY ConcatEmptySeq, PhaseSequences
<1>2. QED
  BY <1>1, PrepareValidate DEF ExpectedReceiptPhases

LEMMA PhasesOfPrepared ==
    ASSUME NEW e, e.source_prepared, ~e.destination_validated, ~e.committed
    PROVE  ExpectedReceiptPhases(e) = <<"Prepare">>
<1>1. (<<"Prepare">> \o <<>>) \o <<>> = <<"Prepare">>
  BY ConcatEmptySeq, PhaseSequences
<1>2. QED
  BY <1>1 DEF ExpectedReceiptPhases

LEMMA ShardCountIsNat ==
    ASSUME NEW n, ValidShardCount(n)
    PROVE  n \in Nat
  BY DEF ValidShardCount

(***************************************************************************)
(* Type correctness, and a slot holds one execution at most.               *)
(***************************************************************************)

OnePerSlot == \A s \in Slots : \A e, f \in exec[s] : e = f

\* The values prepare, validate and commit leave behind.
Prepared(t) ==
    [transaction |-> t, tx_hash |-> TxHash(t),
     source_prepared |-> TRUE, destination_validated |-> FALSE,
     committed |-> FALSE,
     receipts |-> <<Receipt(t, TxHash(t), "Prepare")>>]

Validated(e) ==
    [e EXCEPT !.receipts = Append(@, Receipt(e.transaction, e.tx_hash, "Validate")),
              !.destination_validated = TRUE]

Committed(e) ==
    [e EXCEPT !.receipts = Append(@, Receipt(e.transaction, e.tx_hash, "Commit")),
              !.committed = TRUE]

LEMMA AppendType ==
    ASSUME NEW e \in Executions, NEW phase \in Phases
    PROVE  LET r == Receipt(e.transaction, e.tx_hash, phase)
               rs == Append(e.receipts, r)
           IN  /\ rs \in Seq(Receipts)
               /\ Len(rs) = Len(e.receipts) + 1
               /\ \A i \in 1 .. Len(e.receipts) : rs[i] = e.receipts[i]
               /\ rs[Len(e.receipts) + 1] = r
               /\ r.phase = phase
               /\ ReceiptOk(e.transaction, e.tx_hash, r)
<1> DEFINE r == Receipt(e.transaction, e.tx_hash, phase)
<1>1. e.transaction \in CrossTxs /\ e.tx_hash \in Hashes /\ e.receipts \in Seq(Receipts)
  BY DEF Executions
<1>2. r \in Receipts /\ r.phase = phase /\ ReceiptOk(e.transaction, e.tx_hash, r)
  BY <1>1, ReceiptType
<1> HIDE DEF r
<1>3. QED
  BY <1>1, <1>2, AppendProperties DEF r

LEMMA PreparedType ==
    ASSUME NEW t \in CrossTxs
    PROVE  Prepared(t) \in Executions
<1>1. TxHash(t) \in Hashes
  BY DEF Hashes
<1>2. Receipt(t, TxHash(t), "Prepare") \in Receipts
  BY <1>1, ReceiptType DEF Phases
<1>3. <<Receipt(t, TxHash(t), "Prepare")>> \in Seq(Receipts)
  BY <1>2
<1>4. QED
  BY <1>1, <1>3 DEF Executions, Prepared

LEMMA DrivenType ==
    ASSUME NEW e \in Executions
    PROVE  Validated(e) \in Executions /\ Committed(e) \in Executions
<1>1. /\ Append(e.receipts, Receipt(e.transaction, e.tx_hash, "Validate")) \in Seq(Receipts)
      /\ Append(e.receipts, Receipt(e.transaction, e.tx_hash, "Commit")) \in Seq(Receipts)
  BY AppendType DEF Phases
<1>2. QED
  BY <1>1 DEF Validated, Committed, Executions

LEMMA TypeStep ==
    ASSUME CrossTypeOK, OnePerSlot, [CrossNext]_crossVars
    PROVE  CrossTypeOK' /\ OnePerSlot'
<1> USE DEF CrossTypeOK, OnePerSlot
<1>1. CASE UNCHANGED crossVars
  BY <1>1 DEF crossVars
<1>2. ASSUME NEW n \in Proposals, ApplyGovernanceUpdate(n)
      PROVE  CrossTypeOK' /\ OnePerSlot'
  BY <1>2 DEF ApplyGovernanceUpdate
<1>3. ASSUME NEW s \in Slots, NEW t \in CrossTxs, Prepare(s, t)
      PROVE  CrossTypeOK' /\ OnePerSlot'
  <2>1. Hold(s, Prepared(t))
    BY <1>3 DEF Prepare, Prepared
  <2>2. Prepared(t) \in Executions
    BY PreparedType
  <2>3. QED
    BY <2>1, <2>2 DEF Hold
<1>4. ASSUME NEW s \in Slots, NEW e \in Foreign, ReceiveExecution(s, e)
      PROVE  CrossTypeOK' /\ OnePerSlot'
  BY <1>4, CrossShardAssumption DEF ReceiveExecution, Hold
<1>5. ASSUME NEW s \in Slots, NEW e \in exec[s], Validate(s, e)
      PROVE  CrossTypeOK' /\ OnePerSlot'
  <2>1. Hold(s, Validated(e))
    BY <1>5 DEF Validate, Validated
  <2>2. Validated(e) \in Executions
    BY DrivenType
  <2>3. QED
    BY <2>1, <2>2 DEF Hold
<1>6. ASSUME NEW s \in Slots, NEW e \in exec[s], Commit(s, e)
      PROVE  CrossTypeOK' /\ OnePerSlot'
  <2>1. Hold(s, Committed(e))
    BY <1>6 DEF Commit, Committed
  <2>2. Committed(e) \in Executions
    BY DrivenType
  <2>3. QED
    BY <2>1, <2>2 DEF Hold
<1>7. ASSUME NEW s \in Slots, NEW e \in exec[s], IncludeReceipts(e)
      PROVE  CrossTypeOK' /\ OnePerSlot'
  <2>1. e.receipts \in Seq(Receipts)
    BY DEF Executions
  <2>2. included \o e.receipts \in Seq(Receipts)
    BY <2>1, ConcatProperties
  <2>3. QED
    BY <1>7, <2>2 DEF IncludeReceipts
<1>8. QED
  BY <1>1, <1>2, <1>3, <1>4, <1>5, <1>6, <1>7 DEF CrossNext

LEMMA Inductive == CrossSpec => [](CrossTypeOK /\ OnePerSlot)
<1>1. CrossInit => CrossTypeOK /\ OnePerSlot
  BY CrossShardAssumption DEF CrossInit, CrossTypeOK, OnePerSlot
<1>2. (CrossTypeOK /\ OnePerSlot) /\ [CrossNext]_crossVars => (CrossTypeOK /\ OnePerSlot)'
  BY TypeStep
<1>3. QED
  BY <1>1, <1>2, PTL DEF CrossSpec

\* The state is well-typed, whatever executions are received.
THEOREM TypeCorrect == CrossSpec => []CrossTypeOK
  BY Inductive, PTL

(***************************************************************************)
(* What the receipts of an execution say.                                  *)
(***************************************************************************)

LEMMA FinalReceipts ==
    ASSUME NEW e \in Executions, GloballyFinalized(e)
    PROVE  e.receipts = << Receipt(e.transaction, e.tx_hash, "Prepare"),
                           Receipt(e.transaction, e.tx_hash, "Validate"),
                           Receipt(e.transaction, e.tx_hash, "Commit") >>
<1> DEFINE R(phase) == Receipt(e.transaction, e.tx_hash, phase)
           genuine == <<R("Prepare"), R("Validate"), R("Commit")>>
<1>1. e.transaction \in CrossTxs /\ e.tx_hash \in Hashes /\ e.receipts \in Seq(Receipts)
  BY DEF Executions
<1>2. /\ Len(e.receipts) = 3
      /\ ExpectedReceiptPhases(e) = <<"Prepare", "Validate", "Commit">>
  BY PhasesOfCommitted DEF GloballyFinalized
<1>3. /\ e.receipts[1].phase = "Prepare"
      /\ e.receipts[2].phase = "Validate"
      /\ e.receipts[3].phase = "Commit"
      /\ \A i \in 1 .. 3 : ReceiptOk(e.transaction, e.tx_hash, e.receipts[i])
  BY <1>2 DEF GloballyFinalized, ProofsOk, Consistent
<1>4. /\ e.receipts[1] \in Receipts
      /\ e.receipts[2] \in Receipts
      /\ e.receipts[3] \in Receipts
  BY <1>1, <1>2
<1>5. /\ e.receipts[1] = R("Prepare")
      /\ e.receipts[2] = R("Validate")
      /\ e.receipts[3] = R("Commit")
  BY <1>1, <1>3, <1>4, ReceiptUnique
<1>6. R("Prepare") \in Receipts /\ R("Validate") \in Receipts /\ R("Commit") \in Receipts
  BY <1>4, <1>5
<1> HIDE DEF R
<1>7. /\ genuine \in Seq(Receipts) /\ Len(genuine) = 3
      /\ genuine[1] = R("Prepare") /\ genuine[2] = R("Validate") /\ genuine[3] = R("Commit")
  BY <1>6
<1> HIDE DEF genuine
<1>8. e.receipts = genuine
  BY <1>1, <1>2, <1>5, <1>7, SeqEqual
<1>9. QED
  BY <1>8 DEF genuine, R

\* Global finality is reported only for the three genuine receipts, in order,
\* whatever executions are received and however they are driven on.
THEOREM FinalityNeedsReceipts == CrossSpec => []FinalMeansThreeReceipts
<1>1. CrossTypeOK => FinalMeansThreeReceipts
  <2> SUFFICES ASSUME CrossTypeOK, NEW s \in Slots, NEW e \in exec[s], GloballyFinalized(e)
               PROVE  e.receipts = << Receipt(e.transaction, e.tx_hash, "Prepare"),
                                      Receipt(e.transaction, e.tx_hash, "Validate"),
                                      Receipt(e.transaction, e.tx_hash, "Commit") >>
    BY DEF FinalMeansThreeReceipts
  <2>1. e \in Executions
    BY DEF CrossTypeOK
  <2>2. QED
    BY <2>1, FinalReceipts
<1>2. QED
  BY <1>1, TypeCorrect, PTL

\* Appending the receipt of the next phase: the receipts verify for the
\* longer list of phases exactly when they did for the shorter one.
LEMMA ValidateKeepsVerdict ==
    ASSUME NEW e \in Executions,
           e.source_prepared, ~e.destination_validated, ~e.committed
    PROVE  Consistent(e) <=> Consistent(Validated(e))
<1> DEFINE f == Validated(e)
           r == Receipt(e.transaction, e.tx_hash, "Validate")
<1>1. /\ f.transaction = e.transaction /\ f.tx_hash = e.tx_hash
      /\ f.source_prepared /\ f.destination_validated /\ ~f.committed
      /\ f.receipts = Append(e.receipts, r)
  BY DEF Validated, Executions
<1>2. /\ Len(f.receipts) = Len(e.receipts) + 1
      /\ \A i \in 1 .. Len(e.receipts) : f.receipts[i] = e.receipts[i]
      /\ f.receipts[Len(e.receipts) + 1] = r
      /\ r.phase = "Validate"
      /\ ReceiptOk(e.transaction, e.tx_hash, r)
  BY <1>1, AppendType DEF Phases
<1>3. Len(e.receipts) \in Nat
  BY LenProperties DEF Executions
<1>4. ExpectedReceiptPhases(e) = <<"Prepare">>
  BY PhasesOfPrepared
<1> HIDE DEF f, r
<1>5. ExpectedReceiptPhases(f) = <<"Prepare", "Validate">>
  BY <1>1, PhasesOfValidated
<1>6. Consistent(e) <=> /\ Len(e.receipts) = 1
                        /\ e.receipts[1].phase = "Prepare"
                        /\ ReceiptOk(e.transaction, e.tx_hash, e.receipts[1])
  BY <1>4 DEF Consistent
<1>7. Consistent(f) <=> /\ Len(f.receipts) = 2
                        /\ f.receipts[1].phase = "Prepare"
                        /\ ReceiptOk(e.transaction, e.tx_hash, f.receipts[1])
                        /\ f.receipts[2].phase = "Validate"
                        /\ ReceiptOk(e.transaction, e.tx_hash, f.receipts[2])
  <2>1. \A i : i \in 1 .. 2 <=> i = 1 \/ i = 2
    OBVIOUS
  <2>2. QED
    BY <1>1, <1>5, <2>1 DEF Consistent
<1>8. Consistent(e) <=> Consistent(f)
  <2>1. CASE Len(e.receipts) = 1
    <3>1. f.receipts[1] = e.receipts[1] /\ f.receipts[2] = r
      BY <1>2, <2>1
    <3>2. Len(f.receipts) = 2
      BY <1>2, <2>1
    <3>3. QED
      BY <1>2, <1>6, <1>7, <2>1, <3>1, <3>2
  <2>2. CASE Len(e.receipts) # 1
    <3>1. \A m \in Nat : m # 1 => m + 1 # 2
      OBVIOUS
    <3>2. Len(f.receipts) # 2
      BY <1>2, <1>3, <2>2, <3>1, Zenon
    <3>3. QED
      BY <1>6, <1>7, <2>2, <3>2
  <2>3. QED
    BY <2>1, <2>2
<1>9. QED
  BY <1>8 DEF f

LEMMA CommitKeepsVerdict ==
    ASSUME NEW e \in Executions,
           e.source_prepared, e.destination_validated, ~e.committed
    PROVE  Consistent(e) <=> Consistent(Committed(e))
<1> DEFINE f == Committed(e)
           r == Receipt(e.transaction, e.tx_hash, "Commit")
<1>1. /\ f.transaction = e.transaction /\ f.tx_hash = e.tx_hash
      /\ f.source_prepared /\ f.destination_validated /\ f.committed
      /\ f.receipts = Append(e.receipts, r)
  BY DEF Committed, Executions
<1>2. /\ Len(f.receipts) = Len(e.receipts) + 1
      /\ \A i \in 1 .. Len(e.receipts) : f.receipts[i] = e.receipts[i]
      /\ f.receipts[Len(e.receipts) + 1] = r
      /\ r.phase = "Commit"
      /\ ReceiptOk(e.transaction, e.tx_hash, r)
  BY <1>1, AppendType DEF Phases
<1>3. Len(e.receipts) \in Nat
  BY LenProperties DEF Executions
<1>4. ExpectedReceiptPhases(e) = <<"Prepare", "Validate">>
  BY PhasesOfValidated
<1> HIDE DEF f, r
<1>5. ExpectedReceiptPhases(f) = <<"Prepare", "Validate", "Commit">>
  BY <1>1, PhasesOfCommitted
<1>6. Consistent(e) <=> /\ Len(e.receipts) = 2
                        /\ e.receipts[1].phase = "Prepare"
                        /\ ReceiptOk(e.transaction, e.tx_hash, e.receipts[1])
                        /\ e.receipts[2].phase = "Validate"
                        /\ ReceiptOk(e.transaction, e.tx_hash, e.receipts[2])
  <2>1. \A i : i \in 1 .. 2 <=> i = 1 \/ i = 2
    OBVIOUS
  <2>2. QED
    BY <1>4, <2>1 DEF Consistent
<1>7. Consistent(f) <=> /\ Len(f.receipts) = 3
                        /\ f.receipts[1].phase = "Prepare"
                        /\ ReceiptOk(e.transaction, e.tx_hash, f.receipts[1])
                        /\ f.receipts[2].phase = "Validate"
                        /\ ReceiptOk(e.transaction, e.tx_hash, f.receipts[2])
                        /\ f.receipts[3].phase = "Commit"
                        /\ ReceiptOk(e.transaction, e.tx_hash, f.receipts[3])
  <2>1. \A i : i \in 1 .. 3 <=> i = 1 \/ i = 2 \/ i = 3
    OBVIOUS
  <2>2. QED
    BY <1>1, <1>5, <2>1 DEF Consistent
<1>8. Consistent(e) <=> Consistent(f)
  <2>1. CASE Len(e.receipts) = 2
    <3>1. /\ f.receipts[1] = e.receipts[1]
          /\ f.receipts[2] = e.receipts[2]
          /\ f.receipts[3] = r
      BY <1>2, <2>1
    <3>2. Len(f.receipts) = 3
      BY <1>2, <2>1
    <3>3. QED
      BY <1>2, <1>6, <1>7, <2>1, <3>1, <3>2
  <2>2. CASE Len(e.receipts) # 2
    <3>1. \A m \in Nat : m # 2 => m + 1 # 3
      OBVIOUS
    <3>2. Len(f.receipts) # 3
      BY <1>2, <1>3, <2>2, <3>1, Zenon
    <3>3. QED
      BY <1>6, <1>7, <2>2, <3>2
  <2>3. QED
    BY <2>1, <2>2
<1>9. QED
  BY <1>8 DEF f

\* One step, seen from an execution e that a slot holds: it stays as it is, or
\* its next phase is run on it.
LEMMA HeldExecution ==
    ASSUME CrossTypeOK, OnePerSlot, [CrossNext]_crossVars, NEW s \in Slots, NEW e \in exec[s]
    PROVE  \/ exec'[s] = {e}
           \/ Validate(s, e) /\ exec'[s] = {Validated(e)}
           \/ Commit(s, e) /\ exec'[s] = {Committed(e)}
<1>1. exec[s] = {e}
  BY DEF OnePerSlot
<1>2. CASE UNCHANGED crossVars
  BY <1>1, <1>2 DEF crossVars
<1>3. CASE \E n \in Proposals : ApplyGovernanceUpdate(n)
  BY <1>1, <1>3 DEF ApplyGovernanceUpdate
<1>4. CASE \E r \in Slots, t \in CrossTxs : Prepare(r, t)
  BY <1>1, <1>4 DEF Prepare, Hold, CrossTypeOK
<1>5. CASE \E r \in Slots, f \in Foreign : ReceiveExecution(r, f)
  BY <1>1, <1>5 DEF ReceiveExecution, Hold, CrossTypeOK
<1>6. ASSUME NEW r \in Slots, NEW f \in exec[r], Validate(r, f)
      PROVE  exec'[s] = {e} \/ (Validate(s, e) /\ exec'[s] = {Validated(e)})
  <2>1. Hold(r, Validated(f))
    BY <1>6 DEF Validate, Validated
  <2>2. CASE r = s
    <3>1. f = e
      BY <1>1, <2>2
    <3>2. QED
      BY <1>6, <2>1, <2>2, <3>1 DEF Hold, CrossTypeOK
  <2>3. CASE r # s
    BY <1>1, <2>1, <2>3 DEF Hold, CrossTypeOK
  <2>4. QED
    BY <2>2, <2>3
<1>7. ASSUME NEW r \in Slots, NEW f \in exec[r], Commit(r, f)
      PROVE  exec'[s] = {e} \/ (Commit(s, e) /\ exec'[s] = {Committed(e)})
  <2>1. Hold(r, Committed(f))
    BY <1>7 DEF Commit, Committed
  <2>2. CASE r = s
    <3>1. f = e
      BY <1>1, <2>2
    <3>2. QED
      BY <1>7, <2>1, <2>2, <3>1 DEF Hold, CrossTypeOK
  <2>3. CASE r # s
    BY <1>1, <2>1, <2>3 DEF Hold, CrossTypeOK
  <2>4. QED
    BY <2>2, <2>3
<1>8. CASE \E r \in Slots : \E f \in exec[r] : IncludeReceipts(f)
  BY <1>1, <1>8 DEF IncludeReceipts
<1>9. QED
  BY <1>2, <1>3, <1>4, <1>5, <1>6, <1>7, <1>8 DEF CrossNext

\* Validate and commit neither repair an execution whose receipts do not verify
\* nor break one whose receipts do.
THEOREM VerdictIsKept == CrossSpec => PhasesKeepVerdict
<1>1. ASSUME CrossTypeOK, OnePerSlot, [CrossNext]_crossVars
      PROVE  [\A s \in Slots : \A e \in exec[s], f \in exec'[s] :
                  Consistent(e) <=> Consistent(f)]_crossVars
  <2> SUFFICES ASSUME NEW s \in Slots, NEW e \in exec[s], NEW f \in exec'[s]
               PROVE  Consistent(e) <=> Consistent(f)
    OBVIOUS
  <2>1. e \in Executions
    BY <1>1 DEF CrossTypeOK
  <2>2. CASE exec'[s] = {e}
    BY <2>2
  <2>3. CASE Validate(s, e) /\ exec'[s] = {Validated(e)}
    <3>1. e.source_prepared /\ ~e.destination_validated /\ ~e.committed
      BY <2>3 DEF Validate
    <3>2. Consistent(e) <=> Consistent(Validated(e))
      BY <2>1, <3>1, ValidateKeepsVerdict
    <3>3. QED
      BY <2>3, <3>2
  <2>4. CASE Commit(s, e) /\ exec'[s] = {Committed(e)}
    <3>1. e.source_prepared /\ e.destination_validated /\ ~e.committed
      BY <2>4 DEF Commit
    <3>2. Consistent(e) <=> Consistent(Committed(e))
      BY <2>1, <3>1, CommitKeepsVerdict
    <3>3. QED
      BY <2>4, <3>2
  <2>5. QED
    BY <1>1, <2>2, <2>3, <2>4, HeldExecution
<1>2. QED
  BY <1>1, Inductive, PTL DEF CrossSpec, PhasesKeepVerdict

\* Global finality is withdrawn only by a governance update that removes a
\* shard of the route.
THEOREM FinalityIsKept == CrossSpec => FinalityOutlivesPhases
<1>1. ASSUME CrossTypeOK, CrossTypeOK', OnePerSlot, [CrossNext]_crossVars
      PROVE  [\A s \in Slots : \A e \in exec[s] :
                  GloballyFinalized(e) =>
                      /\ exec'[s] = {e}
                      /\ \/ GloballyFinalized(e)'
                         \/ /\ shard_count' < shard_count
                            /\ \/ SourceShard[e.transaction] >= shard_count'
                               \/ DestinationShard[e.transaction] >= shard_count']_crossVars
  <2> SUFFICES ASSUME NEW s \in Slots, NEW e \in exec[s], GloballyFinalized(e)
               PROVE  /\ exec'[s] = {e}
                      /\ \/ GloballyFinalized(e)'
                         \/ /\ shard_count' < shard_count
                            /\ \/ SourceShard[e.transaction] >= shard_count'
                               \/ DestinationShard[e.transaction] >= shard_count'
    OBVIOUS
  <2>1. exec'[s] = {e}
    BY <1>1, HeldExecution DEF GloballyFinalized, Validate, Commit
  <2>2. shard_count \in Nat /\ shard_count' \in Nat
    BY <1>1, ShardCountIsNat DEF CrossTypeOK
  <2>3. /\ SourceShard[e.transaction] \in Nat
        /\ DestinationShard[e.transaction] \in Nat
    BY <1>1, CrossShardAssumption DEF CrossTypeOK, Executions
  <2>4. CASE RouteOk(e.transaction)'
    BY <2>1, <2>4 DEF GloballyFinalized, ProofsOk
  <2>5. CASE ~RouteOk(e.transaction)'
    BY <2>1, <2>2, <2>3, <2>5 DEF GloballyFinalized, ProofsOk, RouteOk
  <2>6. QED
    BY <2>4, <2>5
<1>2. QED
  BY <1>1, Inductive, PTL DEF CrossSpec, FinalityOutlivesPhases
=============================================================================
