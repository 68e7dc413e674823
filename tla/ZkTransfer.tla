----------------------------- MODULE ZkTransfer -----------------------------
(***************************************************************************)
(* Anonymous transfers of src/privacy/mod.rs.  A transfer consumes notes   *)
(* of the tree and creates new ones; its rules are written twice, in       *)
(* verify_zk_transfer_public_inputs for the prover and as the constraints  *)
(* of ZkTransferCircuit for the proof.  The proof itself is external: a    *)
(* Groth16 proof that verifies exists exactly for witnesses that satisfy   *)
(* the constraints and have the shape the keys were generated for.         *)
(*                                                                         *)
(* A witness is a list of inputs [value, key, blinding, proof] and one of  *)
(* outputs [value, key, blinding]; the public inputs are the root, the fee *)
(* and the commitments of the outputs.                                     *)
(***************************************************************************)
EXTENDS NoteConversion

CONSTANTS
    OutputLists, \* lists of outputs wallets ask for
    Fees         \* fees they offer

ASSUME TransferAssumption ==
    /\ OutputLists \subseteq
           Seq([value : 0 .. (WordSize - 1), key : PublicKeys, blinding : Blindings])
    /\ Fees \subseteq 0 .. (WordSize - 1)

\* The sum of the values of a list of inputs or outputs
Total(list) == SumOver([i \in DOMAIN list |-> list[i].value])

OutputCommitment(o) == Commitment(o.value, o.key, o.blinding)

OutputCommitments(outputs) ==
    [i \in DOMAIN outputs |-> OutputCommitment(outputs[i])]

\* The three checks on the shape of a transfer
Shaped(public, inputs, outputs) ==
    /\ inputs # << >>
    /\ outputs # << >>
    /\ Len(outputs) = Len(public.output_commitments)

\* The note an input spends is the leaf of its proof, under the public root.
InputOpens(public, in) ==
    /\ in.proof.leaf = Commitment(in.value, PublicKey(in.key), in.blinding)
    /\ RootFromProof(in.proof) = public.merkle_root

\* An input and an output pass Note::new; the zero private key is refused.
InputOk(in) == in.key # Zero /\ NoteOk(in.value, PublicKey(in.key), in.blinding)

OutputOk(o) == NoteOk(o.value, o.key, o.blinding)

\* Mutant: sums wrap around.
BalancedWrapping(public, inputs, outputs) ==
    Total(inputs) % WordSize = (Total(outputs) + public.fee) % WordSize

\* The sums of the native check: checked_add of inputs, of outputs and of the fee
Balanced(public, inputs, outputs) ==
    /\ Total(inputs) < WordSize
    /\ Total(outputs) + public.fee < WordSize
    /\ Total(inputs) = Total(outputs) + public.fee

\* verify_zk_transfer_public_inputs
VerifyPublicInputs(public, inputs, outputs) ==
    /\ Shaped(public, inputs, outputs)
    /\ \A i \in DOMAIN inputs : InputOk(inputs[i]) /\ InputOpens(public, inputs[i])
    /\ \A i \in DOMAIN outputs :
           /\ OutputOk(outputs[i])
           /\ public.output_commitments[i] = OutputCommitment(outputs[i])
    /\ Balanced(public, inputs, outputs)

\* The constraints generate_constraints lays down once the shape is right:
\* openings, membership, output commitments, and sums with wrapping_add_many.
\* Before them it makes the native check again; that is a check of the program
\* that proves, not a constraint, and a proof says nothing of it.
CircuitSatisfied(public, inputs, outputs) ==
    /\ Shaped(public, inputs, outputs)
    /\ \A i \in DOMAIN inputs : InputOpens(public, inputs[i])
    /\ public.output_commitments = OutputCommitments(outputs)
    /\ Total(inputs) % WordSize
           = ((Total(outputs) % WordSize) + public.fee) % WordSize

\* The shape of build_reference_zk_transfer_setup_circuit, for which the keys are
\* generated: one input, two outputs, a path of one sibling and the input on the
\* left of it (the side is wired into the constraints).
FitsKey(inputs, outputs) ==
    /\ Len(inputs) = 1
    /\ Len(outputs) = 2
    /\ \A i \in DOMAIN inputs : /\ Len(inputs[i].proof.siblings) = 1
                               /\ inputs[i].proof.leaf_index % 2 = 0

\* verify_zk_transfer_proof: there is a proof it accepts, made of this witness.
VerifyTransferProof(public, inputs, outputs) ==
    FitsKey(inputs, outputs) /\ CircuitSatisfied(public, inputs, outputs)

\* generate_zk_transfer_proof yields a proof that verifies, which AnonTransaction
\* carries with the public inputs.
GenerateTransferProof(public, inputs, outputs) ==
    /\ VerifyPublicInputs(public, inputs, outputs)
    /\ VerifyTransferProof(public, inputs, outputs)

-----------------------------------------------------------------------------
\* What a wallet may put into a transfer with a proof it holds: the note of the
\* proof opened correctly, once or twice, or wrongly.
InputLists(proof) ==
    LET leaf == proof.leaf
        inputs == {[value |-> leaf.value, key |-> k, blinding |-> leaf.blinding,
                    proof |-> proof] : k \in SpendingKeys \cup {Zero}}
        wrong == [value |-> 0, key |-> Zero, blinding |-> Zero, proof |-> proof]
    IN  {<<in>> : in \in inputs} \cup {<<in, in>> : in \in inputs} \cup {<< >>, <<wrong>>}

\* The public inputs of a transfer
Public(root, published, fee) ==
    [merkle_root |-> root, fee |-> fee, output_commitments |-> published]

\* The two forms of the rules agree where they can, although one is native and
\* checked, the other a circuit that wraps.  Whatever the native check lets pass
\* satisfies the constraints, so that an honest prover whose transfer has the
\* shape of the keys gets a proof; and it lets pass every witness that satisfies
\* them without a zero value or key and without overflow.  The constraints alone,
\* without the native check, guarantee that the note spent is in the present
\* tree, also with a stale proof, and that value is conserved unless a sum wraps.
TransferRulesAgree ==
    LET root == Root(tree)
    IN  \A proof \in proofs :
        \A inputs \in InputLists(proof), outputs \in OutputLists, fee \in Fees :
        \A published \in {OutputCommitments(outputs), << >>} :
            LET public == Public(root, published, fee)
                native == VerifyPublicInputs(public, inputs, outputs)
                fit == Total(inputs) < WordSize /\ Total(outputs) + fee < WordSize
            IN  /\ native <=>
                       /\ CircuitSatisfied(public, inputs, outputs)
                       /\ \A i \in DOMAIN inputs : InputOk(inputs[i])
                       /\ \A i \in DOMAIN outputs : OutputOk(outputs[i])
                       /\ fit
                /\ native /\ FitsKey(inputs, outputs) =>
                       GenerateTransferProof(public, inputs, outputs)
                /\ CircuitSatisfied(public, inputs, outputs) =>
                       /\ Contains(tree, proof.leaf)
                       /\ Total(inputs) = Total(outputs) + fee \/ ~fit

\* A transfer whose proof verify_zk_transfer_proof accepts conserves value: what
\* the comment of verify_zk_transfer_public_inputs asks of the circuit
\* ("conservation des montants").
ProofConservesValue ==
    \A proof \in proofs :
    \A inputs \in InputLists(proof), outputs \in OutputLists, fee \in Fees :
        VerifyTransferProof(Public(Root(tree), OutputCommitments(outputs), fee),
                            inputs, outputs)
            => Total(inputs) = Total(outputs) + fee

=============================================================================
