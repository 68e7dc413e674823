--------------------------- MODULE NoteConversion ---------------------------
(***************************************************************************)
(* Conversion between public balances and anonymous notes,                 *)
(* src/privacy/conversion.rs.  convert_public_to_anon debits an account    *)
(* and appends a note to the tree; convert_anon_to_public takes a note out *)
(* of the tree and credits the account that tracks it.  Both are functions *)
(* of the account and the list of commitments; the caller stores what they *)
(* return and applies the same change to the list.                         *)
(*                                                                         *)
(* Wallets hold membership proofs which they made of an earlier tree, and  *)
(* may use them at any later moment, more than once.  A commitment is the  *)
(* triple it digests: value, recipient key and blinding.                   *)
(***************************************************************************)
EXTENDS NoteMerkle, SequencesExt

CONSTANTS
    Accounts,     \* public accounts
    Supply,       \* the balance each starts with
    WordSize,     \* the 2^64 of u64
    Amounts,      \* amounts requested, zero included
    SpendingKeys, \* private keys of notes; the public key is derived from it
    Blindings,    \* blindings of notes
    ViewingKeys,  \* viewing keys, the hint is derived from it
    Zero,         \* the all-zero key or blinding, refused
    NoHint,       \* viewing_hint = None
    MaxNotes,     \* bound on the notes of the tree
    MaxProofs     \* bound on the proofs wallets hold

ASSUME ConversionAssumption ==
    /\ IsFiniteSet(Accounts)
    /\ WordSize \in Nat \ {0}
    /\ Supply \in [Accounts -> 0 .. (WordSize - 1)]
    /\ Amounts \subseteq Nat
    /\ MaxNotes \in Nat
    /\ MaxProofs \in Nat
    /\ NoHint \notin {<<"hint", viewing_key>> : viewing_key \in ViewingKeys}

VARIABLES
    balance,          \* account.balance
    viewing_hint,     \* account.anonymous_state.viewing_hint
    note_commitments, \* account.anonymous_state.note_commitments
    tree,             \* commitments of the note tree, in order
    proofs            \* proofs in the wallets

vars == <<balance, viewing_hint, note_commitments, tree, proofs>>

PublicKeys == {<<"owner", k>> : k \in SpendingKeys} \cup {Zero}

\* derive_note_recipient_public_key
PublicKey(k) == <<"owner", k>>

\* Note::new(value, key, blinding) is Ok; the note is its commitment.
NoteOk(value, key, blinding) == value > 0 /\ key # Zero /\ blinding # Zero

Commitment(value, key, blinding) ==
    [value |-> value, key |-> key, blinding |-> blinding]

\* compute_viewing_hint
HintOf(viewing_key) == <<"hint", viewing_key>>

\* iter().position(..) and remove(..): the first occurrence goes.
RemoveFirstOf(list, c) == RemoveAt(list, SelectInSeq(list, LAMBDA x : x = c))

\* What convert_public_to_anon checks: amount, balance, Note::new,
\* compute_viewing_hint and the hint of the account.
MayConvert(a, amount, key, blinding, viewing_key) ==
    /\ amount > 0
    /\ balance[a] >= amount
    /\ NoteOk(amount, key, blinding)
    /\ viewing_key # Zero
    /\ viewing_hint[a] \in {NoHint, HintOf(viewing_key)}

ConvertPublicToAnon(a, amount, key, blinding, viewing_key) ==
    LET c == Commitment(amount, key, blinding)
    IN  /\ Len(tree) < MaxNotes
        /\ MayConvert(a, amount, key, blinding, viewing_key)
        /\ balance' = [balance EXCEPT ![a] = @ - amount]
        /\ viewing_hint' = [viewing_hint EXCEPT ![a] = HintOf(viewing_key)]
        /\ note_commitments' = [note_commitments EXCEPT ![a] = Append(@, c)]
        /\ tree' = Append(tree, c)
        /\ UNCHANGED proofs

\* What convert_anon_to_public checks before it consumes a note.
MayConsume(a, c, proof) ==
    /\ c.value > 0
    /\ NoteOk(c.value, c.key, c.blinding)
    /\ proof.leaf = c
    /\ VerifyProof(Root(tree), proof)
    /\ Contains(note_commitments[a], c)
    /\ Contains(tree, c)
    /\ balance[a] + c.value < WordSize

\* The account's anonymous state without the note; no hint without notes.
ConsumeTracked(a, c) ==
    LET rest == RemoveFirstOf(note_commitments[a], c)
    IN  /\ note_commitments' = [note_commitments EXCEPT ![a] = rest]
        /\ viewing_hint' = [viewing_hint EXCEPT ![a] =
               IF rest = <<>> THEN NoHint ELSE @]

\* Mutant: the note stays in the tree.
ConvertAnonToPublicKeepsLeaf(a, amount, key, blinding, proof) ==
    LET c == Commitment(amount, PublicKey(key), blinding)
    IN  /\ MayConsume(a, c, proof)
        /\ balance' = [balance EXCEPT ![a] = @ + amount]
        /\ ConsumeTracked(a, c)
        /\ UNCHANGED <<tree, proofs>>

ConvertAnonToPublic(a, amount, key, blinding, proof) ==
    LET c == Commitment(amount, PublicKey(key), blinding)
    IN  /\ MayConsume(a, c, proof)
        /\ balance' = [balance EXCEPT ![a] = @ + amount]
        /\ ConsumeTracked(a, c)
        /\ tree' = RemoveFirstOf(tree, c)
        /\ UNCHANGED proofs

\* A wallet makes a proof of a note of the present tree, or forgets one.
MakeProof(index) ==
    /\ Cardinality(proofs) < MaxProofs
    /\ proofs' = proofs \cup {GenerateProof(tree, index)}
    /\ UNCHANGED <<balance, viewing_hint, note_commitments, tree>>

ForgetProof(proof) ==
    /\ proofs' = proofs \ {proof}
    /\ UNCHANGED <<balance, viewing_hint, note_commitments, tree>>

Init ==
    /\ balance = Supply
    /\ viewing_hint = [a \in Accounts |-> NoHint]
    /\ note_commitments = [a \in Accounts |-> <<>>]
    /\ tree = <<>>
    /\ proofs = {}

Next ==
    \/ \E a \in Accounts, amount \in Amounts, blinding \in Blindings :
        \/ \E key \in PublicKeys, viewing_key \in ViewingKeys :
               ConvertPublicToAnon(a, amount, key, blinding, viewing_key)
        \/ \E key \in SpendingKeys, proof \in proofs :
               ConvertAnonToPublic(a, amount, key, blinding, proof)
    \/ \E index \in 0 .. (Len(tree) - 1) : MakeProof(index)
    \/ \E proof \in proofs : ForgetProof(proof)

Spec == Init /\ [][Next]_vars

-----------------------------------------------------------------------------
CountIn(list, c) == Cardinality({i \in DOMAIN list : list[i] = c})

SumOver(f) == FoldFunction(LAMBDA n, sum : n + sum, 0, f)

\* Conversions neither create nor destroy value: the balances and the notes of
\* the tree add up to the initial supply, whatever stale or repeated proofs
\* wallets use and although two notes may have one and the same commitment; and
\* no balance leaves the range of a u64.  The tree holds exactly the notes the
\* accounts track, as often as they track them, and an account has a viewing hint
\* exactly when it tracks a note.
ValueConserved ==
    /\ SumOver(balance) + SumOver([i \in DOMAIN tree |-> tree[i].value])
           = SumOver(Supply)
    /\ \A a \in Accounts : balance[a] \in 0 .. (WordSize - 1)
    /\ \A c \in Range(tree) \cup UNION {Range(note_commitments[a]) : a \in Accounts} :
           CountIn(tree, c) =
               SumOver([a \in Accounts |-> CountIn(note_commitments[a], c)])
    /\ \A a \in Accounts :
           viewing_hint[a] = NoHint <=> note_commitments[a] = <<>>

\* verify_proof is sound and complete for the present root: a proof in a wallet,
\* however old, verifies only if its leaf is in the tree; and no note is stranded:
\* whoever has the spending key of a note an account tracks can convert it back
\* with a proof made now, odd levels with their doubled last node included, and no
\* sequence of conversions makes the balance overflow.
ProofsAreExact ==
    /\ \A proof \in proofs :
           VerifyProof(Root(tree), proof) => Contains(tree, proof.leaf)
    /\ \A a \in Accounts : \A i \in DOMAIN tree :
           Contains(note_commitments[a], tree[i])
               => MayConsume(a, tree[i], GenerateProof(tree, i - 1))

=============================================================================
