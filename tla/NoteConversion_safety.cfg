SPECIFICATION Spec
CONSTANTS
    alice = alice
    bob = bob
    k1 = k1
    b1 = b1
    b2 = b2
    v1 = v1
    v2 = v2
    Zero = Zero
    NoHint = NoHint
    Accounts = {alice, bob}
    Supply <- MCSupply
    WordSize = 8
    Amounts = {0, 1, 2}
    SpendingKeys = {k1}
    Blindings = {b1, b2, Zero}
    ViewingKeys = {v1, v2, Zero}
    MaxNotes = 4
    MaxProofs = 1
    OutputLists <- MCOutputLists
    Fees = {0, 3}
INVARIANTS
    ValueConserved
    ProofsAreExact
    TransferRulesAgree
