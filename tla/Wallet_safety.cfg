SPECIFICATION Spec
CONSTANTS
    r1 = r1
    r2 = r2
    alice = alice
    cli = cli
    faucet = faucet
    Nobody = Nobody
    Requests = {r1, r2}
    Addresses = {alice}
    Wallets = {cli, faucet}
    Faucets = {faucet}
    Owner <- MCOwner
    Commands <- MCCommands
    OtherTxs <- MCOtherTxs
    WordSize = 3
    FixedFee = 1
    Balances = {2}
    MaxCommands = 3
    MaxQueued = 2
SYMMETRY Symmetry
INVARIANTS
    AdmittedAffordable
    AcceptedAreQueued
    WalletsMeetChecks
