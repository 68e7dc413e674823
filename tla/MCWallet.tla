------------------------------ MODULE MCWallet ------------------------------
(* Model-checking instance of Wallet: a command line wallet and the faucet  *)
(* share a key, with words of 3 values.                                      *)
EXTENDS Wallet, TLC

CONSTANTS r1, r2, alice, cli, faucet

Command(kind, to, amount, data) ==
    [kind |-> kind, to |-> to, amount |-> amount, data |-> data]

\* Some fail in the wallet, some at the node, and a transfer, a call and an
\* unstake go all the way.
MCCommands ==
    [c \in Wallets |->
        IF c \in Faucets
        THEN {Command("Transfer", "key", 1, "none"), Command("Transfer", "junk", 1, "none")}
        ELSE {Command("PublicToAnon", "junk", 1, "none"), Command("Stake", "none", 0, "none"),
              Command("Unstake", "none", 0, "none"),
              Command("CallContract", "key", 0, "call"),
              Command("CallContract", "key", 0, "gasless call"),
              Command("DeployContract", "none", 0, "empty")}]

\* From another program: amount + fee is WordSize and the nonce is far ahead.
Other(amount, nonce) ==
    [kind |-> "Transfer", from |-> alice, to |-> "key", amount |-> amount, fee |-> FixedFee,
     nonce |-> nonce, data |-> "none", signed |-> TRUE]
MCOtherTxs == {Other(WordSize - 1, WordSize - 1)}

MCOwner == [c \in Wallets |-> alice]
Symmetry == Permutations({r1, r2})
=============================================================================
