------------------------- MODULE MCContractStorage -------------------------
(* Model-checking instances of ContractVM, and so of ContractStorage. *)
EXTENDS ContractVM, TLC

CONSTANTS c1, c2, k1, k2, v1, v2, erc20

MCKeys == {k1, k2}
Symmetry == Permutations(Callers) \cup Permutations(MCKeys) \cup Permutations(Values)

\* A range that fits, an empty one, a negative one and one past the end.
MCRanges == {[ptr |-> 3, len |-> 1], [ptr |-> 4, len |-> 0],
             [ptr |-> -1, len |-> 1], [ptr |-> 3, len |-> 2]}
MCAmounts == {-1, 0, 2}
MCAccounts == [balance : {0, 3}, nonce : {0}]

\* VMInit after deploy_contract has returned for every contract: no deployment
\* is left to do, and the callers only execute calls.
DeployedInit ==
    /\ contract = [a \in Contracts |-> {NoSlots}]
    /\ account = Contracts
    /\ slots = [a \in Contracts |-> NoSlots]
    /\ pc = [c \in Callers |-> "idle"]
    /\ target = [c \in Callers |-> CHOOSE a \in Contracts : TRUE]
    /\ staged = [c \in Callers |-> NoSlots]
    /\ root = [c \in Callers |-> NoSlots]
    /\ persisted = {}
    /\ interrupted = {}
    /\ funds = [a \in Contracts |-> Deployed]
    /\ fuel = [c \in Callers |-> 0]
    /\ limit = [c \in Callers |-> 0]
    /\ transfers = [c \in Callers |-> << >>]
    /\ events = [c \in Callers |-> 0]
    /\ payers = [c \in Callers |-> << >>]

CallsSpec == DeployedInit /\ [][VMNext]_allVars
=============================================================================
