-------------------------- MODULE ContractStorage --------------------------
(***************************************************************************)
(* Deployment of contracts and their persistent storage: the contract      *)
(* operations of src/storage/mod.rs and execute_contract_call of           *)
(* src/vm/mod.rs.  RocksDbStorage is shared through an Arc without a lock: *)
(* calls run concurrently on the workers of the RPC server, and every      *)
(* get, put, iterator and WriteBatch is one atomic step of the database.   *)
(* The process may crash between any two of them.                          *)
(*                                                                         *)
(* A slot map is a total function with NoValue where the slot is unset; a  *)
(* storage root, the hash of the sorted slots, is the slot map it hashes.  *)
(* What the contract computes is arbitrary: it writes any values and then  *)
(* returns or traps (trap, fuel exhausted, memory out of bounds).  The     *)
(* other host functions are added by ContractVM.                           *)
(***************************************************************************)
EXTENDS Naturals

CONSTANTS
    Callers,   \* threads that run operations of the storage
    Contracts, \* contract addresses
    Keys,      \* storage keys
    Values,    \* storage values
    NoValue,   \* an unset slot
    Direct,    \* whether set_contract_storage is called besides the VM
    Crashes    \* whether the process may crash

ASSUME ContractStorageAssumption ==
    /\ Contracts # {}
    /\ NoValue \notin Values
    /\ Direct \in BOOLEAN
    /\ Crashes \in BOOLEAN

VARIABLES
    contract,  \* contract[a]: the storage_root recorded, {} before deployment
    account,   \* addresses with a contract account
    slots,     \* slots[a]: the persistent slots
    pc,        \* pc[c]: the operation caller c is in
    target,    \* target[c]: the contract it works on
    staged,    \* staged[c]: staged_storage_writes of the running call
    root,      \* root[c]: the storage root computed, to be written
    persisted, \* history: writes of the operations that reached the database
    interrupted \* history: contracts whose deployment a crash cut in two

durable == <<contract, account, slots>>
history == <<persisted, interrupted>>
vars == <<durable, pc, target, staged, root, history>>

SlotMaps == [Keys -> Values \cup {NoValue}]

NoSlots == [k \in Keys |-> NoValue]

\* slot_entries: the slots of the database overridden by the staged writes
Overlay(map, writes) ==
    [k \in Keys |-> IF writes[k] = NoValue THEN map[k] ELSE writes[k]]

Goto(c, label) == pc' = [pc EXCEPT ![c] = label]

(***************************************************************************)
(* deploy_contract                                                         *)
(***************************************************************************)

\* get_account and get_contract both find nothing.
DeployContract(c, a) ==
    /\ pc[c] = "idle"
    /\ a \notin account
    /\ contract[a] = {}
    /\ target' = [target EXCEPT ![c] = a]
    /\ Goto(c, "put_contract")
    /\ UNCHANGED <<durable, staged, root, history>>

\* Mutant: the account of the contract is forgotten.
PutContractReturns(c) ==
    /\ pc[c] = "put_contract"
    /\ contract' = [contract EXCEPT ![target[c]] = {NoSlots}]
    /\ Goto(c, "idle")
    /\ UNCHANGED <<account, slots, target, staged, root, history>>

\* put_contract with an empty storage root
PutContract(c) ==
    /\ pc[c] = "put_contract"
    /\ contract' = [contract EXCEPT ![target[c]] = {NoSlots}]
    /\ Goto(c, "put_account")
    /\ UNCHANGED <<account, slots, target, staged, root, history>>

PutAccount(c) ==
    /\ pc[c] = "put_account"
    /\ account' = account \cup {target[c]}
    /\ Goto(c, "idle")
    /\ UNCHANGED <<contract, slots, target, staged, root, history>>

(***************************************************************************)
(* WasmVM::execute_contract_call                                           *)
(***************************************************************************)

\* get_contract, then require_contract_account
ExecuteContractCall(c, a) ==
    /\ pc[c] = "idle"
    /\ contract[a] # {}
    /\ a \in account
    /\ target' = [target EXCEPT ![c] = a]
    /\ staged' = [staged EXCEPT ![c] = NoSlots]
    /\ Goto(c, "running")
    /\ UNCHANGED <<durable, root, history>>

\* Mutant: the write goes straight to the database.
SetStorageThrough(c, k, v) ==
    /\ pc[c] = "running"
    /\ slots' = [slots EXCEPT ![target[c]][k] = v]
    /\ staged' = [staged EXCEPT ![c][k] = v]
    /\ UNCHANGED <<contract, account, pc, target, root, history>>

\* Host function set_storage
SetStorage(c, k, v) ==
    /\ pc[c] = "running"
    /\ staged' = [staged EXCEPT ![c][k] = v]
    /\ UNCHANGED <<durable, pc, target, root, history>>

\* entry.call fails: the error leaves the VM and its staged writes behind.
Trap(c) ==
    /\ pc[c] = "running"
    /\ staged' = [staged EXCEPT ![c] = NoSlots]
    /\ Goto(c, "idle")
    /\ UNCHANGED <<durable, target, root, history>>

\* Mutant: the outcome is returned without the commit.
ComputeNoBatchRoot(c) ==
    /\ pc[c] = "running"
    /\ Goto(c, "take_outcome")
    /\ UNCHANGED <<durable, target, staged, root, history>>

\* entry.call returns and commit_contract_storage_batch starts: nothing to do
\* without writes, otherwise it reads the slots and computes the new root.
ComputeBatchRoot(c) ==
    /\ pc[c] = "running"
    /\ IF staged[c] = NoSlots
       THEN Goto(c, "take_outcome") /\ UNCHANGED root
       ELSE /\ root' = [root EXCEPT ![c] = Overlay(slots[target[c]], staged[c])]
            /\ Goto(c, "write_batch")
    /\ UNCHANGED <<durable, target, staged, history>>

\* The slots the batch of call c writes.
StagedWrites(c) ==
    {<<target[c], k, staged[c][k]>> : k \in {k \in Keys : staged[c][k] # NoValue}}

\* The WriteBatch: the slots written and the contract with its new root.
WriteBatch(c) ==
    LET a == target[c]
    IN  /\ pc[c] = "write_batch"
        /\ slots' = [slots EXCEPT ![a] = Overlay(@, staged[c])]
        /\ contract' = [contract EXCEPT ![a] = {root[c]}]
        /\ persisted' = persisted \cup StagedWrites(c)
        /\ Goto(c, "take_outcome")
        /\ UNCHANGED <<account, target, staged, root, interrupted>>

\* The outcome of the call is put together and returned.
TakeOutcome(c) ==
    /\ pc[c] = "take_outcome"
    /\ staged' = [staged EXCEPT ![c] = NoSlots]
    /\ Goto(c, "idle")
    /\ UNCHANGED <<durable, target, root, history>>

(***************************************************************************)
(* set_contract_storage                                                    *)
(***************************************************************************)

\* get_contract, then the put of the slot
SetContractStorage(c, a, k, v) ==
    /\ Direct
    /\ pc[c] = "idle"
    /\ contract[a] # {}
    /\ slots' = [slots EXCEPT ![a][k] = v]
    /\ persisted' = persisted \cup {<<a, k, v>>}
    /\ target' = [target EXCEPT ![c] = a]
    /\ Goto(c, "set_root")
    /\ UNCHANGED <<contract, account, staged, root, interrupted>>

\* compute_contract_storage_root
ComputeRoot(c) ==
    /\ pc[c] = "set_root"
    /\ root' = [root EXCEPT ![c] = slots[target[c]]]
    /\ Goto(c, "update_contract")
    /\ UNCHANGED <<durable, target, staged, history>>

UpdateContract(c) ==
    /\ pc[c] = "update_contract"
    /\ contract' = [contract EXCEPT ![target[c]] = {root[c]}]
    /\ Goto(c, "idle")
    /\ UNCHANGED <<account, slots, target, staged, root, history>>

\* The process stops and is restarted: what was put stays, the rest is gone.
Crash ==
    /\ Crashes
    /\ pc' = [c \in Callers |-> "idle"]
    /\ staged' = [c \in Callers |-> NoSlots]
    /\ interrupted' = interrupted
           \cup {target[c] : c \in {d \in Callers : pc[d] = "put_account"}}
    /\ UNCHANGED <<durable, target, root, persisted>>

-----------------------------------------------------------------------------
Init ==
    /\ contract = [a \in Contracts |-> {}]
    /\ account = {}
    /\ slots = [a \in Contracts |-> NoSlots]
    /\ pc = [c \in Callers |-> "idle"]
    /\ target = [c \in Callers |-> CHOOSE a \in Contracts : TRUE]
    /\ staged = [c \in Callers |-> NoSlots]
    /\ root = [c \in Callers |-> NoSlots]
    /\ persisted = {}
    /\ interrupted = {}

Next ==
    \/ \E c \in Callers :
        \/ \E a \in Contracts : DeployContract(c, a) \/ ExecuteContractCall(c, a)
        \/ PutContract(c)
        \/ PutAccount(c)
        \/ \E k \in Keys, v \in Values :
               \/ SetStorage(c, k, v)
               \/ \E a \in Contracts : SetContractStorage(c, a, k, v)
        \/ Trap(c)
        \/ ComputeBatchRoot(c)
        \/ WriteBatch(c)
        \/ TakeOutcome(c)
        \/ ComputeRoot(c)
        \/ UpdateContract(c)
    \/ Crash

Spec == Init /\ [][Next]_vars

-----------------------------------------------------------------------------
Labels == {"idle", "put_contract", "put_account", "running", "write_batch",
           "take_outcome", "set_root", "update_contract"}

TypeOK ==
    /\ contract \in [Contracts -> SUBSET SlotMaps]
    /\ account \subseteq Contracts
    /\ slots \in [Contracts -> SlotMaps]
    /\ pc \in [Callers -> Labels]
    /\ target \in [Callers -> Contracts]
    /\ staged \in [Callers -> SlotMaps]
    /\ root \in [Callers -> SlotMaps]
    /\ persisted \subseteq Contracts \X Keys \X Values
    /\ interrupted \subseteq Contracts

\* Nothing a call wrote before it trapped, or before the process crashed, is in
\* the persistent slots: every value there was written by an operation that
\* reached its own write to the database, and slots and contract exist together.
OnlySuccessfulCallsPersist ==
    \A a \in Contracts : \A k \in Keys : slots[a][k] # NoValue =>
        /\ <<a, k, slots[a][k]>> \in persisted
        /\ contract[a] # {}

\* The recorded storage_root is the root of the slots of the contract.
RootMatchesSlots ==
    \A a \in Contracts : contract[a] \subseteq {slots[a]}

AccountHasContract == \A a \in account : contract[a] # {}

ContractHasAccount ==
    \A a \in Contracts :
        contract[a] # {} =>
            \/ a \in account \cup interrupted
            \/ \E c \in Callers : pc[c] = "put_account" /\ target[c] = a

\* Contract and account belong together.  deploy_contract puts the contract first,
\* so that no crash and no concurrent deployment of the same code leaves an
\* account that execute_contract_call finds no code for; and a contract has its
\* account, or is about to get it, unless a crash separated the two puts.  (Without
\* the account every call fails, and so does every attempt to deploy it again.)
ContractsHaveAccounts == AccountHasContract /\ ContractHasAccount

=============================================================================
