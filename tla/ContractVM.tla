----------------------------- MODULE ContractVM -----------------------------
(***************************************************************************)
(* The host functions of the Wasm machine of src/vm/mod.rs on top of the   *)
(* contract storage: transfers, events, memory ranges and fuel, and the    *)
(* WasmExecutionOutcome that execute_contract_call returns.                *)
(*                                                                         *)
(* The contract is arbitrary code: it calls host functions with any memory *)
(* ranges and amounts.  A host function that fails makes the whole call    *)
(* fail, which is the step TrapCall; so the guards here are the conditions *)
(* under which a host function succeeds.  What a host function copies into *)
(* the memory of the contract is not kept, since the contract may compute  *)
(* anything from it.  That every host call burns at least one unit of fuel *)
(* is wasmtime's doing, which is external and taken as given.              *)
(***************************************************************************)
EXTENDS ContractStorage, Integers, Sequences

CONSTANTS
    Ranges,      \* memory ranges [ptr, len] passed to host functions, i32
    MemorySize,  \* bytes of memory the contract exports
    Amounts,     \* transfer amounts, i64
    FixedFee,    \* FIXED_TRANSACTION_FEE
    WordSize,    \* the 2^64 of u64
    Accounts,    \* values [balance, nonce] the account of a contract may take
    FuelLimits   \* gas limits of calls, u64

Deployed == [balance |-> 0, nonce |-> 0]

ASSUME ContractVMAssumption ==
    /\ Ranges \subseteq [ptr : Int, len : Int]
    /\ MemorySize \in Nat
    /\ Amounts \subseteq Int
    /\ FixedFee \in Nat
    /\ WordSize \in Nat
    /\ Accounts \subseteq [balance : Nat, nonce : Nat]
    /\ Deployed \in Accounts
    /\ FuelLimits \subseteq Nat

VARIABLES
    funds,     \* funds[a]: balance and nonce of the account of contract a
    fuel,      \* fuel[c]: fuel left in the store of the call c runs
    limit,     \* limit[c]: the fuel_limit of that call
    transfers, \* transfers[c]: its pending_transfers
    events,    \* events[c]: how many emitted_events it has
    payers     \* history: payers[c], the account each of them was prepared from

callVars == <<fuel, limit, transfers, events, payers>>
vmVars == <<funds, callVars>>
allVars == <<vars, vmVars>>

\* read_memory and write_memory
InBounds(r) == r.ptr >= 0 /\ r.len >= 0 /\ r.ptr + r.len <= MemorySize

\* Config::consume_fuel: a call without fuel traps
Spend(c) == fuel[c] > 0 /\ fuel' = [fuel EXCEPT ![c] = @ - 1]

\* require_contract_account
RequireContractAccount(a) == a \in account

\* update_account, of deploy_contract and of whoever else writes the account
SetFunds(a, acc) == funds' = [funds EXCEPT ![a] = acc]

(***************************************************************************)
(* execute_contract_call                                                   *)
(***************************************************************************)

\* A new VM and a store filled with fuel; set_fuel_limit refuses 0.
BeginCall(c, a, f) ==
    /\ f > 0
    /\ ExecuteContractCall(c, a)
    /\ fuel' = [fuel EXCEPT ![c] = f]
    /\ limit' = [limit EXCEPT ![c] = f]
    /\ transfers' = [transfers EXCEPT ![c] = << >>]
    /\ events' = [events EXCEPT ![c] = 0]
    /\ payers' = [payers EXCEPT ![c] = << >>]
    /\ UNCHANGED funds

\* The host functions that copy something to or from the range r:
\* get_block_height, get_caller_len, copy_caller, get_params_len, copy_params
\* and get_balance
HostRead(c, r) ==
    /\ pc[c] = "running"
    /\ InBounds(r)
    /\ Spend(c)
    /\ UNCHANGED <<vars, funds, limit, transfers, events, payers>>

\* get_storage: a write of the call itself, or else the slot of the database
GetStorage(c, k) ==
    IF staged[c][k] # NoValue THEN staged[c][k] ELSE slots[target[c]][k]

\* get_storage_len and copy_storage, with the ranges of key and destination;
\* nothing is copied, and -1 returned, when the slot is unset
HostGetStorage(c, r, s, k) ==
    /\ pc[c] = "running"
    /\ InBounds(r)
    /\ RequireContractAccount(target[c])
    /\ GetStorage(c, k) # NoValue => InBounds(s)
    /\ Spend(c)
    /\ UNCHANGED <<vars, funds, limit, transfers, events, payers>>

\* set_storage, with the ranges of key and value
HostSetStorage(c, r, s, k, v) ==
    /\ InBounds(r)
    /\ InBounds(s)
    /\ RequireContractAccount(target[c])
    /\ SetStorage(c, k, v)
    /\ Spend(c)
    /\ UNCHANGED <<funds, limit, transfers, events, payers>>

\* emit_event
EmitEvent(c, name) ==
    /\ name.len > 0
    /\ events' = [events EXCEPT ![c] = @ + 1]

\* ... as called by the contract, with the ranges of name and data
HostEmitEvent(c, r, s) ==
    /\ pc[c] = "running"
    /\ InBounds(r)
    /\ InBounds(s)
    /\ EmitEvent(c, r)
    /\ Spend(c)
    /\ UNCHANGED <<vars, funds, limit, transfers, payers>>

\* transfer.  The account is read from the database every time, and neither its
\* balance nor its nonce is touched.
Transfer(c, to, amount) ==
    LET sender == funds[target[c]]
    IN  /\ to.len > 0
        /\ RequireContractAccount(target[c])
        /\ amount + FixedFee < WordSize
        /\ sender.balance >= amount + FixedFee
        /\ sender.nonce + 1 < WordSize
        /\ transfers' = [transfers EXCEPT ![c] =
               Append(@, [amount |-> amount, nonce |-> sender.nonce + 1])]

\* ... as called by the contract, to the address in range r
HostTransfer(c, r, amount) ==
    /\ pc[c] = "running"
    /\ amount >= 0
    /\ InBounds(r)
    /\ Transfer(c, r, amount)
    /\ Spend(c)
    /\ payers' = [payers EXCEPT ![c] = Append(@, funds[target[c]])]
    /\ UNCHANGED <<vars, funds, limit, events>>

\* The VM and the store of the call are dropped.
DropVM(c) ==
    /\ fuel' = [fuel EXCEPT ![c] = 0]
    /\ limit' = [limit EXCEPT ![c] = 0]
    /\ transfers' = [transfers EXCEPT ![c] = << >>]
    /\ events' = [events EXCEPT ![c] = 0]
    /\ payers' = [payers EXCEPT ![c] = << >>]

\* Whatever fails in the contract or in a host function: nothing is returned.
TrapCall(c) == Trap(c) /\ DropVM(c) /\ UNCHANGED funds

\* The WasmExecutionOutcome of the call: remaining_fuel, pending_transfers and
\* emitted_events, and the writes it has made.
Outcome(c) ==
    [writes |-> StagedWrites(c), transfers |-> transfers[c],
     events |-> events[c], fuel |-> fuel[c]]

\* Outcome(c) is returned.
ReturnOutcome(c) == TakeOutcome(c) /\ DropVM(c) /\ UNCHANGED funds

(***************************************************************************)
(* The other operations, with the accounts they write                      *)
(***************************************************************************)

PutDeployedAccount(c) ==
    /\ PutAccount(c)
    /\ SetFunds(target[c], Deployed)
    /\ UNCHANGED callVars

\* An account that holds a contract is credited or debited (conversion.rs).
UpdateAccount(a, acc) ==
    /\ a \in account
    /\ SetFunds(a, acc)
    /\ UNCHANGED <<vars, callVars>>

StorageStep(c) ==
    /\ \/ \E a \in Contracts : DeployContract(c, a)
       \/ PutContract(c)
       \/ ComputeBatchRoot(c)
       \/ WriteBatch(c)
       \/ \E a \in Contracts, k \in Keys, v \in Values :
              SetContractStorage(c, a, k, v)
       \/ ComputeRoot(c)
       \/ UpdateContract(c)
    /\ UNCHANGED vmVars

VMCrash ==
    /\ Crash
    /\ fuel' = [c \in Callers |-> 0]
    /\ limit' = [c \in Callers |-> 0]
    /\ transfers' = [c \in Callers |-> << >>]
    /\ events' = [c \in Callers |-> 0]
    /\ payers' = [c \in Callers |-> << >>]
    /\ UNCHANGED funds

-----------------------------------------------------------------------------
VMInit ==
    /\ Init
    /\ funds = [a \in Contracts |-> Deployed]
    /\ fuel = [c \in Callers |-> 0]
    /\ limit = [c \in Callers |-> 0]
    /\ transfers = [c \in Callers |-> << >>]
    /\ events = [c \in Callers |-> 0]
    /\ payers = [c \in Callers |-> << >>]

VMNext ==
    \/ \E c \in Callers :
        \/ \E a \in Contracts, f \in FuelLimits : BeginCall(c, a, f)
        \/ \E r \in Ranges : HostRead(c, r)
        \/ \E r, s \in Ranges :
               \/ HostEmitEvent(c, r, s)
               \/ \E k \in Keys :
                      \/ HostGetStorage(c, r, s, k)
                      \/ \E v \in Values : HostSetStorage(c, r, s, k, v)
        \/ \E r \in Ranges, amount \in Amounts : HostTransfer(c, r, amount)
        \/ TrapCall(c)
        \/ ReturnOutcome(c)
        \/ PutDeployedAccount(c)
        \/ StorageStep(c)
    \/ \E a \in Contracts, acc \in Accounts : UpdateAccount(a, acc)
    \/ VMCrash

VMSpec == VMInit /\ [][VMNext]_allVars

-----------------------------------------------------------------------------
VMTypeOK ==
    /\ funds \in [Contracts -> Accounts]
    /\ fuel \in [Callers -> Nat]
    /\ limit \in [Callers -> Nat]
    /\ transfers \in [Callers -> Seq([amount : Nat, nonce : Nat])]
    /\ events \in [Callers -> Nat]
    /\ payers \in [Callers -> Seq(Accounts)]

\* Transfer t with the fee is paid by the account acc, and follows its nonce.
Covered(acc, t) == acc.balance >= t.amount + FixedFee /\ t.nonce = acc.nonce + 1

\* What execute_contract_call returns has been earned: the writes of the call
\* are in the database before its outcome is handed out; each of its transfers
\* was covered by the account as it stood when the transfer was prepared,
\* whatever was credited or debited before and after; the fuel limit was not 0;
\* and the limit paid for all the call did, given that each host call burns fuel.
OutcomeIsEarned ==
    \A c \in Callers : pc[c] = "take_outcome" =>
        LET o == Outcome(c)
        IN  /\ o.writes \subseteq persisted
            /\ \A i \in 1 .. Len(o.transfers) : Covered(payers[c][i], o.transfers[i])
            /\ limit[c] > 0
            /\ Len(o.transfers) + o.events + o.fuel <= limit[c]

=============================================================================
