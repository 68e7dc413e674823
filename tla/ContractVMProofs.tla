-------------------------- MODULE ContractVMProofs --------------------------
(***************************************************************************)
(* Proofs about the contract storage, for any number of threads, contracts,*)
(* keys and values, with crashes at any point; and about ContractVM: the   *)
(* machine with its host functions implements that storage, and so         *)
(* inherits what is proved of it; and an outcome is handed out only when   *)
(* it has been earned.                                                     *)
(***************************************************************************)
EXTENDS ContractVM, TLAPS

(***************************************************************************)
(* The storage.                                                            *)
(***************************************************************************)

\* An operation past its first check works on a contract that exists.
Underway ==
    \A c \in Callers :
        pc[c] \in {"put_account", "running", "write_batch", "set_root",
                   "update_contract"}
            => contract[target[c]] # {}

IInv ==
    /\ TypeOK
    /\ AccountHasContract
    /\ ContractHasAccount
    /\ OnlySuccessfulCallsPersist
    /\ Underway

LEMMA OverlayType ==
    ASSUME NEW m \in SlotMaps, NEW w \in SlotMaps
    PROVE  Overlay(m, w) \in SlotMaps
  BY DEF Overlay, SlotMaps

LEMMA NoSlotsType == NoSlots \in SlotMaps
  BY DEF NoSlots, SlotMaps

LEMMA InitIInv == Init => IInv
<1> SUFFICES ASSUME Init PROVE IInv
  OBVIOUS
<1>1. TypeOK
  BY NoSlotsType, ContractStorageAssumption DEF Init, TypeOK, Labels
<1>2. QED
  BY <1>1, ContractStorageAssumption
     DEF Init, IInv, AccountHasContract, ContractHasAccount,
         OnlySuccessfulCallsPersist, Underway, NoSlots

\* Contracts are created and overwritten, never removed.
LEMMA ContractsStay ==
    ASSUME IInv, [Next]_vars, NEW a \in Contracts, contract[a] # {}
    PROVE  contract'[a] # {}
<1> USE DEF IInv, TypeOK
<1>1. CASE UNCHANGED vars
  BY <1>1 DEF vars, durable, history
<1>2. ASSUME NEW c \in Callers, PutContract(c) PROVE contract'[a] # {}
  BY <1>2 DEF PutContract
<1>3. ASSUME NEW c \in Callers, WriteBatch(c) PROVE contract'[a] # {}
  BY <1>3 DEF WriteBatch
<1>4. ASSUME NEW c \in Callers, UpdateContract(c) PROVE contract'[a] # {}
  BY <1>4 DEF UpdateContract
<1>5. QED
  BY <1>1, <1>2, <1>3, <1>4
     DEF Next, vars, durable, history, DeployContract, ExecuteContractCall, PutAccount,
         SetStorage, SetContractStorage, Trap, ComputeBatchRoot, TakeOutcome, ComputeRoot,
         Crash

LEMMA TypeStep ==
    ASSUME TypeOK, [Next]_vars
    PROVE  TypeOK'
<1> USE OverlayType, NoSlotsType DEF TypeOK, Labels, Goto, durable, history
<1>1. CASE UNCHANGED vars
  BY <1>1 DEF vars
<1>2. ASSUME NEW c \in Callers, NEW a \in Contracts, DeployContract(c, a)
      PROVE  TypeOK'
  BY <1>2 DEF DeployContract
<1>3. ASSUME NEW c \in Callers, NEW a \in Contracts, ExecuteContractCall(c, a)
      PROVE  TypeOK'
  BY <1>3 DEF ExecuteContractCall
<1>4. ASSUME NEW c \in Callers, PutContract(c) PROVE TypeOK'
  BY <1>4 DEF PutContract
<1>5. ASSUME NEW c \in Callers, PutAccount(c) PROVE TypeOK'
  BY <1>5 DEF PutAccount
<1>6. ASSUME NEW c \in Callers, NEW k \in Keys, NEW v \in Values,
             SetStorage(c, k, v)
      PROVE  TypeOK'
  BY <1>6 DEF SetStorage, SlotMaps
<1>7. ASSUME NEW c \in Callers, NEW a \in Contracts, NEW k \in Keys,
             NEW v \in Values, SetContractStorage(c, a, k, v)
      PROVE  TypeOK'
  BY <1>7 DEF SetContractStorage, SlotMaps
<1>8. ASSUME NEW c \in Callers, Trap(c) PROVE TypeOK'
  BY <1>8 DEF Trap
<1>9. ASSUME NEW c \in Callers, ComputeBatchRoot(c) PROVE TypeOK'
  <2>1. Overlay(slots[target[c]], staged[c]) \in SlotMaps
    BY <1>9
  <2>2. QED
    BY <1>9, <2>1 DEF ComputeBatchRoot
<1>10. ASSUME NEW c \in Callers, WriteBatch(c) PROVE TypeOK'
  <2>1. Overlay(slots[target[c]], staged[c]) \in SlotMaps
    BY <1>10
  <2>2. persisted' \subseteq Contracts \X Keys \X Values
    BY <1>10 DEF WriteBatch, StagedWrites, SlotMaps
  <2>3. QED
    BY <1>10, <2>1, <2>2 DEF WriteBatch
<1>11. ASSUME NEW c \in Callers, ComputeRoot(c) PROVE TypeOK'
  BY <1>11 DEF ComputeRoot
<1>12. ASSUME NEW c \in Callers, UpdateContract(c) PROVE TypeOK'
  BY <1>12 DEF UpdateContract
<1>13. ASSUME NEW c \in Callers, TakeOutcome(c) PROVE TypeOK'
  BY <1>13 DEF TakeOutcome
<1>14. ASSUME Crash PROVE TypeOK'
  BY <1>14 DEF Crash
<1>15. QED
  BY <1>1, <1>2, <1>3, <1>4, <1>5, <1>6, <1>7, <1>8, <1>9, <1>10, <1>11,
     <1>12, <1>13, <1>14
     DEF Next

LEMMA UnderwayStep ==
    ASSUME IInv, [Next]_vars
    PROVE  Underway'
<1> USE DEF IInv, TypeOK
<1> SUFFICES ASSUME NEW c \in Callers,
                    pc'[c] \in {"put_account", "running", "write_batch",
                                "set_root", "update_contract"}
             PROVE  contract'[target'[c]] # {}
  BY DEF Underway
<1>1. CASE UNCHANGED <<pc, target>>
  BY <1>1, ContractsStay DEF Underway
<1>2. CASE \E d \in Callers : \E a \in Contracts :
               \/ DeployContract(d, a)
               \/ ExecuteContractCall(d, a)
               \/ \E k \in Keys, v \in Values : SetContractStorage(d, a, k, v)
  BY <1>2, ContractsStay DEF Underway, DeployContract, ExecuteContractCall,
     SetContractStorage, Goto, durable, history
<1>3. CASE \E d \in Callers : PutContract(d)
  BY <1>3, ContractsStay DEF Underway, PutContract, Goto
<1>4. CASE \E d \in Callers :
               \/ PutAccount(d) \/ Trap(d) \/ ComputeBatchRoot(d)
               \/ WriteBatch(d) \/ TakeOutcome(d) \/ ComputeRoot(d)
               \/ UpdateContract(d)
  BY <1>4, ContractsStay DEF Underway, PutAccount, Trap, ComputeBatchRoot,
     WriteBatch, TakeOutcome, ComputeRoot, UpdateContract, Goto
<1>5. CASE Crash
  BY <1>5 DEF Crash
<1>6. QED
  BY <1>1, <1>2, <1>3, <1>4, <1>5 DEF Next, vars, SetStorage

LEMMA PersistStep ==
    ASSUME IInv, [Next]_vars
    PROVE  OnlySuccessfulCallsPersist'
<1> USE DEF IInv, TypeOK
<1> SUFFICES ASSUME NEW a \in Contracts, NEW k \in Keys, slots'[a][k] # NoValue
             PROVE  <<a, k, slots'[a][k]>> \in persisted' /\ contract'[a] # {}
  BY DEF OnlySuccessfulCallsPersist
<1>1. CASE UNCHANGED <<slots, persisted>>
  BY <1>1, ContractsStay DEF OnlySuccessfulCallsPersist
<1>2. ASSUME NEW c \in Callers, WriteBatch(c)
      PROVE  <<a, k, slots'[a][k]>> \in persisted' /\ contract'[a] # {}
  <2>1. CASE a = target[c] /\ staged[c][k] # NoValue
    <3>1. slots'[a][k] = staged[c][k]
      BY <1>2, <2>1 DEF WriteBatch, Overlay
    <3>2. <<a, k, staged[c][k]>> \in persisted'
      BY <1>2, <2>1 DEF WriteBatch, StagedWrites
    <3>3. contract'[a] # {}
      BY <1>2, <2>1 DEF WriteBatch
    <3>4. QED
      BY <3>1, <3>2, <3>3
  <2>2. CASE ~(a = target[c] /\ staged[c][k] # NoValue)
    <3>1. slots'[a][k] = slots[a][k]
      BY <1>2, <2>2 DEF WriteBatch, Overlay
    <3>2. persisted \subseteq persisted'
      BY <1>2 DEF WriteBatch
    <3>3. QED
      BY <3>1, <3>2, ContractsStay DEF OnlySuccessfulCallsPersist
  <2>3. QED
    BY <2>1, <2>2
<1>3. ASSUME NEW c \in Callers, NEW b \in Contracts, NEW j \in Keys,
             NEW v \in Values, SetContractStorage(c, b, j, v)
      PROVE  <<a, k, slots'[a][k]>> \in persisted' /\ contract'[a] # {}
  BY <1>3 DEF SetContractStorage, OnlySuccessfulCallsPersist, SlotMaps
<1>4. QED
  BY <1>1, <1>2, <1>3
     DEF Next, vars, durable, history, DeployContract, ExecuteContractCall, PutContract,
         PutAccount, SetStorage, Trap, ComputeBatchRoot, TakeOutcome, ComputeRoot,
         UpdateContract, Crash

LEMMA AccountStep ==
    ASSUME IInv, [Next]_vars
    PROVE  AccountHasContract'
<1> USE DEF IInv, TypeOK
<1>1. CASE UNCHANGED account
  BY <1>1, ContractsStay DEF AccountHasContract
<1>2. ASSUME NEW c \in Callers, PutAccount(c) PROVE AccountHasContract'
  BY <1>2 DEF PutAccount, AccountHasContract, Underway
<1>3. QED
  BY <1>1, <1>2
     DEF Next, vars, durable, history, DeployContract, ExecuteContractCall, PutContract,
         SetContractStorage, WriteBatch, SetStorage, Trap, ComputeBatchRoot,
         TakeOutcome, ComputeRoot, UpdateContract, Crash

LEMMA DeployedStep ==
    ASSUME IInv, [Next]_vars
    PROVE  ContractHasAccount'
<1> USE DEF IInv, TypeOK
<1> SUFFICES ASSUME NEW a \in Contracts, contract'[a] # {}
             PROVE  \/ a \in account' \cup interrupted'
                    \/ \E c \in Callers : pc'[c] = "put_account" /\ target'[c] = a
  BY DEF ContractHasAccount
<1>1. CASE UNCHANGED vars
  BY <1>1 DEF ContractHasAccount, vars, durable, history
<1>2. ASSUME NEW d \in Callers, PutContract(d)
      PROVE  \/ a \in account' \cup interrupted'
             \/ \E c \in Callers : pc'[c] = "put_account" /\ target'[c] = a
  BY <1>2 DEF PutContract, ContractHasAccount, Goto, history
<1>3. ASSUME NEW d \in Callers, PutAccount(d)
      PROVE  \/ a \in account' \cup interrupted'
             \/ \E c \in Callers : pc'[c] = "put_account" /\ target'[c] = a
  BY <1>3 DEF PutAccount, ContractHasAccount, Goto, history
<1>4. CASE Crash
  BY <1>4 DEF Crash, ContractHasAccount, durable
<1>5. ASSUME NEW d \in Callers, NEW b \in Contracts,
             \/ DeployContract(d, b)
             \/ ExecuteContractCall(d, b)
             \/ \E k \in Keys, v \in Values : SetContractStorage(d, b, k, v)
      PROVE  \/ a \in account' \cup interrupted'
             \/ \E c \in Callers : pc'[c] = "put_account" /\ target'[c] = a
  BY <1>5 DEF DeployContract, ExecuteContractCall, SetContractStorage,
     ContractHasAccount, Goto, durable, history
<1>6. ASSUME NEW d \in Callers,
             \/ \E k \in Keys, v \in Values : SetStorage(d, k, v)
             \/ Trap(d) \/ ComputeBatchRoot(d) \/ TakeOutcome(d) \/ ComputeRoot(d)
      PROVE  \/ a \in account' \cup interrupted'
             \/ \E c \in Callers : pc'[c] = "put_account" /\ target'[c] = a
  BY <1>6 DEF SetStorage, Trap, ComputeBatchRoot, TakeOutcome, ComputeRoot,
     ContractHasAccount, Goto, durable, history
<1>7. ASSUME NEW d \in Callers, WriteBatch(d) \/ UpdateContract(d)
      PROVE  \/ a \in account' \cup interrupted'
             \/ \E c \in Callers : pc'[c] = "put_account" /\ target'[c] = a
  BY <1>7 DEF WriteBatch, UpdateContract, Underway, ContractHasAccount, Goto,
     history
<1>8. QED
  BY <1>1, <1>2, <1>3, <1>4, <1>5, <1>6, <1>7 DEF Next

\* For any number of threads and crashes at any point: the state is well-typed,
\* every contract account has its contract, every contract its account unless a
\* crash cut its deployment in two, and the slots hold nothing of a call
\* that trapped or was cut short.
THEOREM StorageIsSound ==
    Spec => [](TypeOK /\ ContractsHaveAccounts /\ OnlySuccessfulCallsPersist)
<1>1. Init => IInv
  BY InitIInv
<1>2. IInv /\ [Next]_vars => IInv'
  BY TypeStep, UnderwayStep, PersistStep, AccountStep, DeployedStep DEF IInv
<1>3. IInv => TypeOK /\ ContractsHaveAccounts /\ OnlySuccessfulCallsPersist
  BY DEF IInv, ContractsHaveAccounts
<1>4. QED
  BY <1>1, <1>2, <1>3, PTL DEF Spec

\* Every contract account has its contract and every contract its account, or a
\* deployment about to put it, unless a crash came between the two puts of
\* deploy_contract.
THEOREM DeployedContractsHaveAccounts == Spec => []ContractsHaveAccounts
BY StorageIsSound, PTL

-----------------------------------------------------------------------------
(***************************************************************************)
(* The machine on top of it.                                               *)
(***************************************************************************)

LEMMA VMStep == VMNext => [Next]_vars
<1> SUFFICES ASSUME VMNext PROVE [Next]_vars
  OBVIOUS
<1>1. CASE VMCrash
  BY <1>1 DEF VMCrash, Next
<1>2. ASSUME NEW a \in Contracts, NEW acc \in Accounts, UpdateAccount(a, acc)
      PROVE  UNCHANGED vars
  BY <1>2 DEF UpdateAccount
<1>3. ASSUME NEW c \in Callers, StorageStep(c) PROVE Next
  BY <1>3 DEF StorageStep, Next
<1>4. ASSUME NEW c \in Callers,
             TrapCall(c) \/ ReturnOutcome(c) \/ PutDeployedAccount(c)
      PROVE  Next
  BY <1>4 DEF TrapCall, ReturnOutcome, PutDeployedAccount, Next
<1>5. ASSUME NEW c \in Callers, NEW a \in Contracts, NEW f \in FuelLimits,
             BeginCall(c, a, f)
      PROVE  Next
  BY <1>5 DEF BeginCall, Next
<1>6. ASSUME NEW c \in Callers, NEW r \in Ranges, NEW amount \in Amounts,
             HostTransfer(c, r, amount)
      PROVE  UNCHANGED vars
  BY <1>6 DEF HostTransfer
<1>7. ASSUME NEW c \in Callers, NEW r \in Ranges, NEW s \in Ranges,
             NEW k \in Keys, NEW v \in Values, HostSetStorage(c, r, s, k, v)
      PROVE  Next
  BY <1>7 DEF HostSetStorage, Next
<1>8. ASSUME NEW c \in Callers, NEW r \in Ranges, NEW s \in Ranges, NEW k \in Keys,
             HostGetStorage(c, r, s, k)
      PROVE  UNCHANGED vars
  BY <1>8 DEF HostGetStorage
<1>9. ASSUME NEW c \in Callers, NEW r \in Ranges, NEW s \in Ranges,
             HostEmitEvent(c, r, s)
      PROVE  UNCHANGED vars
  BY <1>9 DEF HostEmitEvent
<1>10. ASSUME NEW c \in Callers, NEW r \in Ranges, HostRead(c, r)
       PROVE  UNCHANGED vars
  BY <1>10 DEF HostRead
<1>11. QED
  BY <1>1, <1>2, <1>3, <1>4, <1>5, <1>6, <1>7, <1>8, <1>9, <1>10 DEF VMNext

\* The machine implements the contract storage: hiding host functions, funds
\* and fuel, its behaviours are behaviours of ContractStorage.
THEOREM VMImplementsStorage == VMSpec => Spec
<1>1. VMInit => Init
  BY DEF VMInit
<1>2. [VMNext]_allVars => [Next]_vars
  BY VMStep DEF allVars
<1>3. QED
  BY <1>1, <1>2, PTL DEF VMSpec, Spec

\* Each pending transfer has the account it was prepared from, which covers it.
AllCovered ==
    \A c \in Callers :
        /\ Len(payers[c]) = Len(transfers[c])
        /\ \A i \in 1 .. Len(transfers[c]) : Covered(payers[c][i], transfers[c][i])

\* A call runs on a limit that set_fuel_limit accepted.
Limited ==
    \A c \in Callers :
        pc[c] \in {"running", "write_batch", "take_outcome"} => limit[c] > 0

WithinLimit ==
    \A c \in Callers : Len(transfers[c]) + events[c] + fuel[c] <= limit[c]

WritesCommitted ==
    \A c \in Callers : pc[c] = "take_outcome" => StagedWrites(c) \subseteq persisted

VMInv ==
    /\ IInv
    /\ VMTypeOK
    /\ AllCovered
    /\ Limited
    /\ WithinLimit
    /\ WritesCommitted

LEMMA InitVMInv == VMInit => VMInv
<1> SUFFICES ASSUME VMInit PROVE VMInv
  OBVIOUS
<1>1. IInv
  BY InitIInv DEF VMInit
<1>2. VMTypeOK
  BY ContractVMAssumption DEF VMInit, VMTypeOK
<1>3. \A c \in Callers : pc[c] = "idle"
  BY DEF VMInit, Init
<1>4. QED
  BY <1>1, <1>2, <1>3
     DEF VMInit, VMInv, Limited, AllCovered, WithinLimit, WritesCommitted

LEMMA VMTypeStep ==
    ASSUME TypeOK, VMTypeOK, [VMNext]_allVars
    PROVE  VMTypeOK'
<1> USE ContractVMAssumption DEF VMTypeOK, vmVars, callVars
<1>1. CASE UNCHANGED allVars
  BY <1>1 DEF allVars
<1>2. ASSUME NEW c \in Callers, NEW a \in Contracts, NEW f \in FuelLimits,
             BeginCall(c, a, f)
      PROVE  VMTypeOK'
  BY <1>2 DEF BeginCall
<1>3. ASSUME NEW c \in Callers, NEW r \in Ranges, HostRead(c, r)
      PROVE  VMTypeOK'
  BY <1>3 DEF HostRead, Spend
<1>4. ASSUME NEW c \in Callers, NEW r \in Ranges, NEW s \in Ranges,
             HostEmitEvent(c, r, s)
      PROVE  VMTypeOK'
  BY <1>4 DEF HostEmitEvent, EmitEvent, Spend
<1>5. ASSUME NEW c \in Callers, NEW r \in Ranges, NEW s \in Ranges,
             NEW k \in Keys, NEW v \in Values, HostSetStorage(c, r, s, k, v)
      PROVE  VMTypeOK'
  BY <1>5 DEF HostSetStorage, Spend
<1>6. ASSUME NEW c \in Callers, NEW r \in Ranges, NEW amount \in Amounts,
             HostTransfer(c, r, amount)
      PROVE  VMTypeOK'
  <2>1. funds[target[c]] \in Accounts
    BY DEF TypeOK
  <2>2. funds[target[c]] \in [balance : Nat, nonce : Nat]
    BY <2>1
  <2>3. amount \in Nat
    <3>1. amount >= 0 /\ amount \in Int
      BY <1>6 DEF HostTransfer, Transfer
    <3>2. QED
      BY <3>1
  <2>4. [amount |-> amount, nonce |-> funds[target[c]].nonce + 1]
            \in [amount : Nat, nonce : Nat]
    BY <2>2, <2>3
  <2>5. transfers' \in [Callers -> Seq([amount : Nat, nonce : Nat])]
    BY <1>6, <2>4 DEF HostTransfer, Transfer
  <2>6. fuel' \in [Callers -> Nat]
    BY <1>6 DEF HostTransfer, Spend
  <2>7. payers' \in [Callers -> Seq(Accounts)]
    BY <1>6, <2>1 DEF HostTransfer
  <2>8. QED
    BY <1>6, <2>5, <2>6, <2>7 DEF HostTransfer, Transfer
<1>7. ASSUME NEW c \in Callers, TrapCall(c) \/ ReturnOutcome(c) PROVE VMTypeOK'
  <2>1. DropVM(c) /\ UNCHANGED funds
    BY <1>7 DEF TrapCall, ReturnOutcome
  <2>2. << >> \in Seq([amount : Nat, nonce : Nat]) /\ << >> \in Seq(Accounts)
    OBVIOUS
  <2>3. QED
    BY <2>1, <2>2 DEF DropVM
<1>8. ASSUME NEW c \in Callers, PutDeployedAccount(c) PROVE VMTypeOK'
  BY <1>8 DEF PutDeployedAccount, SetFunds, TypeOK
<1>9. ASSUME NEW c \in Callers, StorageStep(c) PROVE VMTypeOK'
  BY <1>9 DEF StorageStep
<1>10. ASSUME NEW a \in Contracts, NEW acc \in Accounts, UpdateAccount(a, acc)
       PROVE  VMTypeOK'
  BY <1>10 DEF UpdateAccount, SetFunds
<1>11. CASE VMCrash
  BY <1>11 DEF VMCrash
<1>12. ASSUME NEW c \in Callers, NEW r \in Ranges, NEW s \in Ranges, NEW k \in Keys,
              HostGetStorage(c, r, s, k)
       PROVE  VMTypeOK'
  BY <1>12 DEF HostGetStorage, Spend
<1>13. QED
  BY <1>1, <1>2, <1>3, <1>4, <1>5, <1>6, <1>7, <1>8, <1>9, <1>10, <1>11, <1>12
     DEF VMNext

LEMMA CommittedStep ==
    ASSUME TypeOK, WritesCommitted, [Next]_vars
    PROVE  WritesCommitted'
<1> USE DEF TypeOK
<1> SUFFICES ASSUME NEW c \in Callers, pc'[c] = "take_outcome"
             PROVE  StagedWrites(c)' \subseteq persisted'
  BY DEF WritesCommitted
<1>1. persisted \subseteq persisted'
  BY DEF Next, vars, durable, history, DeployContract, ExecuteContractCall,
     PutContract, PutAccount, SetStorage, SetContractStorage, Trap,
     ComputeBatchRoot, WriteBatch, TakeOutcome, ComputeRoot, UpdateContract, Crash
<1>2. CASE WriteBatch(c)
  BY <1>2 DEF WriteBatch, StagedWrites
<1>3. CASE ComputeBatchRoot(c)
  <2>1. staged'[c] = NoSlots
    BY <1>3 DEF ComputeBatchRoot, Goto
  <2>2. QED
    BY <2>1 DEF StagedWrites, NoSlots
<1>4. CASE UNCHANGED <<pc, target, staged>>
  BY <1>1, <1>4 DEF WritesCommitted, StagedWrites
<1>5. ASSUME NEW d \in Callers, NEW k \in Keys, NEW v \in Values, SetStorage(d, k, v)
      PROVE  StagedWrites(c)' \subseteq persisted'
  BY <1>1, <1>5 DEF SetStorage, WritesCommitted, StagedWrites
<1>6. ASSUME NEW d \in Callers, NEW a \in Contracts,
             \/ DeployContract(d, a) \/ ExecuteContractCall(d, a)
             \/ \E k \in Keys, v \in Values : SetContractStorage(d, a, k, v)
      PROVE  StagedWrites(c)' \subseteq persisted'
  BY <1>1, <1>6 DEF DeployContract, ExecuteContractCall, SetContractStorage, Goto,
     WritesCommitted, StagedWrites
<1>7. ASSUME NEW d \in Callers,
             \/ PutContract(d) \/ PutAccount(d) \/ ComputeRoot(d)
             \/ UpdateContract(d) \/ Trap(d) \/ TakeOutcome(d)
      PROVE  StagedWrites(c)' \subseteq persisted'
  BY <1>1, <1>7 DEF PutContract, PutAccount, ComputeRoot, UpdateContract, Trap,
     TakeOutcome, Goto, WritesCommitted, StagedWrites
<1>8. ASSUME NEW d \in Callers, d # c, WriteBatch(d) \/ ComputeBatchRoot(d)
      PROVE  StagedWrites(c)' \subseteq persisted'
  BY <1>1, <1>8 DEF WriteBatch, ComputeBatchRoot, Goto, WritesCommitted, StagedWrites
<1>9. CASE Crash
  BY <1>9 DEF Crash
<1>10. QED
  BY <1>2, <1>3, <1>4, <1>5, <1>6, <1>7, <1>8, <1>9 DEF Next, vars

LEMMA LimitedStep ==
    ASSUME VMInv, [VMNext]_allVars
    PROVE  Limited'
<1> USE DEF VMInv, IInv, TypeOK, VMTypeOK, Goto
<1> SUFFICES ASSUME NEW c \in Callers,
                    pc'[c] \in {"running", "write_batch", "take_outcome"}
             PROVE  limit'[c] > 0
  BY DEF Limited
<1>1. CASE UNCHANGED <<pc, limit>>
  BY <1>1 DEF Limited
<1>2. ASSUME NEW d \in Callers, NEW a \in Contracts, NEW f \in FuelLimits,
             BeginCall(d, a, f)
      PROVE  limit'[c] > 0
  BY <1>2 DEF BeginCall, ExecuteContractCall, Limited
<1>3. ASSUME NEW d \in Callers, TrapCall(d) \/ ReturnOutcome(d)
      PROVE  limit'[c] > 0
  BY <1>3 DEF TrapCall, ReturnOutcome, Trap, TakeOutcome, DropVM, Limited
<1>4. ASSUME NEW d \in Callers, PutDeployedAccount(d) PROVE limit'[c] > 0
  BY <1>4 DEF PutDeployedAccount, PutAccount, callVars, Limited
<1>5. ASSUME NEW d \in Callers, StorageStep(d) PROVE limit'[c] > 0
  <2>1. limit' = limit
    BY <1>5 DEF StorageStep, vmVars, callVars
  <2>2. pc[c] \in {"running", "write_batch", "take_outcome"}
    BY <1>5 DEF StorageStep, DeployContract, PutContract, ComputeBatchRoot,
       WriteBatch, SetContractStorage, ComputeRoot, UpdateContract
  <2>3. QED
    BY <2>1, <2>2 DEF Limited
<1>6. CASE VMCrash
  BY <1>6 DEF VMCrash, Crash
<1>7. QED
  BY <1>1, <1>2, <1>3, <1>4, <1>5, <1>6
     DEF VMNext, allVars, vmVars, callVars, vars, HostRead, HostGetStorage,
         HostEmitEvent, HostSetStorage, HostTransfer, SetStorage, UpdateAccount

LEMMA LimitStep ==
    ASSUME VMInv, [VMNext]_allVars
    PROVE  WithinLimit'
<1> USE DEF VMInv, VMTypeOK
<1> SUFFICES ASSUME NEW c \in Callers
             PROVE  Len(transfers'[c]) + events'[c] + fuel'[c] <= limit'[c]
  BY DEF WithinLimit
<1>1. CASE UNCHANGED callVars
  BY <1>1 DEF callVars, WithinLimit
<1>2. ASSUME NEW d \in Callers, NEW a \in Contracts, NEW f \in FuelLimits,
             BeginCall(d, a, f)
      PROVE  Len(transfers'[c]) + events'[c] + fuel'[c] <= limit'[c]
  BY <1>2, ContractVMAssumption DEF BeginCall, WithinLimit
<1>3. ASSUME NEW d \in Callers, NEW r \in Ranges, HostRead(d, r)
      PROVE  Len(transfers'[c]) + events'[c] + fuel'[c] <= limit'[c]
  BY <1>3 DEF HostRead, Spend, WithinLimit
<1>4. ASSUME NEW d \in Callers, NEW r \in Ranges, NEW s \in Ranges,
             HostEmitEvent(d, r, s)
      PROVE  Len(transfers'[c]) + events'[c] + fuel'[c] <= limit'[c]
  BY <1>4 DEF HostEmitEvent, EmitEvent, Spend, WithinLimit
<1>5. ASSUME NEW d \in Callers, NEW r \in Ranges, NEW s \in Ranges,
             NEW k \in Keys, NEW v \in Values, HostSetStorage(d, r, s, k, v)
      PROVE  Len(transfers'[c]) + events'[c] + fuel'[c] <= limit'[c]
  BY <1>5 DEF HostSetStorage, Spend, WithinLimit
<1>6. ASSUME NEW d \in Callers, NEW r \in Ranges, NEW amount \in Amounts,
             HostTransfer(d, r, amount)
      PROVE  Len(transfers'[c]) + events'[c] + fuel'[c] <= limit'[c]
  <2>1. fuel[d] > 0 /\ fuel' = [fuel EXCEPT ![d] = @ - 1]
    BY <1>6 DEF HostTransfer, Spend
  <2>2. PICK t : transfers' = [transfers EXCEPT ![d] = Append(@, t)]
    BY <1>6 DEF HostTransfer, Transfer
  <2>3. Len(transfers'[c]) = IF c = d THEN Len(transfers[c]) + 1 ELSE Len(transfers[c])
    BY <2>2
  <2>4. UNCHANGED <<limit, events>>
    BY <1>6 DEF HostTransfer, Transfer
  <2>5. QED
    BY <2>1, <2>3, <2>4 DEF WithinLimit
<1>7. ASSUME NEW d \in Callers, DropVM(d)
      PROVE  Len(transfers'[c]) + events'[c] + fuel'[c] <= limit'[c]
  BY <1>7 DEF DropVM, WithinLimit
<1>8. CASE VMCrash
  BY <1>8 DEF VMCrash
<1>9. ASSUME NEW d \in Callers, NEW r \in Ranges, NEW s \in Ranges, NEW k \in Keys,
             HostGetStorage(d, r, s, k)
      PROVE  Len(transfers'[c]) + events'[c] + fuel'[c] <= limit'[c]
  BY <1>9 DEF HostGetStorage, Spend, WithinLimit
<1>10. QED
  BY <1>1, <1>2, <1>3, <1>4, <1>5, <1>6, <1>7, <1>8, <1>9
     DEF VMNext, allVars, vmVars, TrapCall, ReturnOutcome, PutDeployedAccount,
         StorageStep, UpdateAccount

LEMMA CoveredStep ==
    ASSUME VMInv, [VMNext]_allVars
    PROVE  AllCovered'
<1> USE DEF VMInv, IInv, TypeOK, VMTypeOK
<1> DEFINE Paid(p, ts) ==
        Len(p) = Len(ts) /\ \A i \in 1 .. Len(ts) : Covered(p[i], ts[i])
<1> SUFFICES ASSUME NEW c \in Callers PROVE Paid(payers'[c], transfers'[c])
  BY DEF AllCovered, Covered
<1>1. CASE payers'[c] = payers[c] /\ transfers'[c] = transfers[c]
  BY <1>1 DEF AllCovered
<1>2. CASE payers'[c] = << >> /\ transfers'[c] = << >>
  BY <1>2
<1>3. ASSUME NEW r \in Ranges, NEW amount \in Amounts, HostTransfer(c, r, amount)
      PROVE  Paid(payers'[c], transfers'[c])
  <2> DEFINE sender == funds[target[c]]
             t == [amount |-> amount, nonce |-> sender.nonce + 1]
  <2>1. transfers'[c] = Append(transfers[c], t) /\ payers'[c] = Append(payers[c], sender)
    BY <1>3 DEF HostTransfer, Transfer
  <2>2. Covered(sender, t)
    BY <1>3 DEF HostTransfer, Transfer, Covered
  <2>3. Paid(payers[c], transfers[c])
    BY DEF AllCovered
  <2>4. /\ payers[c] \in Seq(Accounts)
        /\ transfers[c] \in Seq([amount : Nat, nonce : Nat])
    OBVIOUS
  <2> HIDE DEF sender, t
  <2>5. Len(payers'[c]) = Len(transfers'[c])
    BY <2>1, <2>3, <2>4
  <2>6. ASSUME NEW i \in 1 .. Len(transfers'[c])
        PROVE  Covered(payers'[c][i], transfers'[c][i])
    <3>1. CASE i = Len(transfers[c]) + 1
      BY <2>1, <2>2, <2>3, <2>4, <3>1
    <3>2. CASE i # Len(transfers[c]) + 1
      <4>1. /\ i \in 1 .. Len(transfers[c])
            /\ payers'[c][i] = payers[c][i] /\ transfers'[c][i] = transfers[c][i]
        BY <2>1, <2>3, <2>4, <3>2
      <4>2. QED
        BY <2>3, <4>1
    <3>3. QED
      BY <3>1, <3>2
  <2>7. QED
    BY <2>5, <2>6
<1>4. ASSUME NEW d \in Callers, d # c, NEW r \in Ranges, NEW amount \in Amounts,
             HostTransfer(d, r, amount)
      PROVE  payers'[c] = payers[c] /\ transfers'[c] = transfers[c]
  BY <1>4 DEF HostTransfer, Transfer
<1>5. ASSUME NEW d \in Callers, NEW a \in Contracts, NEW f \in FuelLimits,
             BeginCall(d, a, f)
      PROVE  Paid(payers'[c], transfers'[c])
  BY <1>1, <1>2, <1>5 DEF BeginCall
<1>6. ASSUME NEW d \in Callers, TrapCall(d) \/ ReturnOutcome(d)
      PROVE  Paid(payers'[c], transfers'[c])
  BY <1>1, <1>2, <1>6 DEF TrapCall, ReturnOutcome, DropVM
<1>7. CASE VMCrash
  BY <1>2, <1>7 DEF VMCrash
<1>8. CASE UNCHANGED <<payers, transfers>>
  BY <1>1, <1>8
<1> HIDE DEF Paid
<1>9. QED
  BY <1>1, <1>3, <1>4, <1>5, <1>6, <1>7, <1>8
     DEF VMNext, allVars, vmVars, callVars, HostRead, HostGetStorage,
         HostEmitEvent, HostSetStorage, StorageStep, UpdateAccount, PutDeployedAccount

LEMMA VMInvStep == VMInv /\ [VMNext]_allVars => VMInv'
<1> SUFFICES ASSUME VMInv, [VMNext]_allVars PROVE VMInv'
  OBVIOUS
<1>1. [Next]_vars
  BY VMStep DEF allVars
<1>2. IInv'
  BY <1>1, TypeStep, UnderwayStep, PersistStep, AccountStep, DeployedStep
     DEF VMInv, IInv
<1>3. WritesCommitted'
  BY <1>1, CommittedStep DEF VMInv, IInv
<1>4. VMTypeOK'
  BY VMTypeStep DEF VMInv, IInv
<1>5. QED
  BY <1>2, <1>3, <1>4, LimitedStep, CoveredStep, LimitStep DEF VMInv

\* For any number of threads, any contract code and crashes at any point: when
\* execute_contract_call returns an outcome, the writes of the call are
\* committed, its transfers were covered by the account they were prepared from,
\* and a fuel limit above 0 has paid for all it contains; and the storage is as sound as without the machine.
THEOREM OutcomesAreEarned ==
    VMSpec => [](VMTypeOK /\ OutcomeIsEarned /\ ContractsHaveAccounts
                    /\ OnlySuccessfulCallsPersist)
<1>1. VMInit => VMInv
  BY InitVMInv
<1>2. VMInv /\ [VMNext]_allVars => VMInv'
  BY VMInvStep
<1>3. VMInv => OutcomeIsEarned
  BY DEF VMInv, OutcomeIsEarned, Outcome, WritesCommitted, AllCovered, Limited,
     WithinLimit
<1>4. VMInv => VMTypeOK /\ ContractsHaveAccounts /\ OnlySuccessfulCallsPersist
  BY DEF VMInv, IInv, ContractsHaveAccounts
<1>5. QED
  BY <1>1, <1>2, <1>3, <1>4, PTL DEF VMSpec

=============================================================================
