---------------------------- MODULE TxAdmission ----------------------------
(***************************************************************************)
(* How transactions get into the mempool: send_transaction of              *)
(* src/api/mod.rs with the checks of src/blockchain/validation.rs, and the *)
(* gossip branch of the event loop of src/main.rs, which checks nothing.   *)
(*                                                                         *)
(* Requests are served concurrently.  A request reads the sender's account *)
(* once and checks against that copy; a CallContract is executed on the    *)
(* spot, before the transaction is queued; the two awaits on the mempool   *)
(* come last.  Accounts are written by whatever else uses the storage.     *)
(*                                                                         *)
(* A transaction is a record [kind, from, to, amount, fee, nonce, data,    *)
(* signed].  Of its `to' and `data' only what the checks look at is kept.  *)
(***************************************************************************)
EXTENDS Integers, FiniteSets

CONSTANTS
    Requests,    \* RPC requests in progress
    Addresses,   \* senders
    WordSize,    \* the 2^64 of u64
    FixedFee,    \* FIXED_TRANSACTION_FEE
    Balances,    \* balances the storage may hold
    MaxQueued    \* bound on the transactions queued during a behaviour

ASSUME TxAdmissionAssumption ==
    /\ WordSize \in Nat \ {0}
    /\ FixedFee \in 1 .. (WordSize - 1)
    /\ Balances \subseteq 0 .. (WordSize - 1)
    /\ MaxQueued \in Nat

Words == 0 .. (WordSize - 1)

Accounts == [balance : Balances, nonce : Words]

\* TransactionType
Kinds == {"Transfer", "Stake", "Unstake", "PublicToAnon", "AnonToPublic",
          "DeployContract", "CallContract"}

\* No address, a public key or a derived address, text that is not hexadecimal
Targets == {"none", "key", "junk"}

\* No data, empty data, some bytes, a contract call, one without gas or method,
\* and more than the size limit
Payloads == {"none", "empty", "bytes", "call", "gasless call", "huge"}

Transactions == [kind : Kinds, from : Addresses, to : Targets, amount : Words,
                 fee : Words, nonce : Words, data : Payloads, signed : BOOLEAN]

VARIABLES
    account,   \* account[a]: the stored account of a, {} when it has none
    request,   \* request[r]: [at, tx, seen] of request r, {} when it is free;
               \* seen is the sender's account it loaded
    executed,  \* history: transactions whose contract call has run
    queued     \* history: transactions added to the mempool

admissionVars == <<account, request, executed, queued>>

-----------------------------------------------------------------------------
\* sender_account...unwrap_or(0)
Balance(acc) == IF acc = {} THEN 0 ELSE (CHOOSE a \in acc : TRUE).balance

\* get_balance: an account that is not found has nonce 0.
GetNonce(acc) == IF acc = {} THEN 0 ELSE (CHOOSE a \in acc : TRUE).nonce

\* Mutant: a nonce that was used is accepted again.
NonceOkRepeats(t, acc) == \A a \in acc : t.nonce >= a.nonce

\* validate_transaction_nonce
NonceOk(t, acc) == \A a \in acc : t.nonce > a.nonce

\* Mutant: wrapping instead of checked addition.
RequiredWraps(t) == (t.amount + t.fee) % WordSize

\* checked_add(amount, fee)
Required(t) == t.amount + t.fee

\* validate_transaction_balance
BalanceOk(t, acc) ==
    /\ t.amount > 0
    /\ t.fee = FixedFee
    /\ Required(t) < WordSize
    /\ Balance(acc) >= Required(t)

\* The fee check of DeployContract, CallContract and Unstake.
FeeOk(t, acc) == t.fee = FixedFee /\ Balance(acc) >= t.fee

\* The other checks of a DeployContract: code, no amount, a target.
DeployOk(t) == t.data \notin {"none", "empty"} /\ t.amount = 0 /\ t.to # "none"

\* Those of a CallContract: no amount, a target, and a payload that names a
\* method and has gas.
CallOk(t) == t.amount = 0 /\ t.to # "none" /\ t.data = "call"

\* validate_transaction_size, the length of the sender's key, verify_transaction
WellFormed(t) == t.data # "huge" /\ t.signed

ChecksOk(t, acc) ==
    /\ NonceOk(t, acc)
    /\ CASE t.kind \in {"Transfer", "Stake", "PublicToAnon", "AnonToPublic"} ->
                BalanceOk(t, acc)
         [] t.kind = "DeployContract" -> FeeOk(t, acc) /\ DeployOk(t)
         [] t.kind = "CallContract" -> FeeOk(t, acc) /\ CallOk(t)
         [] t.kind = "Unstake" -> FeeOk(t, acc)

-----------------------------------------------------------------------------
At(r, labels) == request[r] # {} /\ \A q \in request[r] : q.at \in labels

Of(r) == CHOOSE q \in request[r] : TRUE

MoveTo(r, label) == request' = [request EXCEPT ![r] = {[q EXCEPT !.at = label] : q \in @}]

\* The handler has its result; what it loaded is gone.
ResultIs(r, label) ==
    request' = [request EXCEPT ![r] = {[q EXCEPT !.at = label, !.seen = {}] : q \in @}]

Begin(r, label, t, acc) ==
    /\ request[r] = {}
    /\ request' = [request EXCEPT ![r] = {[at |-> label, tx |-> t, seen |-> acc]}]
    /\ UNCHANGED <<account, executed, queued>>

\* send_transaction up to get_account
Arrive(r, t) ==
    IF WellFormed(t) THEN Begin(r, "loaded", t, account[t.from])
                     ELSE Begin(r, "refused", t, {})

\* check_rate_limit refuses the request, or the storage cannot be read.
TurnAway(r, t) == Begin(r, "refused", t, {})

Reject(r) ==
    /\ At(r, {"loaded"})
    /\ ~ChecksOk(Of(r).tx, Of(r).seen)
    /\ ResultIs(r, "refused")
    /\ UNCHANGED <<account, executed, queued>>

\* All checks pass; a CallContract runs now, to completion.
Admit(r) ==
    LET t == Of(r).tx
    IN  /\ At(r, {"loaded"})
        /\ ChecksOk(t, Of(r).seen)
        /\ executed' = IF t.kind = "CallContract" THEN executed \cup {t} ELSE executed
        /\ MoveTo(r, "admitted")
        /\ UNCHANGED <<account, queued>>

\* execute_contract_call fails and the request with it.
CallFails(r) ==
    /\ At(r, {"loaded"})
    /\ ChecksOk(Of(r).tx, Of(r).seen)
    /\ Of(r).tx.kind = "CallContract"
    /\ ResultIs(r, "refused")
    /\ UNCHANGED <<account, executed, queued>>

\* A transaction enters the mempool, once the mempool has room for it.
Queue(t) ==
    /\ Cardinality(queued \cup {t}) <= MaxQueued
    /\ queued' = queued \cup {t}

\* add_transaction_async(..).await
Enqueue(r) ==
    /\ At(r, {"admitted"})
    /\ Queue(Of(r).tx)
    /\ MoveTo(r, "queued")
    /\ UNCHANGED <<account, executed>>

\* len_async().await, then the response
Reply(r) ==
    /\ At(r, {"queued"})
    /\ ResultIs(r, "accepted")
    /\ UNCHANGED <<account, executed, queued>>

\* The response goes out, or the future is dropped at one of the awaits.
Ends(r, labels) ==
    /\ At(r, labels)
    /\ request' = [request EXCEPT ![r] = {}]
    /\ UNCHANGED <<account, executed, queued>>

Return(r) == Ends(r, {"accepted", "refused"})

Drop(r) == Ends(r, {"admitted", "queued", "accepted", "refused"})

\* Message::NewTransaction from gossip: any transaction that deserializes is
\* queued, without the checks above.
GossipTransaction(t) ==
    /\ Queue(t)
    /\ UNCHANGED <<account, request, executed>>

\* update_account by another user of the storage.  Nonces only grow.
UpdateAccount(a, acc) ==
    /\ GetNonce(account[a]) <= acc.nonce
    /\ account' = [account EXCEPT ![a] = {acc}]
    /\ UNCHANGED <<request, executed, queued>>

AdmissionInit ==
    /\ account = [a \in Addresses |-> {}]
    /\ request = [r \in Requests |-> {}]
    /\ executed = {}
    /\ queued = {}

-----------------------------------------------------------------------------
\* What a request lets through was affordable when its sender's account was
\* read: amount and fee together, computed without wrapping around, did not
\* exceed the balance, and an account that does not exist can afford nothing.
AdmittedAffordable ==
    \A r \in Requests : At(r, {"admitted", "queued"}) =>
        \E acc \in Of(r).seen :
            \/ acc.balance >= Of(r).tx.amount + Of(r).tx.fee
            \/ Of(r).tx.kind = "Unstake" /\ acc.balance >= Of(r).tx.fee

=============================================================================
