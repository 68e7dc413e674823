------------------------------- MODULE Wallet -------------------------------
(***************************************************************************)
(* The programs that make transactions, against the node that admits them: *)
(* the send, stake, unstake, create-contract and call-contract commands of *)
(* src/bin/prims-cli.rs and the faucet of src/bin/prims-explorer.rs, on    *)
(* top of TxAdmission.                                                     *)
(*                                                                         *)
(* Each asks the node for the account's nonce, signs a transaction with    *)
(* the next one and sends it.  Nothing is remembered between two commands, *)
(* and other commands with the same key run at the same time.  A call may  *)
(* fail while its request is under way: the transaction may arrive later,  *)
(* and the node may have queued it although the user was told otherwise.   *)
(***************************************************************************)
EXTENDS TxAdmission

CONSTANTS
    Wallets,     \* commands and faucet requests running side by side
    Faucets,     \* those of them that are faucet requests
    Owner,       \* the address a wallet has the key of
    Commands,    \* Commands[c]: what users ask of it, as [kind, to, amount, data]
    OtherTxs,    \* transactions other programs send or gossip
    MaxCommands, \* bound on the commands started during a behaviour
    Nobody       \* the caller of a request no wallet waits for

ASSUME WalletAssumption ==
    /\ Faucets \subseteq Wallets
    /\ Owner \in [Wallets -> Addresses]
    /\ Commands \in [Wallets -> SUBSET [kind : Kinds \ {"AnonToPublic"}, to : Targets,
                                       amount : Words, data : Payloads]]
    /\ \A c \in Faucets : \A cmd \in Commands[c] : cmd.kind = "Transfer"
    /\ OtherTxs \subseteq Transactions
    /\ Nobody \notin Wallets
    /\ MaxCommands \in Nat

VARIABLES
    wallet,  \* wallet[c]: [step, cmd, nonce]
    wire,    \* requests on their way to the node: [tx, by]
    caller,  \* caller[r]: the wallet that waits for request r
    started  \* number of commands started

walletVars == <<wallet, wire, caller, started>>
vars == <<admissionVars, walletVars>>

-----------------------------------------------------------------------------
\* nonce.saturating_add(1)
NextNonce(n) == IF n + 1 < WordSize THEN n + 1 ELSE n

Body(kind, to, amount, data) ==
    [kind |-> kind, to |-> to, amount |-> amount, data |-> data]

\* What a command makes of the request of its user, {} when it refuses it.
\* Addresses must be hexadecimal, code not empty, and a call must have a method,
\* gas and JSON parameters.  A contract goes to its derived address, a stake to
\* the wallet's own.
SendCommand(cmd) ==
    {Body(cmd.kind, to, cmd.amount, "bytes") : to \in {cmd.to} \ {"junk"}}

StakeCommand(cmd) == {Body("Stake", "key", cmd.amount, "bytes")}

UnstakeCommand(cmd) == {Body("Unstake", "key", 0, "bytes")}

CreateContractCommand(cmd) ==
    {Body("DeployContract", "key", 0, code) : code \in {cmd.data} \ {"none", "empty"}}

CallContractCommand(cmd) ==
    {Body("CallContract", to, 0, "call") :
        to \in IF cmd.data = "call" THEN {cmd.to} \ {"junk"} ELSE {}}

\* submit_faucet_transfer: a plain transfer without data
FaucetTransfer(cmd) == {Body("Transfer", cmd.to, cmd.amount, "none")}

Bodies(c, cmd) ==
    CASE c \in Faucets -> FaucetTransfer(cmd)
      [] c \notin Faucets /\ cmd.kind \in {"Transfer", "PublicToAnon"} -> SendCommand(cmd)
      [] c \notin Faucets /\ cmd.kind = "Stake" -> StakeCommand(cmd)
      [] c \notin Faucets /\ cmd.kind = "Unstake" -> UnstakeCommand(cmd)
      [] c \notin Faucets /\ cmd.kind = "DeployContract" -> CreateContractCommand(cmd)
      [] c \notin Faucets /\ cmd.kind = "CallContract" -> CallContractCommand(cmd)

\* The signed transaction
Built(c, body, nonce) ==
    [kind |-> body.kind, from |-> Owner[c], to |-> body.to, amount |-> body.amount,
     fee |-> FixedFee, nonce |-> NextNonce(nonce), signed |-> TRUE, data |-> body.data]

NoCommand == [step |-> "idle", cmd |-> {}, nonce |-> 0]

\* A command ends; one that was not accepted leaves nothing behind.
Step(c, step) ==
    wallet' = [wallet EXCEPT ![c] =
        IF step \in {"failed", "refused"} THEN NoCommand ELSE [@ EXCEPT !.step = step]]

Start(c, new) ==
    /\ started < MaxCommands
    /\ started' = started + 1
    /\ wallet[c].step \notin {"asking", "known", "sent"}
    /\ wallet' = [wallet EXCEPT ![c] = new]
    /\ UNCHANGED <<wire, caller, admissionVars>>

\* A user runs a command.
StartCommand(c, cmd) ==
    /\ c \notin Faucets
    /\ Start(c, [step |-> "asking", cmd |-> {cmd}, nonce |-> 0])

\* A request to the faucet for a transfer; the recipient is checked first.
StartFaucet(c, cmd) ==
    /\ c \in Faucets
    /\ Start(c, IF cmd.to = "key" THEN [step |-> "asking", cmd |-> {cmd}, nonce |-> 0]
                                  ELSE NoCommand)

\* The node answers get_balance.
LearnNonce(c) ==
    /\ wallet[c].step = "asking"
    /\ wallet' = [wallet EXCEPT ![c].step = "known",
                                ![c].nonce = GetNonce(account[Owner[c]])]
    /\ UNCHANGED <<wire, caller, started, admissionVars>>

LoadSenderContext(c) == c \notin Faucets /\ LearnNonce(c)

FaucetLearns(c) == c \in Faucets /\ LearnNonce(c)

Sends(c, body) ==
    /\ wire' = wire \cup {[tx |-> Built(c, body, wallet[c].nonce), by |-> c]}
    /\ Step(c, "sent")

\* The transaction is built, signed and sent, or the command is wrong.
SubmitTransaction(c) ==
    /\ wallet[c].step = "known"
    /\ c \notin Faucets
    /\ \E cmd \in wallet[c].cmd :
        \/ \E body \in Bodies(c, cmd) : Sends(c, body)
        \/ Bodies(c, cmd) = {} /\ Step(c, "failed") /\ UNCHANGED wire
    /\ UNCHANGED <<caller, started, admissionVars>>

FaucetSubmits(c) ==
    /\ wallet[c].step = "known"
    /\ c \in Faucets
    /\ \E cmd \in wallet[c].cmd : \E body \in Bodies(c, cmd) : Sends(c, body)
    /\ UNCHANGED <<caller, started, admissionVars>>

\* A request of a wallet reaches the node.
Delivered(r, m) ==
    /\ Arrive(r, m.tx) \/ TurnAway(r, m.tx)
    /\ caller' = [caller EXCEPT ![r] = m.by]
    /\ wire' = wire \ {m}
    /\ UNCHANGED <<wallet, started>>

\* Mutant: an error response ends a command like a result.
AnswerAsResult(c, label) == Step(c, "accepted")

\* rpc_call: a result or an error
Answer(c, label) == Step(c, label)

\* rpc_call of the faucet, whose page shows success or the error
FaucetAnswer(c, label) == Step(c, label)

\* The response of the node reaches the wallet that waits for it.
Answered(r) ==
    /\ Return(r)
    /\ CASE caller[r] = Nobody -> UNCHANGED wallet
         [] caller[r] \in Faucets -> FaucetAnswer(caller[r], Of(r).at)
         [] caller[r] \in Wallets \ Faucets -> Answer(caller[r], Of(r).at)
    /\ caller' = [caller EXCEPT ![r] = Nobody]
    /\ UNCHANGED <<wire, started>>

\* The connection fails.  A request on its way may be lost or still arrive; one
\* the node works on goes on.
Fail(c) ==
    /\ wallet[c].step \in {"asking", "sent"}
    /\ Step(c, "failed")
    /\ \E kept \in SUBSET {[m EXCEPT !.by = Nobody] : m \in {w \in wire : w.by = c}} :
            wire' = {m \in wire : m.by # c} \cup kept
    /\ caller' = [r \in Requests |-> IF caller[r] = c THEN Nobody ELSE caller[r]]
    /\ UNCHANGED <<started, admissionVars>>

\* The node drops a request whose connection is gone.
Dropped(r) ==
    /\ caller[r] = Nobody
    /\ Drop(r)
    /\ UNCHANGED walletVars

\* The steps of the node that no wallet sees, and those of other programs.
NodeStep ==
    /\ \/ \E r \in Requests :
            \/ \E t \in OtherTxs : Arrive(r, t)
            \/ Reject(r) \/ Admit(r) \/ CallFails(r) \/ Enqueue(r) \/ Reply(r)
       \/ \E t \in OtherTxs : GossipTransaction(t)
       \/ \E a \in Addresses, acc \in Accounts : UpdateAccount(a, acc)
    /\ UNCHANGED walletVars

-----------------------------------------------------------------------------
Init ==
    /\ AdmissionInit
    /\ wallet = [c \in Wallets |-> NoCommand]
    /\ wire = {}
    /\ caller = [r \in Requests |-> Nobody]
    /\ started = 0

Next ==
    \/ \E c \in Wallets :
        \/ \E cmd \in Commands[c] : StartCommand(c, cmd) \/ StartFaucet(c, cmd)
        \/ LoadSenderContext(c) \/ SubmitTransaction(c)
        \/ FaucetLearns(c) \/ FaucetSubmits(c)
        \/ Fail(c)
    \/ \E r \in Requests :
        \/ \E m \in wire : Delivered(r, m)
        \/ Answered(r) \/ Dropped(r)
    \/ NodeStep

Spec == Init /\ [][Next]_vars

-----------------------------------------------------------------------------
\* A user who is told `accepted' has exactly the transaction of the command in
\* the mempool, with the nonce that was read for it, and a contract call has
\* run: through failed calls, answers to earlier requests and late arrivals.
AcceptedAreQueued ==
    \A c \in Wallets : wallet[c].step = "accepted" =>
        \E cmd \in wallet[c].cmd : \E body \in Bodies(c, cmd) :
            LET t == Built(c, body, wallet[c].nonce)
            IN  t \in queued /\ (t.kind = "CallContract" => t \in executed)

\* What a wallet sends fits what the node checks, although the nonce was read in
\* an earlier call and the account may have moved on.  No wallet leaves a hole in
\* the nonces of its account: whatever is admitted carries the nonce right after
\* that of the account it was checked against, so a late or repeated request is
\* refused once its nonce is used.  And what the node refuses after it loaded the
\* account, it refuses for what a wallet cannot know (the nonce, the balance), for
\* an amount of 0 or for a call to no address: their other checks agree.
WalletsMeetChecks ==
    \A r \in Requests : request[r] # {} /\ Of(r).tx \notin OtherTxs =>
        LET t == Of(r).tx
            seen == Of(r).seen
        IN  /\ At(r, {"admitted", "queued"}) => t.nonce = GetNonce(seen) + 1
            /\ At(r, {"loaded"}) /\ ~ChecksOk(t, seen) =>
                   \/ t.nonce <= GetNonce(seen)
                   \/ t.amount + t.fee > Balance(seen)
                   \/ t.amount = 0 /\ t.kind \in {"Transfer", "PublicToAnon", "Stake"}
                   \/ t.to = "none"

=============================================================================
