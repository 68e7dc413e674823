---------------------------- MODULE WalletProofs ----------------------------
(***************************************************************************)
(* Proofs about TxAdmission and Wallet, for any number of requests,        *)
(* wallets, addresses and commands.                                        *)
(***************************************************************************)
EXTENDS Wallet, TLAPS

\* What a stored account or a loaded copy can be: nothing or one account.
Stored == {{}} \cup {{a} : a \in Accounts}

Labels == {"loaded", "admitted", "queued", "accepted", "refused"}

RequestRecords == [at : Labels, tx : Transactions, seen : Stored]

RequestTypeOK(r) ==
    /\ request[r] \subseteq RequestRecords
    /\ \A p, q \in request[r] : p = q

WalletTypeOK(c) ==
    wallet[c] \in [step : {"idle", "asking", "known", "sent", "accepted"},
                  cmd : SUBSET Commands[c], nonce : Words]

TypeInv ==
    /\ account \in [Addresses -> Stored]
    /\ request = [r \in Requests |-> request[r]]
    /\ \A r \in Requests : RequestTypeOK(r)
    /\ wallet = [c \in Wallets |-> wallet[c]]
    /\ \A c \in Wallets : WalletTypeOK(c)
    /\ wire \subseteq [tx : Transactions, by : Wallets \cup {Nobody}]
    /\ caller \in [Requests -> Wallets \cup {Nobody}]

\* The shape of what a wallet sends.
FromWallet(t) ==
    /\ t.fee = FixedFee
    /\ t.kind # "AnonToPublic"
    /\ t.kind \in {"Unstake", "DeployContract", "CallContract"} => t.amount = 0
    /\ t.kind = "DeployContract" => t.data \notin {"none", "empty"} /\ t.to = "key"
    /\ t.kind = "CallContract" => t.data = "call"

\* How far a request has come tells what was done for it.
Progress(q) ==
    /\ q.at \in {"admitted", "queued", "accepted"} /\ q.tx.kind = "CallContract" =>
           q.tx \in executed
    /\ q.at \in {"queued", "accepted"} => q.tx \in queued
    /\ q.at \in {"admitted", "queued"} => ChecksOk(q.tx, q.seen)

\* The nonce of a wallet's transaction is at most one ahead of the account the
\* node checks it against: it was read earlier, and nonces only grow.
NotAhead(q) ==
    q.tx \notin OtherTxs =>
        /\ FromWallet(q.tx)
        /\ q.at \in {"loaded", "admitted", "queued"} => q.tx.nonce <= GetNonce(q.seen) + 1

NodeInv == \A r \in Requests : \A q \in request[r] : Progress(q) /\ NotAhead(q)

NonceInv ==
    /\ \A c \in Wallets : wallet[c].nonce <= GetNonce(account[Owner[c]])
    /\ \A m \in wire : FromWallet(m.tx) /\ m.tx.nonce <= GetNonce(account[m.tx.from]) + 1

\* t is the transaction that wallet c waits for an answer to.
Awaited(c, t) ==
    /\ wallet[c].step = "sent"
    /\ \E cmd \in wallet[c].cmd : \E body \in Bodies(c, cmd) :
            t = Built(c, body, wallet[c].nonce)

CallerAwaits(r) ==
    caller[r] # Nobody => request[r] # {} /\ \A q \in request[r] : Awaited(caller[r], q.tx)

\* A wallet waits for one request at most, on its way or at the node.
OneOutstanding ==
    /\ \A m \in wire : m.by # Nobody => Awaited(m.by, m.tx)
    /\ \A r \in Requests : CallerAwaits(r)
    /\ \A m, n \in wire : m.by = n.by /\ m.by # Nobody => m = n
    /\ \A r, s \in Requests : caller[r] = caller[s] /\ caller[r] # Nobody => r = s
    /\ \A m \in wire, r \in Requests : m.by # Nobody => m.by # caller[r]

IInv == TypeInv /\ NodeInv /\ NonceInv /\ OneOutstanding /\ AcceptedAreQueued

-----------------------------------------------------------------------------
\* The copy CHOOSE takes out of a stored account is the account.
LEMMA StoredFacts ==
    ASSUME NEW acc \in Stored
    PROVE  /\ GetNonce(acc) \in Words
           /\ Balance(acc) \in Words
           /\ acc # {} => \E a \in acc : /\ acc = {a}
                                         /\ a \in Accounts
                                         /\ GetNonce(acc) = a.nonce
                                         /\ Balance(acc) = a.balance
           /\ acc = {} => GetNonce(acc) = 0 /\ Balance(acc) = 0
<1>1. CASE acc = {}
  BY <1>1, TxAdmissionAssumption DEF GetNonce, Balance, Words
<1>2. CASE acc # {}
  <2>1. PICK a \in Accounts : acc = {a}
    BY <1>2 DEF Stored
  <2>2. (CHOOSE x \in acc : TRUE) = a
    BY <2>1
  <2>3. a.nonce \in Words /\ a.balance \in Words
    BY TxAdmissionAssumption DEF Accounts, Words
  <2>4. GetNonce(acc) = a.nonce /\ Balance(acc) = a.balance
    BY <1>2, <2>2 DEF GetNonce, Balance
  <2>5. QED
    BY <1>2, <2>1, <2>3, <2>4
<1>3. QED
  BY <1>1, <1>2

LEMMA NextNonceFacts ==
    ASSUME NEW n \in Words
    PROVE  NextNonce(n) \in Words /\ NextNonce(n) <= n + 1
  BY TxAdmissionAssumption DEF Words, NextNonce

\* What the checks have in common: the nonce, the fee and who can pay.
LEMMA ChecksFacts ==
    ASSUME NEW t \in Transactions, NEW acc, ChecksOk(t, acc)
    PROVE  /\ NonceOk(t, acc)
           /\ t.fee = FixedFee
           /\ \/ Balance(acc) >= t.amount + t.fee
              \/ t.kind = "Unstake" /\ Balance(acc) >= t.fee
           /\ Balance(acc) \in Nat => Balance(acc) > 0
<1>1. t.kind \in Kinds /\ t.amount \in Nat /\ t.fee \in Nat
  BY DEF Transactions, Words
<1>2. NonceOk(t, acc)
  BY DEF ChecksOk
<1>3. CASE t.kind \in {"Transfer", "Stake", "PublicToAnon", "AnonToPublic"}
  <2>1. BalanceOk(t, acc)
    BY <1>3 DEF ChecksOk
  <2>2. QED
    BY <1>1, <1>2, <2>1, TxAdmissionAssumption DEF BalanceOk, Required
<1>4. CASE t.kind \in {"DeployContract", "CallContract"}
  <2>1. FeeOk(t, acc) /\ t.amount = 0
    BY <1>4 DEF ChecksOk, DeployOk, CallOk
  <2>2. QED
    BY <1>1, <1>2, <2>1, TxAdmissionAssumption DEF FeeOk
<1>5. CASE t.kind = "Unstake"
  <2>1. FeeOk(t, acc)
    BY <1>5 DEF ChecksOk
  <2>2. QED
    BY <1>1, <1>2, <1>5, <2>1, TxAdmissionAssumption DEF FeeOk
<1>6. QED
  BY <1>1, <1>3, <1>4, <1>5 DEF Kinds

\* The request that Of takes out.
LEMMA OfFacts ==
    ASSUME TypeInv, NEW r \in Requests, request[r] # {}
    PROVE  /\ Of(r) \in request[r]
           /\ request[r] = {Of(r)}
           /\ Of(r) \in RequestRecords
<1>1. Of(r) \in request[r]
  BY DEF Of
<1>2. QED
  BY <1>1 DEF TypeInv, RequestTypeOK

\* What a wallet builds is a transaction its node knows.
LEMMA BodiesTyped ==
    ASSUME NEW c \in Wallets, NEW cmd \in Commands[c], NEW body \in Bodies(c, cmd),
           NEW n \in Words
    PROVE  Built(c, body, n) \in Transactions /\ FromWallet(Built(c, body, n))
<1> DEFINE t == Built(c, body, n)
<1>1. /\ cmd \in [kind : Kinds \ {"AnonToPublic"}, to : Targets, amount : Words, data : Payloads]
      /\ c \in Faucets => cmd.kind = "Transfer"
      /\ Owner[c] \in Addresses
      /\ 0 \in Words
  BY WalletAssumption, TxAdmissionAssumption DEF Words
<1>2. /\ body.kind \in Kinds \ {"AnonToPublic"} /\ body.to \in Targets
      /\ body.amount \in Words /\ body.data \in Payloads
      /\ body.kind \in {"Unstake", "DeployContract", "CallContract"} => body.amount = 0
      /\ body.kind = "DeployContract" => body.data \notin {"none", "empty"} /\ body.to = "key"
      /\ body.kind = "CallContract" => body.data = "call"
  <2>1. CASE c \in Faucets
    <3>1. Bodies(c, cmd) = FaucetTransfer(cmd)
      BY <2>1 DEF Bodies
    <3>2. body = Body("Transfer", cmd.to, cmd.amount, "none")
      BY <3>1 DEF FaucetTransfer
    <3>3. QED
      BY <1>1, <2>1, <3>2 DEF Body, Kinds, Targets, Payloads
  <2>2. CASE c \notin Faucets /\ cmd.kind \in {"Transfer", "PublicToAnon"}
    <3>1. Bodies(c, cmd) = SendCommand(cmd)
      BY <2>2 DEF Bodies
    <3>2. body = Body(cmd.kind, cmd.to, cmd.amount, "bytes")
      BY <3>1 DEF SendCommand
    <3>3. QED
      BY <1>1, <2>2, <3>2 DEF Body, Kinds, Targets, Payloads
  <2>3. CASE c \notin Faucets /\ cmd.kind = "Stake"
    <3>1. Bodies(c, cmd) = StakeCommand(cmd)
      BY <2>3 DEF Bodies
    <3>2. body = Body("Stake", "key", cmd.amount, "bytes")
      BY <3>1 DEF StakeCommand
    <3>3. QED
      BY <1>1, <2>3, <3>2 DEF Body, Kinds, Targets, Payloads
  <2>4. CASE c \notin Faucets /\ cmd.kind = "Unstake"
    <3>1. Bodies(c, cmd) = UnstakeCommand(cmd)
      BY <2>4 DEF Bodies
    <3>2. body = Body("Unstake", "key", 0, "bytes")
      BY <3>1 DEF UnstakeCommand
    <3>3. QED
      BY <1>1, <2>4, <3>2 DEF Body, Kinds, Targets, Payloads
  <2>5. CASE c \notin Faucets /\ cmd.kind = "DeployContract"
    <3>1. Bodies(c, cmd) = CreateContractCommand(cmd)
      BY <2>5 DEF Bodies
    <3>2. /\ body = Body("DeployContract", "key", 0, cmd.data)
          /\ cmd.data \notin {"none", "empty"}
      BY <3>1 DEF CreateContractCommand
    <3>3. QED
      BY <1>1, <2>5, <3>2 DEF Body, Kinds, Targets, Payloads
  <2>6. CASE c \notin Faucets /\ cmd.kind = "CallContract"
    <3>1. Bodies(c, cmd) = CallContractCommand(cmd)
      BY <2>6 DEF Bodies
    <3>2. body = Body("CallContract", cmd.to, 0, "call")
      BY <3>1 DEF CallContractCommand
    <3>3. QED
      BY <1>1, <2>6, <3>2 DEF Body, Kinds, Targets, Payloads
  <2>7. QED
    BY <1>1, <2>1, <2>2, <2>3, <2>4, <2>5, <2>6 DEF Kinds
<1>3. NextNonce(n) \in Words
  BY NextNonceFacts
<1>4. FixedFee \in Words
  BY TxAdmissionAssumption DEF Words
<1>5. QED
  BY <1>1, <1>2, <1>3, <1>4 DEF Built, Transactions, FromWallet

-----------------------------------------------------------------------------
LEMMA TypeInit == Init => TypeInv
<1>1. 0 \in Words
  BY TxAdmissionAssumption DEF Words
<1>2. QED
  BY <1>1 DEF Init, AdmissionInit, TypeInv, RequestTypeOK, WalletTypeOK, NoCommand, Stored

\* The request that a new one becomes
LEMMA BeginTyped ==
    ASSUME TypeInv, NEW r \in Requests, NEW label \in Labels, NEW t \in Transactions,
           NEW acc \in Stored, Begin(r, label, t, acc)
    PROVE  /\ request' = [s \in Requests |-> request'[s]]
           /\ \A s \in Requests : RequestTypeOK(s)'
  BY DEF TypeInv, RequestTypeOK, RequestRecords, Begin

LEMMA ArriveTyped ==
    ASSUME TypeInv, NEW r \in Requests, NEW t \in Transactions,
           Arrive(r, t) \/ TurnAway(r, t)
    PROVE  /\ request' = [s \in Requests |-> request'[s]]
           /\ \A s \in Requests : RequestTypeOK(s)'
           /\ UNCHANGED <<account, executed, queued>>
<1>1. account[t.from] \in Stored /\ {} \in Stored
  BY DEF TypeInv, Transactions, Stored
<1>2. PICK label \in Labels, acc \in Stored : Begin(r, label, t, acc)
  BY <1>1 DEF Arrive, TurnAway, Labels
<1>3. QED
  BY <1>2, BeginTyped DEF Begin

LEMMA Relabelled ==
    ASSUME NEW q \in RequestRecords, NEW label \in Labels
    PROVE  /\ [q EXCEPT !.at = label] = [at |-> label, tx |-> q.tx, seen |-> q.seen]
           /\ [q EXCEPT !.at = label] \in RequestRecords
           /\ [q EXCEPT !.at = label, !.seen = {}] = [at |-> label, tx |-> q.tx, seen |-> {}]
           /\ [q EXCEPT !.at = label, !.seen = {}] \in RequestRecords
<1>1. {} \in Stored
  BY DEF Stored
<1>2. [q EXCEPT !.at = label] = [at |-> label, tx |-> q.tx, seen |-> q.seen]
  BY DEF RequestRecords
<1> DEFINE p == [at |-> label, tx |-> q.tx, seen |-> q.seen]
<1>3. [q EXCEPT !.at = label, !.seen = {}] = [at |-> label, tx |-> q.tx, seen |-> {}]
  <2>1. [p EXCEPT !.seen = {}] = [at |-> label, tx |-> q.tx, seen |-> {}]
    OBVIOUS
  <2>2. [q EXCEPT !.at = label, !.seen = {}] = [p EXCEPT !.seen = {}]
    BY <1>2
  <2>3. QED
    BY <2>1, <2>2
<1>4. QED
  BY <1>1, <1>2, <1>3 DEF RequestRecords

\* The effect of MoveTo and ResultIs
LEMMA MoveFacts ==
    ASSUME TypeInv, NEW r \in Requests, NEW label \in Labels,
           MoveTo(r, label) \/ ResultIs(r, label)
    PROVE  /\ request' = [s \in Requests |-> request'[s]]
           /\ \A s \in Requests \ {r} : request'[s] = request[s]
           /\ request'[r] =
                  {[at |-> label, tx |-> q.tx,
                    seen |-> IF MoveTo(r, label) THEN q.seen ELSE {}] : q \in request[r]}
<1> DEFINE New(q) == [at |-> label, tx |-> q.tx,
                      seen |-> IF MoveTo(r, label) THEN q.seen ELSE {}]
<1>1. CASE MoveTo(r, label)
  <2>1. /\ request' = [s \in Requests |-> request'[s]]
        /\ request'[r] = {[q EXCEPT !.at = label] : q \in request[r]}
        /\ \A s \in Requests \ {r} : request'[s] = request[s]
    BY <1>1 DEF TypeInv, MoveTo
  <2>2. \A q \in request[r] : [q EXCEPT !.at = label] = New(q)
    BY <1>1, Relabelled DEF TypeInv, RequestTypeOK
  <2> HIDE DEF New
  <2>3. request'[r] = {New(q) : q \in request[r]}
    BY <2>1, <2>2
  <2>4. QED
    BY <2>1, <2>3 DEF New
<1>2. CASE ~MoveTo(r, label)
  <2> DEFINE Old(q) == [q EXCEPT !.at = label, !.seen = {}]
  <2>1. /\ request' = [s \in Requests |-> request'[s]]
        /\ request'[r] = {Old(q) : q \in request[r]}
        /\ \A s \in Requests \ {r} : request'[s] = request[s]
    BY <1>2 DEF TypeInv, ResultIs
  <2>2. \A q \in request[r] : Old(q) = New(q)
    BY <1>2, Relabelled DEF TypeInv, RequestTypeOK
  <2> HIDE DEF New, Old
  <2>3. request'[r] = {New(q) : q \in request[r]}
    BY <2>1, <2>2
  <2>4. QED
    BY <2>1, <2>3 DEF New
<1>3. QED
  BY <1>1, <1>2

LEMMA MoveTyped ==
    ASSUME TypeInv, NEW r \in Requests, NEW label \in Labels,
           MoveTo(r, label) \/ ResultIs(r, label)
    PROVE  /\ request' = [s \in Requests |-> request'[s]]
           /\ \A s \in Requests : RequestTypeOK(s)'
<1> DEFINE New(q) == [at |-> label, tx |-> q.tx,
                      seen |-> IF MoveTo(r, label) THEN q.seen ELSE {}]
<1>1. /\ request' = [s \in Requests |-> request'[s]]
      /\ \A s \in Requests \ {r} : request'[s] = request[s]
      /\ request'[r] = {New(q) : q \in request[r]}
  BY MoveFacts
<1>2. {} \in Stored
  BY DEF Stored
<1>3. \A q \in request[r] : New(q) \in RequestRecords
  BY <1>2 DEF TypeInv, RequestTypeOK, RequestRecords
<1>4. RequestTypeOK(r)'
  <2> HIDE DEF New
  <2>1. QED
    BY <1>1, <1>3 DEF TypeInv, RequestTypeOK
<1>5. QED
  BY <1>1, <1>4 DEF TypeInv, RequestTypeOK

LEMMA EndsTyped ==
    ASSUME TypeInv, NEW r \in Requests, NEW labels, Ends(r, labels)
    PROVE  /\ request' = [s \in Requests |-> request'[s]]
           /\ \A s \in Requests : RequestTypeOK(s)'
  BY DEF TypeInv, RequestTypeOK, Ends

LEMMA StepTyped ==
    ASSUME TypeInv, NEW c \in Wallets,
           NEW step \in {"sent", "accepted", "refused", "failed"}, Step(c, step)
    PROVE  /\ wallet' = [d \in Wallets |-> wallet'[d]]
           /\ \A d \in Wallets : WalletTypeOK(d)'
<1>1. 0 \in Words
  BY TxAdmissionAssumption DEF Words
<1>2. CASE step \in {"failed", "refused"}
  BY <1>1, <1>2 DEF TypeInv, WalletTypeOK, Step, NoCommand
<1>3. CASE step \notin {"failed", "refused"}
  BY <1>3 DEF TypeInv, WalletTypeOK, Step
<1>4. QED
  BY <1>2, <1>3

LEMMA StartTyped ==
    ASSUME TypeInv, NEW c \in Wallets, NEW cmd \in Commands[c],
           StartCommand(c, cmd) \/ StartFaucet(c, cmd)
    PROVE  TypeInv'
<1>1. 0 \in Words
  BY TxAdmissionAssumption DEF Words
<1>2. PICK new : /\ Start(c, new)
                 /\ new \in {NoCommand, [step |-> "asking", cmd |-> {cmd}, nonce |-> 0]}
  BY DEF StartCommand, StartFaucet
<1>3. /\ wallet' = [d \in Wallets |-> wallet'[d]]
      /\ \A d \in Wallets : WalletTypeOK(d)'
  BY <1>1, <1>2 DEF TypeInv, WalletTypeOK, Start, NoCommand
<1>4. QED
  BY <1>2, <1>3 DEF TypeInv, RequestTypeOK, Start, admissionVars

LEMMA LearnTyped ==
    ASSUME TypeInv, NEW c \in Wallets, LearnNonce(c)
    PROVE  TypeInv'
<1>1. GetNonce(account[Owner[c]]) \in Words
  BY StoredFacts, WalletAssumption DEF TypeInv
<1>2. /\ wallet' = [d \in Wallets |-> wallet'[d]]
      /\ \A d \in Wallets : WalletTypeOK(d)'
  BY <1>1 DEF TypeInv, WalletTypeOK, LearnNonce
<1>3. QED
  BY <1>2 DEF TypeInv, RequestTypeOK, LearnNonce, admissionVars

LEMMA SendsTyped ==
    ASSUME TypeInv, NEW c \in Wallets, NEW cmd \in wallet[c].cmd,
           NEW body \in Bodies(c, cmd), Sends(c, body),
           UNCHANGED <<caller, started, admissionVars>>
    PROVE  TypeInv'
<1>1. /\ wallet' = [d \in Wallets |-> wallet'[d]]
      /\ \A d \in Wallets : WalletTypeOK(d)'
  BY StepTyped DEF Sends
<1>2. cmd \in Commands[c] /\ wallet[c].nonce \in Words
  BY DEF TypeInv, WalletTypeOK
<1>3. Built(c, body, wallet[c].nonce) \in Transactions
  BY <1>2, BodiesTyped
<1>4. wire' \subseteq [tx : Transactions, by : Wallets \cup {Nobody}]
  BY <1>3 DEF TypeInv, Sends
<1>5. QED
  BY <1>1, <1>4 DEF TypeInv, RequestTypeOK, admissionVars

\* The steps a request takes inside the node
RequestMoves(r) == Reject(r) \/ Admit(r) \/ CallFails(r) \/ Enqueue(r) \/ Reply(r)

LEMMA RequestMovesTyped ==
    ASSUME TypeInv, NEW r \in Requests, RequestMoves(r), UNCHANGED walletVars
    PROVE  TypeInv'
<1>1. PICK label \in Labels : MoveTo(r, label) \/ ResultIs(r, label)
  BY DEF RequestMoves, Reject, Admit, CallFails, Enqueue, Reply, Labels
<1>2. /\ request' = [s \in Requests |-> request'[s]]
      /\ \A s \in Requests : RequestTypeOK(s)'
  BY <1>1, MoveTyped
<1>3. account' = account
  BY DEF RequestMoves, Reject, Admit, CallFails, Enqueue, Reply
<1>4. QED
  BY <1>2, <1>3 DEF TypeInv, WalletTypeOK, walletVars

LEMMA NodeStepTyped ==
    ASSUME TypeInv, NodeStep
    PROVE  TypeInv'
<1> USE DEF TypeInv
<1>1. ASSUME NEW r \in Requests, NEW t \in OtherTxs, Arrive(r, t), UNCHANGED walletVars
      PROVE  TypeInv'
  <2>1. t \in Transactions
    BY <1>1, WalletAssumption
  <2>2. QED
    BY <1>1, <2>1, ArriveTyped DEF WalletTypeOK, walletVars
<1>2. ASSUME NEW r \in Requests, RequestMoves(r), UNCHANGED walletVars
      PROVE  TypeInv'
  BY <1>2, RequestMovesTyped
<1>3. ASSUME NEW t \in OtherTxs, GossipTransaction(t), UNCHANGED walletVars
      PROVE  TypeInv'
  BY <1>3 DEF GossipTransaction, RequestTypeOK, WalletTypeOK, walletVars
<1>4. ASSUME NEW a \in Addresses, NEW acc \in Accounts, UpdateAccount(a, acc),
             UNCHANGED walletVars
      PROVE  TypeInv'
  <2>1. {acc} \in Stored
    BY <1>4 DEF Stored
  <2>2. account' \in [Addresses -> Stored]
    BY <1>4, <2>1 DEF UpdateAccount
  <2>3. QED
    BY <1>4, <2>2 DEF UpdateAccount, RequestTypeOK, WalletTypeOK, walletVars
<1>5. QED
  BY <1>1, <1>2, <1>3, <1>4 DEF NodeStep, RequestMoves

LEMMA AnsweredTyped ==
    ASSUME TypeInv, NEW r \in Requests, Answered(r)
    PROVE  TypeInv'
<1>1. Ends(r, {"accepted", "refused"})
  BY DEF Answered, Return
<1>2. Of(r).at \in {"accepted", "refused"}
  BY <1>1, OfFacts DEF Ends, At
<1>3. /\ wallet' = [d \in Wallets |-> wallet'[d]]
      /\ \A d \in Wallets : WalletTypeOK(d)'
  <2>1. CASE caller[r] = Nobody
    BY <2>1, WalletAssumption DEF Answered, TypeInv, WalletTypeOK
  <2>2. CASE caller[r] # Nobody
    <3>1. caller[r] \in Wallets
      BY <2>2 DEF TypeInv
    <3>2. Step(caller[r], Of(r).at)
      BY <2>2, <3>1, WalletAssumption DEF Answered, FaucetAnswer, Answer
    <3>3. QED
      BY <1>2, <3>1, <3>2, StepTyped
  <2>3. QED
    BY <2>1, <2>2
<1>4. caller' \in [Requests -> Wallets \cup {Nobody}]
  BY DEF TypeInv, Answered
<1>5. QED
  BY <1>1, <1>3, <1>4, EndsTyped DEF TypeInv, Answered, Ends

\* What a failed call leaves of the messages
LEMMA FailFacts ==
    ASSUME TypeInv, NEW c \in Wallets, Fail(c)
    PROVE  \A m \in wire' :
               \/ m \in wire /\ m.by # c
               \/ \E w \in wire : m = [tx |-> w.tx, by |-> Nobody]
<1> DEFINE Orphan(m) == [m EXCEPT !.by = Nobody]
<1>1. \A m \in wire : Orphan(m) = [tx |-> m.tx, by |-> Nobody]
  BY DEF TypeInv
<1>2. \E kept \in SUBSET {Orphan(m) : m \in {w \in wire : w.by = c}} :
          wire' = {m \in wire : m.by # c} \cup kept
  BY DEF Fail
<1> HIDE DEF Orphan
<1>3. QED
  BY <1>1, <1>2

LEMMA FailTyped ==
    ASSUME TypeInv, NEW c \in Wallets, Fail(c)
    PROVE  TypeInv'
<1>1. /\ wallet' = [d \in Wallets |-> wallet'[d]]
      /\ \A d \in Wallets : WalletTypeOK(d)'
  BY StepTyped DEF Fail
<1>2. caller' \in [Requests -> Wallets \cup {Nobody}]
  BY DEF TypeInv, Fail
<1>3. wire' \subseteq [tx : Transactions, by : Wallets \cup {Nobody}]
  BY FailFacts DEF TypeInv
<1>4. QED
  BY <1>1, <1>2, <1>3 DEF TypeInv, Fail, RequestTypeOK, admissionVars

LEMMA TypeStep ==
    ASSUME TypeInv, [Next]_vars
    PROVE  TypeInv'
<1>1. CASE UNCHANGED vars
  BY <1>1 DEF TypeInv, RequestTypeOK, WalletTypeOK, vars, admissionVars, walletVars
<1>2. ASSUME NEW c \in Wallets, NEW cmd \in Commands[c],
             StartCommand(c, cmd) \/ StartFaucet(c, cmd)
      PROVE  TypeInv'
  BY <1>2, StartTyped
<1>3. ASSUME NEW c \in Wallets, LoadSenderContext(c) \/ FaucetLearns(c)
      PROVE  TypeInv'
  BY <1>3, LearnTyped DEF LoadSenderContext, FaucetLearns
<1>4. ASSUME NEW c \in Wallets, SubmitTransaction(c) \/ FaucetSubmits(c)
      PROVE  TypeInv'
  <2>1. CASE \E cmd \in wallet[c].cmd : \E body \in Bodies(c, cmd) : Sends(c, body)
    BY <1>4, <2>1, SendsTyped DEF SubmitTransaction, FaucetSubmits
  <2>2. CASE Step(c, "failed") /\ UNCHANGED wire
    BY <1>4, <2>2, StepTyped
       DEF TypeInv, RequestTypeOK, SubmitTransaction, FaucetSubmits, admissionVars
  <2>3. QED
    BY <1>4, <2>1, <2>2 DEF SubmitTransaction, FaucetSubmits
<1>5. ASSUME NEW c \in Wallets, Fail(c)
      PROVE  TypeInv'
  BY <1>5, FailTyped
<1>6. ASSUME NEW r \in Requests, NEW m \in wire, Delivered(r, m)
      PROVE  TypeInv'
  <2>1. m.tx \in Transactions /\ m.by \in Wallets \cup {Nobody}
    BY DEF TypeInv
  <2>2. caller' \in [Requests -> Wallets \cup {Nobody}]
    BY <1>6, <2>1 DEF TypeInv, Delivered
  <2>3. /\ request' = [s \in Requests |-> request'[s]]
        /\ \A s \in Requests : RequestTypeOK(s)'
        /\ account' = account
    BY <1>6, <2>1, ArriveTyped DEF Delivered
  <2>4. QED
    BY <1>6, <2>2, <2>3 DEF TypeInv, WalletTypeOK, Delivered
<1>7. ASSUME NEW r \in Requests, Answered(r)
      PROVE  TypeInv'
  BY <1>7, AnsweredTyped
<1>8. ASSUME NEW r \in Requests, Dropped(r)
      PROVE  TypeInv'
  BY <1>8, EndsTyped DEF TypeInv, WalletTypeOK, Dropped, Drop, Ends, walletVars
<1>9. CASE NodeStep
  BY <1>9, NodeStepTyped
<1>10. QED
  BY <1>1, <1>2, <1>3, <1>4, <1>5, <1>6, <1>7, <1>8, <1>9 DEF Next

-----------------------------------------------------------------------------
RequestOk(q) == Progress(q) /\ NotAhead(q)

\* What was executed or queued stays so.
LEMMA ProgressKept ==
    ASSUME NEW q, RequestOk(q), executed \subseteq executed', queued \subseteq queued'
    PROVE  RequestOk(q)'
  BY DEF RequestOk, Progress, NotAhead

LEMMA BeginOk ==
    ASSUME TypeInv, NodeInv, NEW r \in Requests, NEW t \in Transactions,
           Arrive(r, t) \/ TurnAway(r, t),
           t \notin OtherTxs => FromWallet(t) /\ t.nonce <= GetNonce(account[t.from]) + 1
    PROVE  NodeInv'
<1>1. PICK label, acc :
          /\ label \in {"loaded", "refused"}
          /\ Begin(r, label, t, acc)
          /\ label = "loaded" => acc = account[t.from]
  BY DEF Arrive, TurnAway
<1> DEFINE new == [at |-> label, tx |-> t, seen |-> acc]
<1>2. RequestOk(new)'
  BY <1>1 DEF RequestOk, Progress, NotAhead
<1>3. \A s \in Requests : \A q \in request'[s] : q = new \/ q \in request[s]
  BY <1>1 DEF TypeInv, Begin
<1>4. executed' = executed /\ queued' = queued
  BY <1>1 DEF Begin
<1>5. \A s \in Requests : \A q \in request[s] : RequestOk(q)'
  BY <1>4, ProgressKept DEF NodeInv, RequestOk
<1> HIDE DEF new
<1>6. QED
  BY <1>2, <1>3, <1>5 DEF NodeInv, RequestOk

\* MoveTo and ResultIs on the one record of a request
LEMMA Moved ==
    ASSUME TypeInv, NEW r \in Requests, NEW label \in Labels, NEW q, request[r] = {q},
           MoveTo(r, label)
    PROVE  /\ request'[r] = {[at |-> label, tx |-> q.tx, seen |-> q.seen]}
           /\ \A s \in Requests \ {r} : request'[s] = request[s]
  BY MoveFacts

LEMMA Resulted ==
    ASSUME TypeInv, NEW r \in Requests, NEW label \in Labels, NEW q, request[r] = {q},
           ResultIs(r, label)
    PROVE  /\ request'[r] = {[at |-> label, tx |-> q.tx, seen |-> {}]}
           /\ \A s \in Requests \ {r} : request'[s] = request[s]
<1> DEFINE Old(p) == [p EXCEPT !.at = label, !.seen = {}]
<1>1. /\ request'[r] = {Old(p) : p \in request[r]}
      /\ \A s \in Requests \ {r} : request'[s] = request[s]
  BY DEF ResultIs, TypeInv
<1>2. q \in RequestRecords
  BY DEF TypeInv, RequestTypeOK
<1>3. Old(q) = [at |-> label, tx |-> q.tx, seen |-> {}]
  BY <1>2, Relabelled
<1> HIDE DEF Old
<1>4. QED
  BY <1>1, <1>3

LEMMA MoveOk ==
    ASSUME TypeInv, NodeInv, NEW r \in Requests, RequestMoves(r)
    PROVE  NodeInv'
<1>1. request[r] # {}
  BY DEF RequestMoves, Reject, Admit, CallFails, Enqueue, Reply, At
<1>2. PICK q : q \in request[r] /\ request[r] = {q} /\ q \in RequestRecords /\ Of(r) = q
  BY <1>1, OfFacts
<1>3. RequestOk(q)
  BY <1>2 DEF NodeInv, RequestOk
<1>4. executed \subseteq executed' /\ queued \subseteq queued'
  BY DEF RequestMoves, Reject, Admit, CallFails, Enqueue, Reply, Queue
<1>5. ASSUME NEW label, NEW seen, RequestOk([at |-> label, tx |-> q.tx, seen |-> seen])',
             request'[r] = {[at |-> label, tx |-> q.tx, seen |-> seen]},
             \A s \in Requests \ {r} : request'[s] = request[s]
      PROVE  NodeInv'
  <2> DEFINE new == [at |-> label, tx |-> q.tx, seen |-> seen]
  <2>1. \A s \in Requests : \A p \in request[s] : RequestOk(p)'
    BY <1>4, ProgressKept DEF NodeInv, RequestOk
  <2>2. RequestOk(new)' /\ request'[r] = {new}
    BY <1>5
  <2> HIDE DEF new
  <2>3. QED
    BY <1>5, <2>1, <2>2 DEF NodeInv, RequestOk
<1>6. CASE Reject(r) \/ CallFails(r)
  <2>1. RequestOk([at |-> "refused", tx |-> q.tx, seen |-> {}])'
    BY <1>3 DEF RequestOk, Progress, NotAhead
  <2>2. ResultIs(r, "refused")
    BY <1>6 DEF Reject, CallFails
  <2>3. "refused" \in Labels
    BY DEF Labels
  <2>4. QED
    BY <1>2, <1>5, <2>1, <2>2, <2>3, Resulted
<1>7. CASE Admit(r)
  <2>1. MoveTo(r, "admitted") /\ ChecksOk(q.tx, q.seen) /\ q.at = "loaded"
    BY <1>2, <1>7 DEF Admit, At
  <2>2. q.tx.kind = "CallContract" => q.tx \in executed'
    BY <1>2, <1>7 DEF Admit
  <2>3. RequestOk([at |-> "admitted", tx |-> q.tx, seen |-> q.seen])'
    BY <1>3, <2>1, <2>2 DEF RequestOk, Progress, NotAhead
  <2>4. "admitted" \in Labels
    BY DEF Labels
  <2>5. QED
    BY <1>2, <1>5, <2>1, <2>3, <2>4, Moved
<1>8. CASE Enqueue(r)
  <2>1. MoveTo(r, "queued") /\ q.at = "admitted" /\ q.tx \in queued'
    BY <1>2, <1>8 DEF Enqueue, At, Queue
  <2>2. RequestOk([at |-> "queued", tx |-> q.tx, seen |-> q.seen])'
    BY <1>3, <1>4, <2>1 DEF RequestOk, Progress, NotAhead
  <2>3. "queued" \in Labels
    BY DEF Labels
  <2>4. QED
    BY <1>2, <1>5, <2>1, <2>2, <2>3, Moved
<1>9. CASE Reply(r)
  <2>1. ResultIs(r, "accepted") /\ q.at = "queued"
    BY <1>2, <1>9 DEF Reply, At
  <2>2. RequestOk([at |-> "accepted", tx |-> q.tx, seen |-> {}])'
    BY <1>3, <1>4, <2>1 DEF RequestOk, Progress, NotAhead
  <2>3. "accepted" \in Labels
    BY DEF Labels
  <2>4. QED
    BY <1>2, <1>5, <2>1, <2>2, <2>3, Resulted
<1>10. QED
  BY <1>6, <1>7, <1>8, <1>9 DEF RequestMoves

\* A request that ends leaves the others as they were, and a step that touches no
\* request only adds to what was executed and queued.
LEMMA EndsOk ==
    ASSUME TypeInv, NodeInv,
           \A s \in Requests : request'[s] \subseteq request[s],
           executed \subseteq executed', queued \subseteq queued'
    PROVE  NodeInv'
<1>1. \A s \in Requests : \A q \in request[s] : RequestOk(q)'
  BY ProgressKept DEF NodeInv, RequestOk
<1>2. QED
  BY <1>1 DEF NodeInv, RequestOk

LEMMA NodeInvStep ==
    ASSUME TypeInv, NodeInv, NonceInv, [Next]_vars
    PROVE  NodeInv'
<1>1. CASE UNCHANGED admissionVars
  BY <1>1, EndsOk DEF admissionVars
<1>2. ASSUME NEW r \in Requests, NEW m \in wire, Delivered(r, m)
      PROVE  NodeInv'
  <2>1. /\ m.tx \in Transactions
        /\ FromWallet(m.tx) /\ m.tx.nonce <= GetNonce(account[m.tx.from]) + 1
    BY DEF TypeInv, NonceInv
  <2>2. QED
    BY <1>2, <2>1, BeginOk DEF Delivered
<1>3. ASSUME NEW r \in Requests, NEW labels, Ends(r, labels)
      PROVE  NodeInv'
  BY <1>3, EndsOk DEF Ends, TypeInv
<1>4. CASE NodeStep
  <2>1. ASSUME NEW r \in Requests, NEW t \in OtherTxs, Arrive(r, t)
        PROVE  NodeInv'
    <3>1. t \in Transactions
      BY WalletAssumption
    <3>2. QED
      BY <2>1, <3>1, BeginOk
  <2>2. ASSUME NEW t, GossipTransaction(t)
        PROVE  NodeInv'
    BY <2>2, EndsOk DEF GossipTransaction, Queue
  <2>3. ASSUME NEW a, NEW acc, UpdateAccount(a, acc)
        PROVE  NodeInv'
    BY <2>3, EndsOk DEF UpdateAccount
  <2>4. QED
    BY <1>4, <2>1, <2>2, <2>3, MoveOk DEF NodeStep, RequestMoves
<1>5. [Next]_vars =>
          \/ UNCHANGED admissionVars
          \/ \E r \in Requests : \E m \in wire : Delivered(r, m)
          \/ \E r \in Requests : \E labels : Ends(r, labels)
          \/ NodeStep
  BY DEF Next, vars, StartCommand, StartFaucet, Start, LoadSenderContext, FaucetLearns,
         LearnNonce, SubmitTransaction, FaucetSubmits, Fail, Answered, Return, Dropped, Drop
<1>6. QED
  BY <1>1, <1>2, <1>3, <1>4, <1>5

-----------------------------------------------------------------------------
LEMMA NoncesGrow ==
    ASSUME TypeInv, [Next]_vars, NEW a \in Addresses
    PROVE  /\ GetNonce(account[a]) \in Words /\ GetNonce(account'[a]) \in Words
           /\ GetNonce(account[a]) <= GetNonce(account'[a])
<1>1. GetNonce(account[a]) \in Words /\ GetNonce(account'[a]) \in Words
  <2>1. account[a] \in Stored /\ account'[a] \in Stored
    BY TypeStep DEF TypeInv
  <2>2. QED
    BY <2>1, StoredFacts
<1>2. CASE account' = account
  BY <1>1, <1>2 DEF Words
<1>3. ASSUME NEW b \in Addresses, NEW acc \in Accounts, UpdateAccount(b, acc)
      PROVE  GetNonce(account[a]) <= GetNonce(account'[a])
  <2>1. CASE a = b
    <3>1. account'[a] = {acc}
      BY <1>3, <2>1 DEF UpdateAccount, TypeInv
    <3>2. GetNonce({acc}) = acc.nonce
      BY DEF GetNonce
    <3>3. QED
      BY <1>3, <2>1, <3>1, <3>2 DEF UpdateAccount
  <2>2. CASE a # b
    BY <1>1, <1>3, <2>2 DEF UpdateAccount, TypeInv, Words
  <2>3. QED
    BY <2>1, <2>2
<1>4. account' = account \/ \E b \in Addresses, acc \in Accounts : UpdateAccount(b, acc)
  BY DEF Next, vars, admissionVars, StartCommand, StartFaucet, Start, LoadSenderContext,
         FaucetLearns, LearnNonce, SubmitTransaction, FaucetSubmits, Fail, Delivered, Arrive,
         TurnAway, Begin, Answered, Return, Dropped, Drop, Ends, NodeStep, Reject, Admit,
         CallFails, Enqueue, Reply, GossipTransaction
<1>5. QED
  BY <1>1, <1>2, <1>3, <1>4

\* The nonce a wallet has after a step, and the messages on the wire
LEMMA WalletNonce ==
    ASSUME TypeInv, [Next]_vars, NEW c \in Wallets
    PROVE  wallet'[c].nonce \in {wallet[c].nonce, 0, GetNonce(account[Owner[c]])}
<1> USE DEF TypeInv
<1>1. ASSUME NEW d \in Wallets, NEW step, Step(d, step)
      PROVE  wallet'[c].nonce \in {wallet[c].nonce, 0}
  BY <1>1 DEF Step, NoCommand, WalletTypeOK
<1>2. ASSUME NEW d \in Wallets, LearnNonce(d)
      PROVE  wallet'[c].nonce \in {wallet[c].nonce, GetNonce(account[Owner[c]])}
  <2>1. CASE c = d
    BY <1>2, <2>1 DEF LearnNonce, WalletTypeOK
  <2>2. CASE c # d
    BY <1>2, <2>2 DEF LearnNonce
  <2>3. QED
    BY <2>1, <2>2
<1>3. ASSUME NEW d \in Wallets, NEW cmd, StartCommand(d, cmd) \/ StartFaucet(d, cmd)
      PROVE  wallet'[c].nonce \in {wallet[c].nonce, 0}
  BY <1>3 DEF StartCommand, StartFaucet, Start, NoCommand
<1>4. ASSUME NEW r \in Requests, Answered(r)
      PROVE  wallet' = wallet \/ \E d \in Wallets : \E step : Step(d, step)
  <2>1. caller[r] \in Wallets \cup {Nobody}
    OBVIOUS
  <2>2. QED
    BY <1>4, <2>1, WalletAssumption DEF Answered, FaucetAnswer, Answer
<1>5. \/ wallet' = wallet
      \/ \E d \in Wallets : \/ LearnNonce(d)
                            \/ \E step : Step(d, step)
                            \/ \E cmd : StartCommand(d, cmd) \/ StartFaucet(d, cmd)
  BY <1>4 DEF Next, vars, walletVars, LoadSenderContext, FaucetLearns, SubmitTransaction,
              FaucetSubmits, Sends, Fail, Delivered, Dropped, NodeStep
<1>6. QED
  BY <1>1, <1>2, <1>3, <1>5

LEMMA WireOrigin ==
    ASSUME TypeInv, [Next]_vars, NEW m \in wire'
    PROVE  \/ \E w \in wire : m.tx = w.tx /\ m.by \in {w.by, Nobody}
           \/ \E c \in Wallets : \E cmd \in wallet[c].cmd : \E body \in Bodies(c, cmd) :
                  m.tx = Built(c, body, wallet[c].nonce)
<1>1. ASSUME NEW c \in Wallets, NEW body, Sends(c, body)
      PROVE  m \in wire \/ m.tx = Built(c, body, wallet[c].nonce)
  BY <1>1 DEF Sends
<1>2. ASSUME NEW c \in Wallets, Fail(c)
      PROVE  \E w \in wire : m.tx = w.tx /\ m.by \in {w.by, Nobody}
  BY <1>2, FailFacts
<1>3. \/ m \in wire
      \/ \E c \in Wallets : Fail(c)
      \/ \E c \in Wallets : \E cmd \in wallet[c].cmd : \E body \in Bodies(c, cmd) :
              Sends(c, body)
  BY DEF Next, vars, walletVars, StartCommand, StartFaucet, Start, LoadSenderContext,
         FaucetLearns, LearnNonce, SubmitTransaction, FaucetSubmits, Delivered, Answered,
         Dropped, NodeStep
<1>4. QED
  BY <1>1, <1>2, <1>3

LEMMA NonceInvStep ==
    ASSUME TypeInv, NonceInv, [Next]_vars
    PROVE  NonceInv'
<1>1. ASSUME NEW c \in Wallets
      PROVE  wallet'[c].nonce <= GetNonce(account'[Owner[c]])
  <2>1. Owner[c] \in Addresses
    BY WalletAssumption
  <2>2. /\ GetNonce(account[Owner[c]]) \in Nat /\ GetNonce(account'[Owner[c]]) \in Nat
        /\ GetNonce(account[Owner[c]]) <= GetNonce(account'[Owner[c]])
    BY <2>1, NoncesGrow DEF Words
  <2>3. wallet[c].nonce \in Nat /\ wallet[c].nonce <= GetNonce(account[Owner[c]])
    BY DEF NonceInv, TypeInv, WalletTypeOK, Words
  <2>4. QED
    BY <2>2, <2>3, WalletNonce
<1>2. ASSUME NEW m \in wire'
      PROVE  FromWallet(m.tx) /\ m.tx.nonce <= GetNonce(account'[m.tx.from]) + 1
  <2>1. CASE \E w \in wire : m.tx = w.tx
    <3>1. /\ m.tx \in Transactions
          /\ FromWallet(m.tx) /\ m.tx.nonce <= GetNonce(account[m.tx.from]) + 1
      BY <2>1 DEF TypeInv, NonceInv
    <3>2. m.tx.from \in Addresses /\ m.tx.nonce \in Nat
      BY <3>1 DEF Transactions, Words
    <3>3. QED
      BY <3>1, <3>2, NoncesGrow DEF Words
  <2>2. ASSUME NEW c \in Wallets, NEW cmd \in wallet[c].cmd, NEW body \in Bodies(c, cmd),
               m.tx = Built(c, body, wallet[c].nonce)
        PROVE  FromWallet(m.tx) /\ m.tx.nonce <= GetNonce(account'[m.tx.from]) + 1
    <3>1. /\ cmd \in Commands[c] /\ wallet[c].nonce \in Words
          /\ wallet[c].nonce <= GetNonce(account[Owner[c]])
          /\ Owner[c] \in Addresses
      BY WalletAssumption DEF TypeInv, WalletTypeOK, NonceInv
    <3>2. FromWallet(m.tx)
      BY <2>2, <3>1, BodiesTyped
    <3>3. m.tx.from = Owner[c] /\ m.tx.nonce = NextNonce(wallet[c].nonce)
      BY <2>2 DEF Built
    <3>4. NextNonce(wallet[c].nonce) \in Words
          /\ NextNonce(wallet[c].nonce) <= wallet[c].nonce + 1
      BY <3>1, NextNonceFacts
    <3>5. QED
      BY <3>1, <3>2, <3>3, <3>4, NoncesGrow DEF Words
  <2>3. QED
    BY <2>1, <2>2, WireOrigin
<1>3. QED
  BY <1>1, <1>2 DEF NonceInv

-----------------------------------------------------------------------------
\* Nothing is outstanding for wallet c.
Quiet(c) == (\A m \in wire : m.by # c) /\ (\A r \in Requests : caller[r] # c)

LEMMA QuietUnlessSent ==
    ASSUME TypeInv, OneOutstanding, NEW c \in Wallets, wallet[c].step # "sent"
    PROVE  Quiet(c)
  BY WalletAssumption DEF OneOutstanding, CallerAwaits, Quiet, Awaited

\* A wallet nobody answers to may change; the others stay.
LEMMA OthersStay ==
    ASSUME TypeInv, OneOutstanding, NEW c \in Wallets, Quiet(c),
           \A d \in Wallets \ {c} : wallet'[d] = wallet[d],
           UNCHANGED <<wire, caller, request>>
    PROVE  OneOutstanding'
<1>1. \A d \in Wallets \ {c} : \A t : Awaited(d, t) => Awaited(d, t)'
  BY DEF Awaited
<1>2. \A m \in wire : m.by # Nobody => m.by \in Wallets \ {c}
  BY DEF Quiet, TypeInv
<1>3. \A r \in Requests : caller[r] # Nobody => caller[r] \in Wallets \ {c}
  BY DEF Quiet, TypeInv
<1>4. QED
  BY <1>1, <1>2, <1>3 DEF OneOutstanding, CallerAwaits

LEMMA StartOutstanding ==
    ASSUME TypeInv, OneOutstanding, NEW c \in Wallets, NEW cmd,
           StartCommand(c, cmd) \/ StartFaucet(c, cmd) \/ LearnNonce(c)
    PROVE  OneOutstanding'
<1>1. Quiet(c)
  BY QuietUnlessSent DEF StartCommand, StartFaucet, Start, LearnNonce
<1>2. /\ \A d \in Wallets \ {c} : wallet'[d] = wallet[d]
      /\ UNCHANGED <<wire, caller, request>>
  BY DEF TypeInv, StartCommand, StartFaucet, Start, LearnNonce, admissionVars
<1>3. QED
  BY <1>1, <1>2, OthersStay

LEMMA SendsOutstanding ==
    ASSUME TypeInv, OneOutstanding, NEW c \in Wallets, wallet[c].step = "known",
           NEW cmd \in wallet[c].cmd, NEW body \in Bodies(c, cmd), Sends(c, body),
           UNCHANGED <<caller, request>>
    PROVE  OneOutstanding'
<1>1. PICK new : new = [tx |-> Built(c, body, wallet[c].nonce), by |-> c]
  OBVIOUS
<1>2. wire' = wire \cup {new} /\ new.by = c /\ c # Nobody
  BY <1>1, WalletAssumption DEF Sends
<1>3. Quiet(c)
  BY QuietUnlessSent
<1>4. /\ \A d \in Wallets \ {c} : wallet'[d] = wallet[d]
      /\ wallet'[c].step = "sent" /\ wallet'[c].cmd = wallet[c].cmd
      /\ wallet'[c].nonce = wallet[c].nonce
  BY DEF TypeInv, WalletTypeOK, Sends, Step
<1>5. Awaited(c, new.tx)'
  BY <1>1, <1>4 DEF Awaited
<1>6. \A d \in Wallets \ {c} : \A t : Awaited(d, t) => Awaited(d, t)'
  BY <1>4 DEF Awaited
<1>7. \A m \in wire : m.by # Nobody => m.by \in Wallets \ {c}
  BY <1>3 DEF Quiet, TypeInv
<1>8. \A r \in Requests : caller[r] # Nobody => caller[r] \in Wallets \ {c}
  BY <1>3 DEF Quiet, TypeInv
<1>9. QED
  BY <1>2, <1>3, <1>5, <1>6, <1>7, <1>8 DEF OneOutstanding, CallerAwaits, Quiet

LEMMA FailOutstanding ==
    ASSUME TypeInv, OneOutstanding, NEW c \in Wallets, Fail(c)
    PROVE  OneOutstanding'
<1>1. \A m \in wire' : m.by # Nobody => m \in wire /\ m.by # c
  BY FailFacts
<1>2. /\ \A r \in Requests : caller'[r] # Nobody => caller'[r] = caller[r] /\ caller[r] # c
      /\ request' = request
  BY DEF Fail, admissionVars
<1>3. \A d \in Wallets \ {c} : wallet'[d] = wallet[d]
  BY DEF TypeInv, Fail, Step
<1>4. \A d \in Wallets \ {c} : \A t : Awaited(d, t) => Awaited(d, t)'
  BY <1>3 DEF Awaited
<1>5. \A m \in wire : m.by # Nobody => m.by \in Wallets
  BY DEF TypeInv
<1>6. \A r \in Requests : caller[r] # Nobody => caller[r] \in Wallets
  BY DEF TypeInv
<1>7. QED
  BY <1>1, <1>2, <1>4, <1>5, <1>6 DEF OneOutstanding, CallerAwaits

LEMMA DeliveredOutstanding ==
    ASSUME TypeInv, OneOutstanding, NEW r \in Requests, NEW m \in wire, Delivered(r, m)
    PROVE  OneOutstanding'
<1>1. PICK label, acc : Begin(r, label, m.tx, acc)
  BY DEF Delivered, Arrive, TurnAway
<1>2. /\ request[r] = {}
      /\ request'[r] = {[at |-> label, tx |-> m.tx, seen |-> acc]}
      /\ \A s \in Requests \ {r} : request'[s] = request[s]
  BY <1>1 DEF Begin, TypeInv
<1>3. caller[r] = Nobody
  BY <1>2 DEF OneOutstanding, CallerAwaits
<1>4. /\ caller'[r] = m.by
      /\ \A s \in Requests \ {r} : caller'[s] = caller[s]
      /\ wire' = wire \ {m}
      /\ wallet' = wallet
  BY DEF Delivered, TypeInv
<1>5. \A d, t : Awaited(d, t) => Awaited(d, t)'
  BY <1>4 DEF Awaited
<1>6. m.by # Nobody => Awaited(m.by, m.tx)'
  BY <1>5 DEF OneOutstanding, CallerAwaits
<1>7. \A s \in Requests : CallerAwaits(s)'
  <2>1. ASSUME NEW s \in Requests, s # r
        PROVE  CallerAwaits(s)'
    <3>1. request'[s] = request[s] /\ caller'[s] = caller[s] /\ CallerAwaits(s)
      BY <1>2, <1>4, <2>1 DEF OneOutstanding
    <3>2. QED
      BY <1>5, <3>1 DEF CallerAwaits
  <2>2. CallerAwaits(r)'
    BY <1>2, <1>4, <1>6 DEF CallerAwaits
  <2>3. QED
    BY <2>1, <2>2
<1>8. \A s, u \in Requests : caller'[s] = caller'[u] /\ caller'[s] # Nobody => s = u
  BY <1>4 DEF OneOutstanding, CallerAwaits
<1>9. \A n \in wire', s \in Requests : n.by # Nobody => n.by # caller'[s]
  BY <1>4 DEF OneOutstanding, CallerAwaits
<1>10. \A n \in wire' : n.by # Nobody => Awaited(n.by, n.tx)'
  BY <1>4 DEF OneOutstanding, CallerAwaits, Awaited
<1>11. QED
  BY <1>4, <1>7, <1>8, <1>9, <1>10 DEF OneOutstanding, CallerAwaits

LEMMA AnsweredOutstanding ==
    ASSUME TypeInv, OneOutstanding, NEW r \in Requests, Answered(r)
    PROVE  OneOutstanding'
<1>1. /\ \A s \in Requests \ {r} : request'[s] = request[s]
      /\ caller'[r] = Nobody
      /\ \A s \in Requests \ {r} : caller'[s] = caller[s]
      /\ wire' = wire
  BY DEF Answered, Return, Ends, TypeInv
<1>2. \A d \in Wallets \ {caller[r]} : wallet'[d] = wallet[d]
  <2>1. CASE caller[r] = Nobody
    BY <2>1, WalletAssumption DEF Answered
  <2>2. CASE caller[r] # Nobody
    <3>1. caller[r] \in Wallets
      BY <2>2 DEF TypeInv
    <3>2. Step(caller[r], Of(r).at)
      BY <2>2, <3>1, WalletAssumption DEF Answered, FaucetAnswer, Answer
    <3>3. QED
      BY <3>2 DEF Step, TypeInv
  <2>3. QED
    BY <2>1, <2>2
<1>3. \A d \in Wallets \ {caller[r]} : \A t : Awaited(d, t) => Awaited(d, t)'
  BY <1>2 DEF Awaited
<1>4. \A m \in wire : m.by # Nobody => m.by \in Wallets \ {caller[r]}
  BY DEF OneOutstanding, CallerAwaits, TypeInv
<1>5. \A s \in Requests \ {r} : caller[s] # Nobody => caller[s] \in Wallets \ {caller[r]}
  BY DEF OneOutstanding, CallerAwaits, TypeInv
<1>6. QED
  BY <1>1, <1>3, <1>4, <1>5 DEF OneOutstanding, CallerAwaits

\* Steps of the node keep the transaction of every request that is waited for.
LEMMA NodeOutstanding ==
    ASSUME TypeInv, OneOutstanding, UNCHANGED <<wallet, wire, caller>>,
           \A r \in Requests : caller[r] # Nobody =>
               /\ request'[r] # {}
               /\ \A q \in request'[r] : \E p \in request[r] : q.tx = p.tx
    PROVE  OneOutstanding'
<1>1. \A d, t : Awaited(d, t) => Awaited(d, t)'
  BY DEF Awaited
<1>2. QED
  BY <1>1 DEF OneOutstanding, CallerAwaits

LEMMA NodeStepOutstanding ==
    ASSUME TypeInv, OneOutstanding, NodeStep
    PROVE  OneOutstanding'
<1>1. UNCHANGED <<wallet, wire, caller>>
  BY DEF NodeStep, walletVars
<1>2. CASE request' = request
  BY <1>1, <1>2, NodeOutstanding DEF OneOutstanding, CallerAwaits
<1>3. ASSUME NEW r \in Requests, NEW t, Arrive(r, t)
      PROVE  OneOutstanding'
  <2>1. request[r] = {} /\ \A s \in Requests \ {r} : request'[s] = request[s]
    BY <1>3 DEF Arrive, Begin, TypeInv
  <2>2. caller[r] = Nobody
    BY <2>1 DEF OneOutstanding, CallerAwaits
  <2>3. QED
    BY <1>1, <2>1, <2>2, NodeOutstanding DEF OneOutstanding, CallerAwaits
<1>4. ASSUME NEW r \in Requests, RequestMoves(r)
      PROVE  OneOutstanding'
  <2>1. PICK label \in Labels : MoveTo(r, label) \/ ResultIs(r, label)
    BY <1>4 DEF RequestMoves, Reject, Admit, CallFails, Enqueue, Reply, Labels
  <2>2. request[r] # {}
    BY <1>4 DEF RequestMoves, Reject, Admit, CallFails, Enqueue, Reply, At
  <2>3. PICK q : q \in request[r] /\ request[r] = {q}
    BY <2>2, OfFacts
  <2>4. /\ request'[r] # {} /\ \A p \in request'[r] : p.tx = q.tx
        /\ \A s \in Requests \ {r} : request'[s] = request[s]
    <3>1. PICK seen : /\ request'[r] = {[at |-> label, tx |-> q.tx, seen |-> seen]}
                      /\ \A s \in Requests \ {r} : request'[s] = request[s]
      <4>1. CASE MoveTo(r, label)
        BY <2>3, <4>1, Moved
      <4>2. CASE ResultIs(r, label)
        <5>1. /\ request'[r] = {[at |-> label, tx |-> q.tx, seen |-> {}]}
              /\ \A s \in Requests \ {r} : request'[s] = request[s]
          BY <2>3, <4>2, Resulted
        <5>2. WITNESS {}
        <5>3. QED
          BY <5>1
      <4>3. QED
        BY <2>1, <4>1, <4>2
    <3>2. QED
      BY <3>1
  <2>5. QED
    BY <1>1, <2>3, <2>4, NodeOutstanding DEF OneOutstanding, CallerAwaits
<1>5. QED
  BY <1>2, <1>3, <1>4 DEF NodeStep, RequestMoves, GossipTransaction, UpdateAccount

LEMMA OutstandingStep ==
    ASSUME TypeInv, OneOutstanding, [Next]_vars
    PROVE  OneOutstanding'
<1>1. CASE UNCHANGED vars
  BY <1>1, NodeOutstanding DEF OneOutstanding, CallerAwaits, vars, admissionVars, walletVars
<1>2. ASSUME NEW c \in Wallets, SubmitTransaction(c) \/ FaucetSubmits(c)
      PROVE  OneOutstanding'
  <2>1. wallet[c].step = "known" /\ UNCHANGED <<caller, request>>
    BY <1>2 DEF SubmitTransaction, FaucetSubmits, admissionVars
  <2>2. CASE \E cmd \in wallet[c].cmd : \E body \in Bodies(c, cmd) : Sends(c, body)
    BY <2>1, <2>2, SendsOutstanding
  <2>3. CASE Step(c, "failed") /\ UNCHANGED wire
    <3>1. Quiet(c) /\ \A d \in Wallets \ {c} : wallet'[d] = wallet[d]
      BY <2>1, <2>3, QuietUnlessSent DEF Step, TypeInv
    <3>2. QED
      BY <2>1, <2>3, <3>1, OthersStay
  <2>4. QED
    BY <1>2, <2>2, <2>3 DEF SubmitTransaction, FaucetSubmits
<1>3. ASSUME NEW r \in Requests, Dropped(r)
      PROVE  OneOutstanding'
  <2>1. /\ caller[r] = Nobody /\ UNCHANGED <<wallet, wire, caller>>
        /\ \A s \in Requests \ {r} : request'[s] = request[s]
    BY <1>3 DEF Dropped, Drop, Ends, TypeInv, walletVars
  <2>2. QED
    BY <2>1, NodeOutstanding DEF OneOutstanding, CallerAwaits
<1>4. QED
  BY <1>1, <1>2, <1>3, StartOutstanding, FailOutstanding, DeliveredOutstanding,
     AnsweredOutstanding, NodeStepOutstanding
     DEF Next, LoadSenderContext, FaucetLearns

-----------------------------------------------------------------------------
LEMMA AcceptedStep ==
    ASSUME TypeInv, NodeInv, OneOutstanding, AcceptedAreQueued, [Next]_vars
    PROVE  AcceptedAreQueued'
<1> DEFINE Done(c) ==
        \E cmd \in wallet[c].cmd : \E body \in Bodies(c, cmd) :
            LET t == Built(c, body, wallet[c].nonce)
            IN  t \in queued /\ (t.kind = "CallContract" => t \in executed)
<1>1. executed \subseteq executed' /\ queued \subseteq queued'
  BY DEF Next, vars, admissionVars, StartCommand, StartFaucet, Start, LoadSenderContext,
         FaucetLearns, LearnNonce, SubmitTransaction, FaucetSubmits, Fail, Delivered, Arrive,
         TurnAway, Begin, Answered, Return, Dropped, Drop, Ends, NodeStep, Reject, Admit,
         CallFails, Enqueue, Reply, Queue, GossipTransaction, UpdateAccount
<1>2. SUFFICES ASSUME NEW c \in Wallets, wallet'[c].step = "accepted"
               PROVE  Done(c)'
  BY DEF AcceptedAreQueued
<1>3. CASE wallet'[c] = wallet[c]
  BY <1>1, <1>2, <1>3 DEF AcceptedAreQueued
<1>4. ASSUME NEW d \in Wallets, NEW step, Step(d, step), wallet'[c] # wallet[c]
      PROVE  c = d /\ step = "accepted"
  BY <1>2, <1>4 DEF Step, NoCommand, TypeInv, WalletTypeOK
<1>5. ASSUME NEW r \in Requests, Answered(r), wallet'[c] # wallet[c]
      PROVE  Done(c)'
  <2>1. caller[r] \in Wallets /\ caller[r] # Nobody /\ Step(caller[r], Of(r).at)
    BY <1>5, WalletAssumption DEF TypeInv, Answered, FaucetAnswer, Answer
  <2>2. caller[r] = c /\ Of(r).at = "accepted"
    BY <1>4, <1>5, <2>1
  <2>3. Of(r) \in request[r]
    BY <1>5, OfFacts DEF Answered, Return, Ends, At
  <2>4. /\ Of(r).tx \in queued
        /\ Of(r).tx.kind = "CallContract" => Of(r).tx \in executed
    BY <2>2, <2>3 DEF NodeInv, Progress
  <2>5. Awaited(c, Of(r).tx)
    BY <2>1, <2>2, <2>3 DEF OneOutstanding, CallerAwaits
  <2>6. Done(c)
    BY <2>4, <2>5 DEF Awaited
  <2>7. wallet'[c].cmd = wallet[c].cmd /\ wallet'[c].nonce = wallet[c].nonce
    BY <2>1, <2>2 DEF Step, TypeInv, WalletTypeOK
  <2>8. QED
    BY <1>1, <2>6, <2>7
<1>6. ASSUME NEW d \in Wallets,
             \/ \E cmd : StartCommand(d, cmd) \/ StartFaucet(d, cmd)
             \/ LearnNonce(d)
      PROVE  wallet'[c] = wallet[c]
  BY <1>2, <1>6 DEF StartCommand, StartFaucet, Start, NoCommand, LearnNonce, TypeInv, WalletTypeOK
<1>7. ASSUME NEW d \in Wallets, SubmitTransaction(d) \/ FaucetSubmits(d) \/ Fail(d)
      PROVE  wallet'[c] = wallet[c]
  <2>1. PICK step \in {"sent", "failed"} : Step(d, step)
    BY <1>7 DEF SubmitTransaction, FaucetSubmits, Fail, Sends
  <2>2. QED
    BY <1>4, <2>1
<1>8. \/ wallet' = wallet
      \/ \E r \in Requests : Answered(r)
      \/ \E d \in Wallets :
            \/ \E cmd : StartCommand(d, cmd) \/ StartFaucet(d, cmd)
            \/ LearnNonce(d)
            \/ SubmitTransaction(d) \/ FaucetSubmits(d) \/ Fail(d)
  BY DEF Next, vars, walletVars, LoadSenderContext, FaucetLearns, Delivered, Dropped, NodeStep
<1> HIDE DEF Done
<1>9. QED
  BY <1>3, <1>5, <1>6, <1>7, <1>8

LEMMA InductiveInvariant == Spec => []IInv
<1>1. Init => IInv
  <2> SUFFICES ASSUME Init PROVE IInv
    OBVIOUS
  <2>1. TypeInv
    BY TypeInit
  <2>2. NodeInv
    BY DEF Init, AdmissionInit, NodeInv
  <2>3. NonceInv
    BY WalletAssumption DEF Init, AdmissionInit, NonceInv, NoCommand, GetNonce
  <2>4. OneOutstanding
    BY DEF Init, OneOutstanding, CallerAwaits
  <2>5. AcceptedAreQueued
    BY DEF Init, AcceptedAreQueued, NoCommand
  <2>6. QED
    BY <2>1, <2>2, <2>3, <2>4, <2>5 DEF IInv
<1>2. IInv /\ [Next]_vars => IInv'
  BY TypeStep, NodeInvStep, NonceInvStep, OutstandingStep, AcceptedStep DEF IInv
<1>3. QED
  BY <1>1, <1>2, PTL DEF Spec

\* A user who is told `accepted' has the transaction of the command in the mempool
\* and its contract call behind it, however calls fail, overlap and arrive late
\* (rpc_call of prims-cli.rs and of the explorer, send_transaction of the node).
THEOREM AcceptedTransactionsAreQueued == Spec => []AcceptedAreQueued
  BY InductiveInvariant, PTL DEF IInv

\* What send_transaction lets through was affordable by the account it loaded:
\* without overflow, and never for an account that does not exist.
THEOREM AdmissionIsAffordable == Spec => []AdmittedAffordable
<1>1. IInv => AdmittedAffordable
  <2> SUFFICES ASSUME IInv, NEW r \in Requests, At(r, {"admitted", "queued"})
               PROVE  \E acc \in Of(r).seen :
                          \/ acc.balance >= Of(r).tx.amount + Of(r).tx.fee
                          \/ Of(r).tx.kind = "Unstake" /\ acc.balance >= Of(r).tx.fee
    BY DEF AdmittedAffordable
  <2>1. PICK q : q = Of(r) /\ q \in request[r] /\ q \in RequestRecords
    BY OfFacts DEF IInv, At
  <2>2. q.at \in {"admitted", "queued"}
    BY <2>1 DEF At
  <2>3. ChecksOk(q.tx, q.seen)
    BY <2>1, <2>2 DEF IInv, NodeInv, Progress
  <2>4. q.tx \in Transactions /\ q.seen \in Stored
    BY <2>1 DEF RequestRecords
  <2>5. q.tx.kind \in Kinds /\ q.tx.amount \in Nat /\ q.tx.fee \in Nat
    BY <2>4 DEF Transactions, Words
  <2>6. /\ q.tx.fee > 0
        /\ \/ Balance(q.seen) >= q.tx.amount + q.tx.fee
           \/ q.tx.kind = "Unstake" /\ Balance(q.seen) >= q.tx.fee
    BY <2>3, <2>4, ChecksFacts, TxAdmissionAssumption
  <2>7. PICK a \in q.seen : Balance(q.seen) = a.balance
    BY <2>4, <2>5, <2>6, StoredFacts
  <2>8. QED
    BY <2>1, <2>6, <2>7
<1>2. QED
  BY <1>1, InductiveInvariant, PTL

\* What the wallets send fits what the node checks: an admitted transaction of a
\* wallet carries the nonce right after the one of the account it was checked
\* against, and a refused one is refused for what the wallet cannot know.
THEOREM WalletsFitTheChecks == Spec => []WalletsMeetChecks
<1>1. IInv => WalletsMeetChecks
  <2> SUFFICES ASSUME IInv, NEW r \in Requests, request[r] # {}, Of(r).tx \notin OtherTxs
               PROVE  /\ At(r, {"admitted", "queued"}) =>
                             Of(r).tx.nonce = GetNonce(Of(r).seen) + 1
                      /\ At(r, {"loaded"}) /\ ~ChecksOk(Of(r).tx, Of(r).seen) =>
                             \/ Of(r).tx.nonce <= GetNonce(Of(r).seen)
                             \/ Of(r).tx.amount + Of(r).tx.fee > Balance(Of(r).seen)
                             \/ /\ Of(r).tx.amount = 0
                                /\ Of(r).tx.kind \in {"Transfer", "PublicToAnon", "Stake"}
                             \/ Of(r).tx.to = "none"
    BY DEF WalletsMeetChecks
  <2>1. PICK q : q = Of(r) /\ q \in request[r] /\ q \in RequestRecords
    BY OfFacts DEF IInv
  <2>2. PICK t : t = q.tx
    OBVIOUS
  <2>3. /\ t \in Transactions /\ q.seen \in Stored
        /\ t.kind \in Kinds /\ t.amount \in Nat /\ t.fee \in Nat /\ t.nonce \in Nat
        /\ GetNonce(q.seen) \in Nat /\ Balance(q.seen) \in Nat /\ Balance(q.seen) < WordSize
    BY <2>1, <2>2, StoredFacts, TxAdmissionAssumption DEF RequestRecords, Transactions, Words
  <2>4. Progress(q) /\ NotAhead(q)
    BY <2>1 DEF IInv, NodeInv
  <2>5. FromWallet(t) /\ (q.at \in {"loaded", "admitted", "queued"} =>
                              t.nonce <= GetNonce(q.seen) + 1)
    BY <2>1, <2>2, <2>4 DEF NotAhead
  <2>6. ASSUME q.at \in {"admitted", "queued"}
        PROVE  t.nonce = GetNonce(q.seen) + 1
    <3>1. ChecksOk(t, q.seen)
      BY <2>2, <2>4, <2>6 DEF Progress
    <3>2. Balance(q.seen) > 0
      BY <2>3, <3>1, ChecksFacts
    <3>3. PICK a \in q.seen : GetNonce(q.seen) = a.nonce
      BY <2>3, <3>2, StoredFacts
    <3>4. t.nonce > GetNonce(q.seen)
      BY <3>1, <3>3 DEF ChecksOk, NonceOk
    <3>5. QED
      BY <2>3, <2>5, <2>6, <3>4
  <2>7. ASSUME t.nonce > GetNonce(q.seen), t.amount + t.fee <= Balance(q.seen),
               ~(t.amount = 0 /\ t.kind \in {"Transfer", "PublicToAnon", "Stake"}),
               t.to # "none"
        PROVE  ChecksOk(t, q.seen)
    <3>1. NonceOk(t, q.seen)
      BY <2>3, <2>7, StoredFacts DEF NonceOk
    <3>2. t.fee = FixedFee /\ Balance(q.seen) >= t.fee
      BY <2>3, <2>5, <2>7 DEF FromWallet
    <3>3. CASE t.kind \in {"Transfer", "PublicToAnon", "Stake"}
      <4>1. BalanceOk(t, q.seen)
        BY <2>3, <2>7, <3>2, <3>3, TxAdmissionAssumption DEF BalanceOk, Required
      <4>2. QED
        BY <3>1, <3>3, <4>1 DEF ChecksOk
    <3>4. CASE t.kind \in {"Unstake", "DeployContract", "CallContract"}
      BY <2>5, <2>7, <3>1, <3>2, <3>4 DEF ChecksOk, FeeOk, DeployOk, CallOk, FromWallet
    <3>5. QED
      BY <2>3, <2>5, <3>3, <3>4 DEF FromWallet, Kinds
  <2>8. /\ At(r, {"admitted", "queued"}) => q.at \in {"admitted", "queued"}
        /\ Of(r).tx = t /\ Of(r).seen = q.seen
    BY <2>1, <2>2 DEF At
  <2>9. QED
    BY <2>3, <2>6, <2>7, <2>8
<1>2. QED
  BY <1>1, InductiveInvariant, PTL
=============================================================================
