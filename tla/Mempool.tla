------------------------------ MODULE Mempool ------------------------------
(***************************************************************************)
(* The partitioned mempool of src/consensus/mod.rs.  Every partition is an *)
(* actor: a task that owns a Vec of transactions and serves the commands   *)
(* of a bounded mpsc channel one at a time.  The handles are Clone, so any *)
(* number of clients (RPC handlers, the gossip loop, the block proposer)   *)
(* run the operations below concurrently; each operation that reads        *)
(* several partitions asks them one after the other and waits for every    *)
(* oneshot answer before it sends the next request.                        *)
(*                                                                         *)
(* A partition's Vec is represented by `log', every transaction ever       *)
(* pushed on it in push order, and `transactions', the positions of `log'  *)
(* that are still in the Vec.  The Vec only ever loses elements and keeps  *)
(* the order of the rest, so the pair determines it and gives each pushed  *)
(* transaction an identity (two equal transactions are two positions: the  *)
(* code has no duplicate check).                                           *)
(***************************************************************************)
EXTENDS Naturals, FiniteSets, Sequences

CONSTANTS
    Clients,             \* callers holding a clone of the Mempool handle
    NoClient,            \* the receiver of a oneshot whose future was dropped
    PartitionCount,      \* partition_count, at least 1
    Addresses,           \* values of Transaction.from
    PartitionForAddress, \* partition_for_address, see module AddressHash
    Txs,                 \* the transactions submitted
    NoTx,                \* placeholder where no transaction is carried
    From,                \* the sender of each transaction
    ChannelCapacity,     \* the 1024 of mpsc::channel(1024)
    MaxPerAddress,       \* MAX_TRANSACTIONS_PER_ADDRESS_PER_BLOCK
    BlockLimits,         \* the max_transactions arguments of take_for_block
    MaxSubmissions       \* bound on the number of add calls of a behaviour

Partitions == 0 .. (PartitionCount - 1)

ASSUME MempoolAssumption ==
    /\ PartitionCount \in Nat \ {0}
    /\ PartitionForAddress \in [Addresses -> Partitions]
    /\ From \in [Txs -> Addresses]
    /\ ChannelCapacity \in Nat \ {0}
    /\ MaxPerAddress \in Nat
    /\ BlockLimits \subseteq Nat
    /\ MaxSubmissions \in Nat
    /\ NoClient \notin Clients
    /\ NoTx \notin Txs

VARIABLES
    inbox,        \* inbox[p]: commands in partition p's channel, oldest first
    log,          \* log[p]: every transaction pushed on partition p so far
    transactions, \* transactions[p]: positions of log[p] still in the Vec
    pc,           \* pc[c]: the loop client c is in
    part,         \* part[c]: the partition that loop has reached
    wait,         \* wait[c]: progress of the request to that partition
    reply,        \* reply[c]: content of the oneshot channel
    tx,           \* tx[c]: the transaction being added
    limit,        \* limit[c]: max_transactions of the running take_for_block
    total,        \* total[c]: the sum computed by the running len loop
    acc,          \* acc[c]: transactions gathered so far, as positions
    blocks,       \* history: the non-empty results of take_for_block
    added,        \* history: added[c], the add calls of c that returned
    submitted     \* number of add calls started, for the bound

partitionVars == <<inbox, log, transactions>>
clientVars == <<pc, part, wait, reply, tx, limit, total, acc>>
historyVars == <<blocks, added, submitted>>
vars == <<partitionVars, clientVars, historyVars>>

Positions == Partitions \X (Nat \ {0})

LenLoops == {"len", "pending_len", "take_len", "take_empty"}

Loops == LenLoops \cup {"pending", "take"}

Commands ==
    [kind : {"add", "take", "len", "pending"}, tx : Txs \cup {NoTx},
     client : Clients \cup {NoClient}, max : Nat]

NoReply == [len |-> 0, txs |-> {}]

(***************************************************************************)
(* The clients: one Begin action per public operation.                     *)
(***************************************************************************)

\* add_transaction_async and add_transaction: route by sender, then await
\* room in the partition's channel (SendAdd).
BeginAdd(c, t) ==
    /\ pc[c] = "idle"
    /\ submitted < MaxSubmissions
    /\ submitted' = submitted + 1
    /\ pc' = [pc EXCEPT ![c] = "add"]
    /\ tx' = [tx EXCEPT ![c] = t]
    /\ UNCHANGED <<partitionVars, part, wait, reply, limit, total, acc,
                   blocks, added>>

AddPartition(c) == PartitionForAddress[From[tx[c]]]

\* Mutant: try_send instead of send(..).await, its error ignored.
SendAddTrySend(c) ==
    LET p == AddPartition(c)
    IN  /\ pc[c] = "add"
        /\ inbox' = IF Len(inbox[p]) = ChannelCapacity THEN inbox
                    ELSE [inbox EXCEPT ![p] =
                             Append(@, [kind |-> "add", tx |-> tx[c],
                                        client |-> NoClient, max |-> 0])]
        /\ added' = [added EXCEPT ![c] = @ + 1]
        /\ pc' = [pc EXCEPT ![c] = "idle"]
        /\ tx' = [tx EXCEPT ![c] = NoTx]
        /\ UNCHANGED <<log, transactions, part, wait, reply, limit, total,
                       acc, blocks, submitted>>

SendAdd(c) ==
    LET p == AddPartition(c)
    IN  /\ pc[c] = "add"
        /\ Len(inbox[p]) < ChannelCapacity
        /\ inbox' = [inbox EXCEPT ![p] =
               Append(@, [kind |-> "add", tx |-> tx[c],
                          client |-> NoClient, max |-> 0])]
        /\ added' = [added EXCEPT ![c] = @ + 1]
        /\ pc' = [pc EXCEPT ![c] = "idle"]
        /\ tx' = [tx EXCEPT ![c] = NoTx]
        /\ UNCHANGED <<log, transactions, part, wait, reply, limit, total,
                       acc, blocks, submitted>>

\* Enter a loop over the partitions: start at the first one with nothing
\* summed and nothing gathered.
Enter(c, loop) ==
    /\ pc' = [pc EXCEPT ![c] = loop]
    /\ part' = [part EXCEPT ![c] = 0]
    /\ total' = [total EXCEPT ![c] = 0]
    /\ acc' = [acc EXCEPT ![c] = {}]

\* len_async, len and is_empty
BeginLen(c) ==
    /\ pc[c] = "idle"
    /\ Enter(c, "len")
    /\ UNCHANGED <<partitionVars, wait, reply, tx, limit, historyVars>>

\* pending_transactions sizes its buffer with len before it gathers
BeginPending(c) ==
    /\ pc[c] = "idle"
    /\ Enter(c, "pending_len")
    /\ UNCHANGED <<partitionVars, wait, reply, tx, limit, historyVars>>

\* take_for_block sizes its buffer with len, asks is_empty, then takes
BeginTake(c, max) ==
    /\ pc[c] = "idle"
    /\ Enter(c, "take_len")
    /\ limit' = [limit EXCEPT ![c] = max]
    /\ UNCHANGED <<partitionVars, wait, reply, tx, historyVars>>

KindOf(loop) == IF loop \in LenLoops THEN "len" ELSE loop

\* The send(..).await of a loop: one request to the partition reached.  For
\* take_for_block it carries remaining = max_transactions - selected.len().
Request(c) ==
    /\ pc[c] \in Loops
    /\ wait[c] = "ready"
    /\ Len(inbox[part[c]]) < ChannelCapacity
    /\ inbox' = [inbox EXCEPT ![part[c]] =
           Append(@, [kind |-> KindOf(pc[c]), tx |-> NoTx, client |-> c,
                      max |-> IF pc[c] = "take"
                              THEN limit[c] - Cardinality(acc[c]) ELSE 0])]
    /\ wait' = [wait EXCEPT ![c] = "sent"]
    /\ UNCHANGED <<log, transactions, pc, part, reply, tx, limit, total, acc,
                   historyVars>>

\* The call returns to its caller.
Return(c) ==
    /\ pc' = [pc EXCEPT ![c] = "idle"]
    /\ part' = [part EXCEPT ![c] = 0]
    /\ total' = [total EXCEPT ![c] = 0]
    /\ acc' = [acc EXCEPT ![c] = {}]
    /\ limit' = [limit EXCEPT ![c] = 0]

\* Mutant: an off-by-one at the end of the partition list.
LastPartitionOffByOne(c) == part[c] = PartitionCount

LastPartition(c) == part[c] = PartitionCount - 1

\* The oneshot answer is consumed.
Consume(c) ==
    /\ wait[c] = "answered"
    /\ wait' = [wait EXCEPT ![c] = "ready"]
    /\ reply' = [reply EXCEPT ![c] = NoReply]
    /\ UNCHANGED <<partitionVars, tx>>

\* What follows a completed len loop whose sum is n: take_for_block returns
\* early on max_transactions = 0 or an empty mempool.
AfterLen(c, n) ==
    \/ pc[c] = "len" /\ Return(c)
    \/ pc[c] = "pending_len" /\ Enter(c, "pending") /\ UNCHANGED limit
    \/ /\ pc[c] = "take_len"
       /\ IF limit[c] = 0 THEN Return(c)
          ELSE Enter(c, "take_empty") /\ UNCHANGED limit
    \/ /\ pc[c] = "take_empty"
       /\ IF n = 0 THEN Return(c)
          ELSE Enter(c, "take") /\ UNCHANGED limit

ReceiveLen(c) ==
    /\ pc[c] \in LenLoops
    /\ Consume(c)
    /\ LET n == total[c] + reply[c].len
       IN  IF LastPartition(c) THEN AfterLen(c, n)
           ELSE /\ total' = [total EXCEPT ![c] = n]
                /\ part' = [part EXCEPT ![c] = @ + 1]
                /\ UNCHANGED <<pc, acc, limit>>
    /\ UNCHANGED historyVars

ReceivePending(c) ==
    /\ pc[c] = "pending"
    /\ Consume(c)
    /\ IF LastPartition(c) THEN Return(c)
       ELSE /\ acc' = [acc EXCEPT ![c] = @ \cup reply[c].txs]
            /\ part' = [part EXCEPT ![c] = @ + 1]
            /\ UNCHANGED <<pc, total, limit>>
    /\ UNCHANGED historyVars

\* selected.extend(..), then the next partition unless the block is full
ReceiveTake(c) ==
    LET selected == acc[c] \cup reply[c].txs
    IN  /\ pc[c] = "take"
        /\ Consume(c)
        /\ IF LastPartition(c) \/ Cardinality(selected) = limit[c]
           THEN /\ Return(c)
                /\ blocks' = IF selected = {} THEN blocks
                             ELSE blocks \cup {selected}
           ELSE /\ acc' = [acc EXCEPT ![c] = selected]
                /\ part' = [part EXCEPT ![c] = @ + 1]
                /\ UNCHANGED <<pc, total, limit, blocks>>
        /\ UNCHANGED <<added, submitted>>

\* Mutant: the oneshot of a dropped future still answers its client.
OrphanIgnored(cmd, c) == cmd

\* The future of add_transaction_async or len_async is dropped at an await:
\* a transaction not yet in the channel is not sent, and the oneshot of a
\* pending Len request loses its receiver (the partition still serves it).
Orphan(cmd, c) ==
    IF cmd.client = c THEN [cmd EXCEPT !.client = NoClient] ELSE cmd

Cancel(c) ==
    /\ pc[c] \in {"add", "len"}
    /\ inbox' = [p \in Partitions |->
           [i \in DOMAIN inbox[p] |-> Orphan(inbox[p][i], c)]]
    /\ Return(c)
    /\ wait' = [wait EXCEPT ![c] = "ready"]
    /\ reply' = [reply EXCEPT ![c] = NoReply]
    /\ tx' = [tx EXCEPT ![c] = NoTx]
    /\ UNCHANGED <<log, transactions, historyVars>>

(***************************************************************************)
(* The partition tasks: one action per command.                            *)
(***************************************************************************)

SenderAt(p, i) == From[log[p][i]]

\* Mutant: the sender's count compared with > instead of >=.
EligibleOverCap(p) ==
    {i \in transactions[p] :
        Cardinality({j \in transactions[p] :
                        j <= i /\ SenderAt(p, j) = SenderAt(p, i)})
            <= MaxPerAddress + 1}

\* Mutant: the Vec scanned from its tail.
EligibleNewest(p) ==
    {i \in transactions[p] :
        Cardinality({j \in transactions[p] :
                        j >= i /\ SenderAt(p, j) = SenderAt(p, i)})
            <= MaxPerAddress}

\* The selection loop of TakeForBlock, scanning the Vec from its head: a
\* transaction is eligible when fewer than MaxPerAddress transactions of its
\* sender precede it, and the first `max' eligible ones are selected.
Eligible(p) ==
    {i \in transactions[p] :
        Cardinality({j \in transactions[p] :
                        j <= i /\ SenderAt(p, j) = SenderAt(p, i)})
            <= MaxPerAddress}

\* Mutant: the loop stops one transaction late.
SelectForBlockOneMore(p, max) ==
    {i \in Eligible(p) : Cardinality({j \in Eligible(p) : j < i}) <= max}

SelectForBlock(p, max) ==
    {i \in Eligible(p) : Cardinality({j \in Eligible(p) : j <= i}) <= max}

\* let _ = response.send(..): dropped silently when nobody listens
Respond(c, len, txs) ==
    IF c \in Clients
    THEN /\ reply' = [reply EXCEPT ![c] = [len |-> len, txs |-> txs]]
         /\ wait' = [wait EXCEPT ![c] = "answered"]
    ELSE UNCHANGED <<reply, wait>>

Serve(p, kind) ==
    /\ inbox[p] # <<>>
    /\ Head(inbox[p]).kind = kind
    /\ inbox' = [inbox EXCEPT ![p] = Tail(@)]
    /\ UNCHANGED <<pc, part, tx, limit, total, acc, historyVars>>

HandleAdd(p) ==
    /\ Serve(p, "add")
    /\ log' = [log EXCEPT ![p] = Append(@, Head(inbox[p]).tx)]
    /\ transactions' = [transactions EXCEPT ![p] = @ \cup {Len(log[p]) + 1}]
    /\ UNCHANGED <<reply, wait>>

\* Mutant: the transactions not selected are not put back.
HandleTakeDropsRest(p) ==
    LET cmd == Head(inbox[p])
        selected == SelectForBlock(p, cmd.max)
    IN  /\ Serve(p, "take")
        /\ transactions' = [transactions EXCEPT ![p] = {}]
        /\ Respond(cmd.client, 0, {p} \X selected)
        /\ UNCHANGED log

\* Mutant: the selected transactions are cloned, not moved.
HandleTakeClones(p) ==
    LET cmd == Head(inbox[p])
        selected == SelectForBlock(p, cmd.max)
    IN  /\ Serve(p, "take")
        /\ transactions' = [transactions EXCEPT ![p] = @]
        /\ Respond(cmd.client, 0, {p} \X selected)
        /\ UNCHANGED log

\* Mutant: the sender's count compared with > instead of >=.
HandleTakeOverCap(p) ==
    LET cmd == Head(inbox[p])
        eligible == EligibleOverCap(p)
        selected == {i \in eligible : Cardinality({j \in eligible : j <= i}) <= cmd.max}
    IN  /\ Serve(p, "take")
        /\ transactions' = [transactions EXCEPT ![p] = @ \ selected]
        /\ Respond(cmd.client, 0, {p} \X selected)
        /\ UNCHANGED log

\* Mutant: the Vec scanned from its tail.
HandleTakeNewest(p) ==
    LET cmd == Head(inbox[p])
        eligible == EligibleNewest(p)
        selected == {i \in eligible : Cardinality({j \in eligible : j >= i}) <= cmd.max}
    IN  /\ Serve(p, "take")
        /\ transactions' = [transactions EXCEPT ![p] = @ \ selected]
        /\ Respond(cmd.client, 0, {p} \X selected)
        /\ UNCHANGED log

\* Mutant: a take waits in the channel until there is something to take.
HandleTakeWaits(p) ==
    LET cmd == Head(inbox[p])
        selected == SelectForBlock(p, cmd.max)
    IN  \/ /\ Serve(p, "take")
           /\ selected # {}
           /\ transactions' = [transactions EXCEPT ![p] = @ \ selected]
           /\ Respond(cmd.client, 0, {p} \X selected)
           /\ UNCHANGED log
        \/ /\ inbox[p] # <<>>
           /\ cmd.kind = "take"
           /\ selected = {}
           /\ UNCHANGED vars

HandleTake(p) ==
    LET cmd == Head(inbox[p])
        selected == SelectForBlock(p, cmd.max)
    IN  /\ Serve(p, "take")
        /\ transactions' = [transactions EXCEPT ![p] = @ \ selected]
        /\ Respond(cmd.client, 0, {p} \X selected)
        /\ UNCHANGED log

HandleLen(p) ==
    /\ Serve(p, "len")
    /\ Respond(Head(inbox[p]).client, Cardinality(transactions[p]), {})
    /\ UNCHANGED <<log, transactions>>

HandlePending(p) ==
    /\ Serve(p, "pending")
    /\ Respond(Head(inbox[p]).client, 0, {p} \X transactions[p])
    /\ UNCHANGED <<log, transactions>>

-----------------------------------------------------------------------------
\* Mempool::with_partition_count: empty partitions, no call in progress.
Init ==
    /\ inbox = [p \in Partitions |-> <<>>]
    /\ log = [p \in Partitions |-> <<>>]
    /\ transactions = [p \in Partitions |-> {}]
    /\ pc = [c \in Clients |-> "idle"]
    /\ part = [c \in Clients |-> 0]
    /\ wait = [c \in Clients |-> "ready"]
    /\ reply = [c \in Clients |-> NoReply]
    /\ tx = [c \in Clients |-> NoTx]
    /\ limit = [c \in Clients |-> 0]
    /\ total = [c \in Clients |-> 0]
    /\ acc = [c \in Clients |-> {}]
    /\ blocks = {}
    /\ added = [c \in Clients |-> 0]
    /\ submitted = 0

Begin(c) ==
    \/ \E t \in Txs : BeginAdd(c, t)
    \/ BeginLen(c)
    \/ BeginPending(c)
    \/ \E max \in BlockLimits : BeginTake(c, max)

Receive(c) == ReceiveLen(c) \/ ReceivePending(c) \/ ReceiveTake(c)

Handle(p) ==
    HandleAdd(p) \/ HandleTake(p) \/ HandleLen(p) \/ HandlePending(p)

Next ==
    \/ \E c \in Clients :
           Begin(c) \/ SendAdd(c) \/ Request(c) \/ Receive(c) \/ Cancel(c)
    \/ \E p \in Partitions : Handle(p)

Spec == Init /\ [][Next]_vars

\* The runtime has one worker thread per partition and polls every task; the
\* mpsc channel hands freed slots to its waiting senders in arrival order, so
\* a sender cannot be overtaken forever.
Fairness ==
    /\ \A p \in Partitions : WF_vars(Handle(p))
    /\ \A c \in Clients :
           /\ WF_vars(Receive(c))
           /\ SF_vars(SendAdd(c) \/ Request(c))

FairSpec == Spec /\ Fairness

-----------------------------------------------------------------------------
TypeOK ==
    /\ inbox \in [Partitions -> Seq(Commands)]
    /\ \A p \in Partitions : Len(inbox[p]) <= ChannelCapacity
    /\ log \in [Partitions -> Seq(Txs)]
    /\ transactions \in [Partitions -> SUBSET (Nat \ {0})]
    /\ \A p \in Partitions : transactions[p] \subseteq 1 .. Len(log[p])
    /\ pc \in [Clients -> Loops \cup {"idle", "add"}]
    /\ part \in [Clients -> Partitions]
    /\ wait \in [Clients -> {"ready", "sent", "answered"}]
    /\ reply \in [Clients -> [len : Nat, txs : SUBSET Positions]]
    /\ tx \in [Clients -> Txs \cup {NoTx}]
    /\ limit \in [Clients -> Nat]
    /\ total \in [Clients -> Nat]
    /\ acc \in [Clients -> SUBSET Positions]
    /\ blocks \subseteq SUBSET Positions
    /\ added \in [Clients -> Nat]
    /\ submitted \in 0 .. MaxSubmissions

\* Transactions a running take_for_block has been handed: gathered from the
\* partitions it passed, or waiting in its oneshot.
InHand(c) == IF pc[c] = "take" THEN acc[c] \cup reply[c].txs ELSE {}

Held(p, i) == \E c \in Clients : <<p, i>> \in InHand(c)

InBlock(p, i) == \E b \in blocks : <<p, i>> \in b

\* No transaction pushed on a partition is ever lost: it is still in the Vec,
\* in the hands of a running take_for_block, or in a block that call returned
\* (TakeForBlock moves transactions out of the Vec through a oneshot).
NoTransactionLost ==
    \A p \in Partitions : \A i \in 1 .. Len(log[p]) :
        i \in transactions[p] \/ Held(p, i) \/ InBlock(p, i)

\* No transaction is handed out twice, whatever proposers call take_for_block
\* at the same time: Vec, running calls and returned blocks are disjoint.
NoTransactionTwice ==
    \A p \in Partitions : \A i \in 1 .. Len(log[p]) :
        /\ i \in transactions[p] => ~Held(p, i) /\ ~InBlock(p, i)
        /\ Held(p, i) => ~InBlock(p, i)
        /\ \A c, d \in Clients :
               <<p, i>> \in InHand(c) \cap InHand(d) => c = d
        /\ \A b, e \in blocks : <<p, i>> \in b \cap e => b = e

\* take_for_block counts a sender's transactions separately in every partition
\* it asks, yet no block holds more than MAX_TRANSACTIONS_PER_ADDRESS_PER_BLOCK
\* transactions of one sender.
SenderCapPerBlock ==
    \A b \in blocks : \A a \in Addresses :
        Cardinality({x \in b : SenderAt(x[1], x[2]) = a}) <= MaxPerAddress

\* A take_for_block never gathers more than its max_transactions, although
\* every partition selects on its own up to the remaining count it was sent.
TakeWithinLimit ==
    \A c \in Clients : pc[c] = "take" => Cardinality(InHand(c)) <= limit[c]

\* A sender's transactions leave the mempool in the order they were pushed:
\* none is handed out while an older one of the same sender stays behind.
SenderFifo ==
    \A p \in Partitions : \A i \in transactions[p], j \in 1 .. Len(log[p]) :
        /\ Held(p, j) \/ InBlock(p, j)
        /\ SenderAt(p, i) = SenderAt(p, j)
        => j < i

\* A command m in partition p's channel: an addition travels to its sender's
\* partition only; a TakeForBlock request always has a live receiver; a request
\* belongs to the loop and the partition its client is at, and asks for what
\* that client still needs.
CommandOk(p, m) ==
    /\ m.kind = "add" =>
           /\ m.client = NoClient
           /\ m.tx \in Txs
           /\ PartitionForAddress[From[m.tx]] = p
    /\ m.kind = "take" => m.client \in Clients
    /\ m.client \in Clients =>
           /\ wait[m.client] = "sent"
           /\ pc[m.client] \in Loops
           /\ part[m.client] = p
           /\ m.kind = KindOf(pc[m.client])
           /\ m.kind = "take" =>
                  m.max = limit[m.client] - Cardinality(acc[m.client])

ClientOk(c) ==
    /\ wait[c] # "answered" => reply[c] = NoReply
    /\ pc[c] \notin Loops => wait[c] = "ready"
    /\ pc[c] = "add" => tx[c] \in Txs
    /\ pc[c] \in {"take_empty", "take"} => limit[c] > 0

\* The request protocol behind the loops over the partitions: every command in
\* a channel is as CommandOk says, no client has two requests under way, and a
\* oneshot is filled only for the request its client waits for.
RequestProtocol ==
    /\ \A p \in Partitions : \A i \in 1 .. Len(inbox[p]) :
           CommandOk(p, inbox[p][i])
    /\ \A p \in Partitions : \A i, j \in 1 .. Len(inbox[p]) :
           inbox[p][i].client = inbox[p][j].client /\ inbox[p][i].client \in Clients
               => i = j
    /\ \A c \in Clients : ClientOk(c)

TakenCount == Cardinality((UNION blocks) \cup UNION {InHand(c) : c \in Clients})

\* mempool_size as send_transaction reports it: a caller whose additions
\* returned, and that then runs len_async, is told of a mempool that holds
\* them, but for what take_for_block took out meanwhile.  The additions may
\* still be queued in the channels when len_async starts.
LenSeesOwnAdds ==
    \A c \in Clients :
        pc[c] = "len" /\ wait[c] = "answered" /\ LastPartition(c)
            => total[c] + reply[c].len + TakenCount >= added[c]

\* Every call of an operation returns: backpressure on full channels, requests
\* of dropped futures and concurrent takers never leave a caller waiting.
EveryCallReturns ==
    \A c \in Clients : pc[c] # "idle" ~> pc[c] = "idle"

=============================================================================
