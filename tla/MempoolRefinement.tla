------------------------- MODULE MempoolRefinement -------------------------
(***************************************************************************)
(* The partitioned mempool implements one FIFO queue per sender.           *)
(***************************************************************************)
EXTENDS Mempool

\* The elements of a finite set of numbers, smallest first.
Ascending(S) ==
    [k \in 1 .. Cardinality(S) |->
        CHOOSE i \in S : Cardinality({j \in S : j <= i}) = k]

\* The elements of s at the positions S, in order.
ElementsAt(s, S) == [k \in 1 .. Cardinality(S) |-> s[Ascending(S)[k]]]

OfSender(p, S, a) == {i \in S : SenderAt(p, i) = a}

\* The transactions of sender a at the positions S of partition p's log.
TxsAt(p, S, a) == ElementsAt(log[p], OfSender(p, S, a))

\* The places of sender a's additions in partition p's channel.
AddsOf(p, a) ==
    {i \in 1 .. Len(inbox[p]) : inbox[p][i].kind = "add" /\ From[inbox[p][i].tx] = a}

\* The transactions of sender a in partition p's channel.
Queued(p, a) ==
    ElementsAt([i \in 1 .. Len(inbox[p]) |-> inbox[p][i].tx], AddsOf(p, a))

PendingOf(a) ==
    LET p == PartitionForAddress[a]
    IN  TxsAt(p, transactions[p], a) \o Queued(p, a)

HandedOut(a) ==
    LET p == PartitionForAddress[a]
    IN  TxsAt(p, (1 .. Len(log[p])) \ transactions[p], a)

SQ == INSTANCE SenderQueues WITH
    queue <- [a \in Addresses |-> PendingOf(a)],
    out <- [a \in Addresses |-> HandedOut(a)],
    accepted <- added

\* The mempool behaves as one FIFO queue per sender: an acknowledged addition
\* joins the end of its sender's queue at once although it still travels
\* through a channel, and a TakeForBlock command takes a bounded prefix of
\* the queues of its partition.
ImplementsSenderQueues == SQ!Spec

=============================================================================
