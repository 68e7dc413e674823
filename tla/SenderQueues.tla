---------------------------- MODULE SenderQueues ----------------------------
(***************************************************************************)
(* What the partitioned mempool promises, free of partitions, channels and *)
(* commands: one FIFO queue per sender.  A submission joins its sender's   *)
(* queue; serving a block proposer removes, in one step for each partition *)
(* asked, a prefix of some queues, at most MaxPerAddress transactions of a *)
(* sender and in all no more than the block of some proposer may have.     *)
(***************************************************************************)
EXTENDS Naturals, Sequences, FiniteSets

CONSTANTS Clients, Addresses, Txs, From, MaxPerAddress, BlockLimits

VARIABLES
    queue,    \* queue[a]: pending transactions of sender a, oldest first
    out,      \* out[a]: transactions of sender a handed out, in order
    accepted  \* accepted[c]: number of submissions acknowledged to caller c

Init ==
    /\ queue = [a \in Addresses |-> <<>>]
    /\ out = [a \in Addresses |-> <<>>]
    /\ accepted = [c \in Clients |-> 0]

Submit(c, t) ==
    /\ queue' = [queue EXCEPT ![From[t]] = Append(@, t)]
    /\ accepted' = [accepted EXCEPT ![c] = @ + 1]
    /\ UNCHANGED out

\* n[a] transactions of each sender a, one by one
Handed(n) == UNION {{a} \X (1 .. n[a]) : a \in Addresses}

\* n[a] transactions of each sender a are handed out
HandOut(n, max) ==
    /\ \A a \in Addresses : n[a] <= Len(queue[a])
    /\ Cardinality(Handed(n)) <= max
    /\ queue' = [a \in Addresses |-> SubSeq(queue[a], n[a] + 1, Len(queue[a]))]
    /\ out' = [a \in Addresses |-> out[a] \o SubSeq(queue[a], 1, n[a])]
    /\ UNCHANGED accepted

Next ==
    \/ \E c \in Clients, t \in Txs : Submit(c, t)
    \/ \E max \in BlockLimits, n \in [Addresses -> 0 .. MaxPerAddress] : HandOut(n, max)

Spec == Init /\ [][Next]_<<queue, out, accepted>>

=============================================================================
