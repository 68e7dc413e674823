----------------------------- MODULE MCMempool -----------------------------
(* Model-checking instances of Mempool. *)
EXTENDS MempoolRefinement, MempoolScan, TLC

CONSTANTS c1, c2, t1, t2, t3, t4

\* Bytes of the addresses "a", "b" and "c": with two partitions "b" is served
\* by partition 0, "a" and "c" by partition 1.
AddrA == <<97>>
AddrB == <<98>>
AddrC == <<99>>

MCAddresses == {AddrA, AddrB, AddrC}

MCFrom ==
    [t \in Txs |-> IF t = t1 THEN AddrB ELSE IF t = t3 THEN AddrC ELSE AddrA]

H == INSTANCE AddressHash WITH WordSize <- 65536

MCPartitionForAddress ==
    [a \in MCAddresses |-> H!partition_for_address(a, PartitionCount)]

MCClients == {c1, c2}
MCTxs == {t1, t2, t3}
Symmetry == Permutations(MCClients)
=============================================================================
