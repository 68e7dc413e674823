---------------------------- MODULE MempoolScan ----------------------------
(***************************************************************************)
(* The selection loop of the TakeForBlock command, step by step, against   *)
(* the closed form SelectForBlock that module Mempool uses for it.         *)
(***************************************************************************)
EXTENDS Mempool

\* for transaction in take(&mut transactions): skip when the block is full or
\* the sender's count reached the cap, otherwise count and select.
ScanLoop(p, max) ==
    LET start == [selected |-> {}, count |-> [a \in Addresses |-> 0]]
        scan[i \in 0 .. Len(log[p])] ==
            IF i = 0 THEN start
            ELSE LET s == scan[i - 1]
                     a == SenderAt(p, i)
                 IN  IF \/ i \notin transactions[p]
                        \/ Cardinality(s.selected) = max
                        \/ s.count[a] >= MaxPerAddress
                     THEN s
                     ELSE [selected |-> s.selected \cup {i},
                           count |-> [s.count EXCEPT ![a] = @ + 1]]
    IN  scan[Len(log[p])].selected

\* The closed form selects exactly what the loop of the TakeForBlock arm
\* selects, on full partitions and on what earlier takes left behind.
LoopSelectsClosedForm ==
    \A p \in Partitions : \A max \in 0 .. MaxSubmissions :
        ScanLoop(p, max) = SelectForBlock(p, max)

=============================================================================
