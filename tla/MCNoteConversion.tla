-------------------------- MODULE MCNoteConversion --------------------------
(* Model-checking instance of NoteConversion with the rules of ZkTransfer. *)
EXTENDS ZkTransfer

CONSTANTS alice, bob, k1, b1, b2, v1, v2

MCSupply == [a \in Accounts |-> IF a = alice THEN 3 ELSE 2]

Output(value) == [value |-> value, key |-> PublicKey(k1), blinding |-> b1]

\* No output, good ones, one with value zero and two that make the sums wrap.
MCOutputLists ==
    {<< >>, <<Output(1)>>, <<Output(1), Output(1)>>, <<Output(1), Output(0)>>,
     <<Output(7)>>, <<Output(7), Output(2)>>}
=============================================================================
