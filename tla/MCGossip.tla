------------------------------ MODULE MCGossip ------------------------------
(* Model-checking instance of Gossip: flood, one node and four messages of     *)
(* other peers, with words of two bits so that the nonces of flood reach the   *)
(* largest word.                                                               *)
EXTENDS Gossip

CONSTANTS vote, tx, badtx, text

MCMessageKind ==
    [m \in PeerMessages |->
        IF m = vote THEN "Vote" ELSE IF m = text THEN "raw" ELSE "NewTransaction"]
MCDecodes == [m \in PeerMessages |-> m # badtx]
=============================================================================
