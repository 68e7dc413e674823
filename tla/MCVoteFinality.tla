--------------------------- MODULE MCVoteFinality ---------------------------
(* Model-checking instances of VoteFinality. *)
EXTENDS ValidatorRewards, TLC

CONSTANTS h1, h2, h3, byz, a1, b1, c2, ka, kb

\* Honest validators with stakes of 3, 2 and 1 and a Byzantine one with 3: a
\* third of the stake exactly, and honest stake that splits into halves, the
\* boundary of the strict two thirds rule.
MCOwner == [u \in 1 .. 9 |->
    IF u <= 3 THEN h1 ELSE IF u <= 5 THEN h2 ELSE IF u = 6 THEN h3 ELSE byz]

\* Two blocks compete at height 1, one follows at height 2.
MCHeightOf == [b \in {a1, b1, c2} |-> IF b = c2 THEN 2 ELSE 1]

MCBallots == {<<a1, TRUE>>, <<a1, FALSE>>, <<b1, TRUE>>, <<c2, TRUE>>}

MCUnits == 1 .. 9
MCOrder == <<h2, byz, h1, h3>>
MCBlockOf == [k \in {ka, kb} |-> IF k = ka THEN a1 ELSE b1]
=============================================================================
