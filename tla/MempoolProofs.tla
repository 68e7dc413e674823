--------------------------- MODULE MempoolProofs ---------------------------
EXTENDS MempoolScan, MempoolRefinement, FiniteSetTheorems, SequenceTheorems, TLAPS

(***************************************************************************)
(* Finite sets of naturals.                                                *)
(***************************************************************************)

\* A non-empty bounded set of naturals has a largest element.
LEMMA LargestElement ==
    ASSUME NEW T \in SUBSET Nat, T # {}, NEW n \in Nat, \A t \in T : t <= n
    PROVE  \E m \in T : \A t \in T : t <= m
<1> DEFINE D == {n - t : t \in T}
           R == OpToRel(<, Nat)
<1>1. D \subseteq Nat /\ D # {}
  <2>1. \A t \in T : n - t \in Nat
    OBVIOUS
  <2>2. PICK t \in T : TRUE
    OBVIOUS
  <2>3. n - t \in D
    OBVIOUS
  <2>. QED  BY <2>1, <2>3
<1>2. PICK d \in D : \A e \in D : ~(<<e, d>> \in R)
  <2>. HIDE DEF D
  <2>. QED  BY <1>1, NatLessThanWellFounded, WFMin
<1>3. \A e \in D : d <= e
  <2>. HIDE DEF D, R
  <2>. TAKE e \in D
  <2>1. d \in Nat /\ e \in Nat /\ <<e, d>> \notin R
    BY <1>1, <1>2
  <2>2. ~(e < d)
    BY <2>1 DEF R, OpToRel
  <2>. QED  BY <2>1, <2>2
<1>4. PICK m \in T : d = n - m
  BY <1>2
<1>5. \A t \in T : t <= m
  <2>. TAKE t \in T
  <2>1. n - t \in D
    OBVIOUS
  <2>2. d <= n - t
    BY <1>3, <2>1
  <2>. QED  BY <1>4, <2>2
<1>. QED  BY <1>5

\* Of a finite set of naturals at most k elements have k or fewer elements of
\* the set at or below them.
LEMMA FirstElements ==
    ASSUME NEW S \in SUBSET Nat, IsFiniteSet(S), NEW k \in Nat,
           NEW n \in Nat, \A s \in S : s <= n
    PROVE  Cardinality({i \in S : Cardinality({j \in S : j <= i}) <= k}) <= k
<1> DEFINE T == {i \in S : Cardinality({j \in S : j <= i}) <= k}
<1>1. CASE T = {}
  <2>1. Cardinality(T) = 0
    BY <1>1, FS_EmptySet
  <2>. QED  BY <2>1
<1>2. CASE T # {}
  <2>1. PICK m \in T : \A t \in T : t <= m
    <3>1. T \in SUBSET Nat /\ \A t \in T : t <= n
      OBVIOUS
    <3>. HIDE DEF T
    <3>. QED  BY <1>2, <3>1, LargestElement
  <2> DEFINE U == {j \in S : j <= m}
  <2>2. Cardinality(U) <= k
    BY <2>1
  <2>3. T \in SUBSET U
    BY <2>1
  <2>4. IsFiniteSet(U)
    BY FS_Subset
  <2>5. Cardinality(T) <= Cardinality(U) /\ Cardinality(T) \in Nat
    <3>. HIDE DEF T, U
    <3>. QED  BY <2>3, <2>4, FS_Subset, FS_CardinalityType
  <2>6. Cardinality(U) \in Nat
    BY <2>4, FS_CardinalityType
  <2>. HIDE DEF T, U
  <2>7. Cardinality(T) <= k
    BY <2>2, <2>5, <2>6
  <2>. QED  BY <2>7 DEF T
<1>. QED  BY <1>1, <1>2

(***************************************************************************)
(* What the TakeForBlock selection returns.                                *)
(***************************************************************************)

\* The selection is part of the Vec, respects max and the sender cap, and
\* never passes over an older transaction of a sender it selects from.
LEMMA SelectionFacts ==
    ASSUME NEW p \in Partitions, NEW n \in Nat, NEW max \in Nat,
           transactions[p] \subseteq 1 .. n
    PROVE  /\ SelectForBlock(p, max) \subseteq transactions[p]
           /\ IsFiniteSet(SelectForBlock(p, max))
           /\ Cardinality(SelectForBlock(p, max)) <= max
           /\ \A a : Cardinality({i \in SelectForBlock(p, max) :
                                     SenderAt(p, i) = a}) <= MaxPerAddress
           /\ \A i \in transactions[p], j \in SelectForBlock(p, max) :
                  SenderAt(p, i) = SenderAt(p, j) /\ i <= j
                      => i \in SelectForBlock(p, max)
<1> DEFINE V == transactions[p]
           E == Eligible(p)
           Sel == SelectForBlock(p, max)
<1>1. V \in SUBSET Nat /\ IsFiniteSet(V)
  <2>1. IsFiniteSet(1 .. n)
    BY FS_Interval
  <2>2. V \in SUBSET (1 .. n)
    OBVIOUS
  <2>. QED  BY <2>1, <2>2, FS_Subset
<1>2. E \in SUBSET V
  BY DEF Eligible
<1>3. Sel \in SUBSET E
  BY DEF SelectForBlock
<1>4. IsFiniteSet(E) /\ IsFiniteSet(Sel)
  BY <1>1, <1>2, <1>3, FS_Subset
<1>5. Cardinality(Sel) <= max
  <2>1. \A s \in E : s <= n
    BY <1>2
  <2>2. E \in SUBSET Nat
    BY <1>1, <1>2
  <2>. HIDE DEF E
  <2>3. Cardinality({i \in E : Cardinality({j \in E : j <= i}) <= max}) <= max
    BY <1>4, <2>1, <2>2, FirstElements
  <2>. QED  BY <2>3 DEF SelectForBlock, E
<1>6. ASSUME NEW a
      PROVE  Cardinality({i \in Sel : SenderAt(p, i) = a}) <= MaxPerAddress
  <2> DEFINE A == {i \in V : SenderAt(p, i) = a}
             F == {i \in A : Cardinality({j \in A : j <= i}) <= MaxPerAddress}
             B == {i \in Sel : SenderAt(p, i) = a}
  <2>1. A \in SUBSET V
    OBVIOUS
  <2>2. A \in SUBSET Nat /\ IsFiniteSet(A) /\ \A s \in A : s <= n
    BY <1>1, <2>1, FS_Subset
  <2>3. Cardinality(F) <= MaxPerAddress
    <3>. HIDE DEF A
    <3>. QED  BY <2>2, FirstElements, MempoolAssumption
  <2>4. B \in SUBSET F
    <3>. SUFFICES ASSUME NEW i \in B  PROVE i \in F
      OBVIOUS
    <3>1. i \in A /\ i \in E
      BY <1>2, <1>3
    <3>2. {j \in V : j <= i /\ SenderAt(p, j) = SenderAt(p, i)}
            = {j \in A : j <= i}
      OBVIOUS
    <3>3. Cardinality({j \in V : j <= i /\ SenderAt(p, j) = SenderAt(p, i)})
            <= MaxPerAddress
      BY <3>1 DEF Eligible
    <3>. QED  BY <3>1, <3>2, <3>3
  <2>5. IsFiniteSet(F)
    <3>1. F \in SUBSET A
      OBVIOUS
    <3>. HIDE DEF A, F
    <3>. QED  BY <2>2, <3>1, FS_Subset
  <2>6. Cardinality(B) <= Cardinality(F) /\ Cardinality(B) \in Nat
          /\ Cardinality(F) \in Nat
    <3>. HIDE DEF B, F
    <3>. QED  BY <2>4, <2>5, FS_Subset, FS_CardinalityType
  <2>7. Cardinality(B) <= MaxPerAddress
    <3>. HIDE DEF B, F
    <3>. QED  BY <2>3, <2>6, MempoolAssumption
  <2>. QED  BY <2>7
<1>7. ASSUME NEW i \in V, NEW j \in Sel,
             SenderAt(p, i) = SenderAt(p, j), i <= j
      PROVE  i \in Sel
  <2> DEFINE Same(k) == {l \in V : l <= k /\ SenderAt(p, l) = SenderAt(p, k)}
             Below(k) == {l \in E : l <= k}
  <2>1. j \in E /\ j \in Nat /\ i \in Nat
    BY <1>1, <1>2, <1>3
  <2>2. Same(i) \in SUBSET Same(j) /\ Same(j) \in SUBSET V
    BY <1>1, <1>7, <2>1
  <2>3. Cardinality(Same(j)) <= MaxPerAddress
    BY <2>1 DEF Eligible
  <2>4. Cardinality(Same(i)) <= MaxPerAddress
    <3>. HIDE DEF Same, V
    <3>1. IsFiniteSet(Same(j)) /\ IsFiniteSet(Same(i))
      BY <1>1, <2>2, FS_Subset
    <3>2. Cardinality(Same(i)) <= Cardinality(Same(j))
      BY <2>2, <3>1, FS_Subset
    <3>3. Cardinality(Same(i)) \in Nat /\ Cardinality(Same(j)) \in Nat
      BY <3>1, FS_CardinalityType
    <3>. QED  BY <2>3, <3>2, <3>3, MempoolAssumption
  <2>5. i \in E
    BY <2>4 DEF Eligible
  <2>6. Below(i) \in SUBSET Below(j) /\ Below(j) \in SUBSET E
    <3>1. E \in SUBSET Nat
      BY <1>1, <1>2
    <3>2. \A l \in E : l <= i => l <= j
      <4>. HIDE DEF E, V, Sel
      <4>. TAKE l \in E
      <4>. QED  BY <1>7, <2>1, <3>1
    <3>. HIDE DEF E
    <3>. QED  BY <3>2
  <2>7. Cardinality(Below(j)) <= max
    BY DEF SelectForBlock
  <2>8. Cardinality(Below(i)) <= max
    <3>. HIDE DEF Below, E
    <3>1. IsFiniteSet(Below(j)) /\ IsFiniteSet(Below(i))
      BY <1>4, <2>6, FS_Subset
    <3>2. Cardinality(Below(i)) <= Cardinality(Below(j))
      BY <2>6, <3>1, FS_Subset
    <3>3. Cardinality(Below(i)) \in Nat /\ Cardinality(Below(j)) \in Nat
      BY <3>1, FS_CardinalityType
    <3>. QED  BY <2>7, <3>2, <3>3
  <2>. QED  BY <2>5, <2>8 DEF SelectForBlock
<1>8. Sel \subseteq V
  BY <1>2, <1>3
<1>. QED  BY <1>4, <1>5, <1>6, <1>7, <1>8

(***************************************************************************)
(* The inductive invariant: TypeOK and RequestProtocol of module Mempool   *)
(* and what the running take_for_block calls have gathered.                *)
(***************************************************************************)

\* A running take_for_block still has room, was answered within the remaining
\* count it sent, and holds transactions of the partitions it passed only.
GatherOk(c) ==
    /\ IsFiniteSet(acc[c])
    /\ Cardinality(acc[c]) < limit[c]
    /\ IsFiniteSet(reply[c].txs)
    /\ Cardinality(reply[c].txs) <= limit[c] - Cardinality(acc[c])
    /\ \A x \in acc[c] : x[1] < part[c] /\ x[2] \in 1 .. Len(log[x[1]])
    /\ \A x \in reply[c].txs :
           x[1] = part[c] /\ x[2] \in 1 .. Len(log[x[1]])

Gathering == \A c \in Clients : pc[c] = "take" => GatherOk(c)

Safe == TypeOK /\ RequestProtocol /\ Gathering

\* The steps of the specification, one case per action.
LEMMA StepCases ==
    ASSUME [Next]_vars
    PROVE  \/ \E c \in Clients :
                  \/ \E t \in Txs : BeginAdd(c, t)
                  \/ SendAdd(c)
                  \/ BeginLen(c)
                  \/ BeginPending(c)
                  \/ \E max \in BlockLimits : BeginTake(c, max)
                  \/ Request(c)
                  \/ ReceiveLen(c)
                  \/ ReceivePending(c)
                  \/ ReceiveTake(c)
                  \/ Cancel(c)
           \/ \E p \in Partitions :
                  HandleAdd(p) \/ HandleTake(p) \/ HandleLen(p) \/ HandlePending(p)
           \/ UNCHANGED vars
BY DEF Next, Begin, Receive, Handle

LEMMA InitSafe == Init => Safe
<1>. SUFFICES ASSUME Init PROVE Safe
  OBVIOUS
<1>. USE MempoolAssumption DEF Init, Partitions, NoReply, Loops, LenLoops, Positions
<1>1. TypeOK
  BY DEF TypeOK
<1>2. RequestProtocol
  BY DEF RequestProtocol, CommandOk, ClientOk
<1>3. Gathering
  BY DEF Gathering
<1>. QED  BY <1>1, <1>2, <1>3 DEF Safe

\* The head of a non-empty channel and the channel without it.
LEMMA ChannelHead ==
    ASSUME TypeOK, NEW p \in Partitions, inbox[p] # <<>>
    PROVE  /\ Len(inbox[p]) \in Nat \ {0}
           /\ Head(inbox[p]) = inbox[p][1]
           /\ Head(inbox[p]) \in Commands
           /\ Tail(inbox[p]) \in Seq(Commands)
           /\ Len(Tail(inbox[p])) = Len(inbox[p]) - 1
           /\ \A i \in 1 .. Len(Tail(inbox[p])) :
                  Tail(inbox[p])[i] = inbox[p][i + 1]
<1>1. inbox[p] \in Seq(Commands)
  BY DEF TypeOK
<1>. QED  BY <1>1, HeadTailProperties, LenProperties, EmptySeq

LEMMA VecFinite ==
    ASSUME TypeOK, NEW p \in Partitions
    PROVE  /\ Len(log[p]) \in Nat
           /\ transactions[p] \subseteq 1 .. Len(log[p])
           /\ IsFiniteSet(transactions[p])
           /\ Cardinality(transactions[p]) \in Nat
<1>1. Len(log[p]) \in Nat
  BY LenProperties DEF TypeOK
<1>2. transactions[p] \in SUBSET (1 .. Len(log[p]))
  BY DEF TypeOK
<1>3. IsFiniteSet(1 .. Len(log[p]))
  BY <1>1, FS_Interval
<1>. QED  BY <1>1, <1>2, <1>3, FS_Subset, FS_CardinalityType

\* Entering a loop and returning from a call keep the client's state typed.
LEMMA EnterReturnType ==
    ASSUME TypeOK, NEW c \in Clients, NEW loop \in Loops,
           Enter(c, loop) \/ Return(c)
    PROVE  /\ pc' \in [Clients -> Loops \cup {"idle", "add"}]
           /\ part' \in [Clients -> Partitions]
           /\ total' \in [Clients -> Nat]
           /\ acc' \in [Clients -> SUBSET Positions]
<1>1. 0 \in Partitions
  BY MempoolAssumption DEF Partitions
<1>2. CASE Enter(c, loop)
  BY <1>1, <1>2 DEF Enter, TypeOK
<1>3. CASE Return(c)
  BY <1>1, <1>3 DEF Return, TypeOK
<1>. QED  BY <1>2, <1>3

LEMMA TypeStep ==
    ASSUME Safe, [Next]_vars
    PROVE  TypeOK'
<1>. USE MempoolAssumption DEF Safe, partitionVars, clientVars, historyVars
<1>0. {"len", "pending_len", "take_len", "take_empty", "pending", "take"} \subseteq Loops
  BY DEF Loops, LenLoops
<1>1. ASSUME NEW c \in Clients, NEW t \in Txs, BeginAdd(c, t)  PROVE TypeOK'
  BY <1>1 DEF BeginAdd, TypeOK
<1>2. ASSUME NEW c \in Clients, SendAdd(c)  PROVE TypeOK'
  <2>1. tx[c] \in Txs
    BY <1>2 DEF SendAdd, RequestProtocol, ClientOk
  <2>2. AddPartition(c) \in Partitions
    BY <2>1 DEF AddPartition
  <2> DEFINE m == [kind |-> "add", tx |-> tx[c], client |-> NoClient, max |-> 0]
             p == AddPartition(c)
  <2>3. m \in Commands
    BY <2>1 DEF Commands
  <2>4. /\ Append(inbox[p], m) \in Seq(Commands)
        /\ Len(Append(inbox[p], m)) = Len(inbox[p]) + 1
    BY <2>2, <2>3, AppendProperties DEF TypeOK
  <2>5. Len(inbox[p]) \in Nat
    BY <2>2, LenProperties DEF TypeOK
  <2>. HIDE DEF m, p
  <2>6. inbox' = [inbox EXCEPT ![p] = Append(inbox[p], m)] /\ Len(inbox[p]) < ChannelCapacity
    BY <1>2 DEF SendAdd, m, p
  <2>7. /\ inbox' \in [Partitions -> Seq(Commands)]
        /\ \A q \in Partitions : Len(inbox'[q]) <= ChannelCapacity
    <3>1. \A q \in Partitions :
              inbox'[q] = IF q = p THEN Append(inbox[p], m) ELSE inbox[q]
      BY <2>6 DEF TypeOK
    <3>2. \A q \in Partitions : inbox'[q] \in Seq(Commands)
      BY <2>4, <3>1 DEF TypeOK
    <3>3. \A q \in Partitions : Len(inbox'[q]) <= ChannelCapacity
      BY <2>4, <2>5, <2>6, <3>1 DEF TypeOK
    <3>. QED  BY <2>6, <3>2, <3>3 DEF TypeOK
  <2>8. /\ pc' \in [Clients -> Loops \cup {"idle", "add"}]
        /\ tx' \in [Clients -> Txs \cup {NoTx}]
        /\ added' \in [Clients -> Nat]
        /\ UNCHANGED <<log, transactions, part, wait, reply, limit, total, acc, blocks, submitted>>
    BY <1>2 DEF SendAdd, TypeOK
  <2>. QED  BY <2>7, <2>8 DEF TypeOK
<1>3. ASSUME NEW c \in Clients, BeginLen(c)  PROVE TypeOK'
  BY <1>3, <1>0, EnterReturnType DEF BeginLen, TypeOK
<1>4. ASSUME NEW c \in Clients, BeginPending(c)  PROVE TypeOK'
  BY <1>4, <1>0, EnterReturnType DEF BeginPending, TypeOK
<1>5. ASSUME NEW c \in Clients, NEW max \in BlockLimits, BeginTake(c, max)  PROVE TypeOK'
  BY <1>5, <1>0, EnterReturnType DEF BeginTake, TypeOK
<1>6. ASSUME NEW c \in Clients, Request(c)  PROVE TypeOK'
  <2> DEFINE n == IF pc[c] = "take" THEN limit[c] - Cardinality(acc[c]) ELSE 0
             m == [kind |-> KindOf(pc[c]), tx |-> NoTx, client |-> c, max |-> n]
             p == part[c]
  <2>1. n \in Nat
    <3>1. CASE pc[c] = "take"
      <4>1. Cardinality(acc[c]) \in Nat /\ Cardinality(acc[c]) < limit[c]
        BY <3>1, FS_CardinalityType DEF Gathering, GatherOk
      <4>. QED  BY <3>1, <4>1 DEF TypeOK
    <3>. QED  BY <3>1
  <2>2. KindOf(pc[c]) \in {"add", "take", "len", "pending"}
    BY <1>6 DEF Request, KindOf, Loops
  <2>3. m \in Commands
    <3>. HIDE DEF n
    <3>. QED  BY <2>1, <2>2 DEF Commands
  <2>4. p \in Partitions
    BY DEF TypeOK
  <2>5. /\ Append(inbox[p], m) \in Seq(Commands)
        /\ Len(Append(inbox[p], m)) = Len(inbox[p]) + 1
        /\ Len(inbox[p]) \in Nat
    <3>. HIDE DEF m
    <3>. QED  BY <2>3, <2>4, AppendProperties, LenProperties DEF TypeOK
  <2>6. inbox' = [inbox EXCEPT ![p] = Append(inbox[p], m)] /\ Len(inbox[p]) < ChannelCapacity
    BY <1>6 DEF Request
  <2>7. /\ inbox' \in [Partitions -> Seq(Commands)]
        /\ \A q \in Partitions : Len(inbox'[q]) <= ChannelCapacity
    <3>. HIDE DEF m, p
    <3>. QED  BY <2>4, <2>5, <2>6 DEF TypeOK
  <2>. QED  BY <1>6, <2>7 DEF Request, TypeOK
<1>7. ASSUME NEW c \in Clients, ReceiveLen(c)  PROVE TypeOK'
  <2>1. /\ UNCHANGED <<partitionVars, tx, historyVars>>
        /\ wait' = [wait EXCEPT ![c] = "ready"]
        /\ reply' = [reply EXCEPT ![c] = NoReply]
    BY <1>7 DEF ReceiveLen, Consume
  <2>2. /\ pc' \in [Clients -> Loops \cup {"idle", "add"}]
        /\ part' \in [Clients -> Partitions]
        /\ total' \in [Clients -> Nat]
        /\ limit' \in [Clients -> Nat]
        /\ acc' \in [Clients -> SUBSET Positions]
    <3>1. CASE LastPartition(c)
      <4>1. AfterLen(c, total[c] + reply[c].len)
        BY <1>7, <3>1 DEF ReceiveLen
      <4>2. limit' = limit \/ limit' = [limit EXCEPT ![c] = 0]
        BY <4>1 DEF AfterLen, Return
      <4>3. \E loop \in Loops : Enter(c, loop) \/ Return(c)
        BY <1>0, <4>1 DEF AfterLen
      <4>4. limit' \in [Clients -> Nat]
        <5>1. limit \in [Clients -> Nat]
          BY DEF TypeOK
        <5>. QED  BY <4>2, <5>1
      <4>. QED  BY <4>3, <4>4, EnterReturnType
    <3>2. CASE ~LastPartition(c)
      <4>1. /\ total' = [total EXCEPT ![c] = total[c] + reply[c].len]
            /\ part' = [part EXCEPT ![c] = part[c] + 1]
            /\ UNCHANGED <<pc, acc, limit>>
        BY <1>7, <3>2 DEF ReceiveLen
      <4>2. part[c] + 1 \in Partitions
        BY <3>2 DEF LastPartition, TypeOK, Partitions
      <4>3. total[c] + reply[c].len \in Nat
        BY DEF TypeOK
      <4>. QED  BY <4>1, <4>2, <4>3 DEF TypeOK
    <3>. QED  BY <3>1, <3>2
  <2>. QED  BY <2>1, <2>2 DEF TypeOK, NoReply
<1>8. ASSUME NEW c \in Clients, ReceivePending(c)  PROVE TypeOK'
  <2>1. /\ UNCHANGED <<partitionVars, tx, historyVars>>
        /\ wait' = [wait EXCEPT ![c] = "ready"]
        /\ reply' = [reply EXCEPT ![c] = NoReply]
    BY <1>8 DEF ReceivePending, Consume
  <2>2. /\ pc' \in [Clients -> Loops \cup {"idle", "add"}]
        /\ part' \in [Clients -> Partitions]
        /\ total' \in [Clients -> Nat]
        /\ limit' \in [Clients -> Nat]
        /\ acc' \in [Clients -> SUBSET Positions]
    <3>1. CASE LastPartition(c)
      <4>1. Return(c) /\ limit' = [limit EXCEPT ![c] = 0]
        BY <1>8, <3>1 DEF ReceivePending, Return
      <4>. QED  BY <1>0, <4>1, EnterReturnType DEF TypeOK
    <3>2. CASE ~LastPartition(c)
      <4>1. /\ acc' = [acc EXCEPT ![c] = acc[c] \cup reply[c].txs]
            /\ part' = [part EXCEPT ![c] = part[c] + 1]
            /\ UNCHANGED <<pc, total, limit>>
        BY <1>8, <3>2 DEF ReceivePending
      <4>2. part[c] + 1 \in Partitions
        BY <3>2 DEF LastPartition, TypeOK, Partitions
      <4>. QED  BY <4>1, <4>2 DEF TypeOK
    <3>. QED  BY <3>1, <3>2
  <2>. QED  BY <2>1, <2>2 DEF TypeOK, NoReply
<1>9. ASSUME NEW c \in Clients, ReceiveTake(c)  PROVE TypeOK'
  <2>1. /\ UNCHANGED <<partitionVars, tx, added, submitted>>
        /\ wait' = [wait EXCEPT ![c] = "ready"]
        /\ reply' = [reply EXCEPT ![c] = NoReply]
    BY <1>9 DEF ReceiveTake, Consume
  <2> DEFINE s == acc[c] \cup reply[c].txs
  <2>2. s \in SUBSET Positions
    BY DEF TypeOK
  <2>3. /\ pc' \in [Clients -> Loops \cup {"idle", "add"}]
        /\ part' \in [Clients -> Partitions]
        /\ total' \in [Clients -> Nat]
        /\ limit' \in [Clients -> Nat]
        /\ acc' \in [Clients -> SUBSET Positions]
        /\ blocks' \subseteq SUBSET Positions
    <3>1. CASE LastPartition(c) \/ Cardinality(s) = limit[c]
      <4>1. Return(c) /\ blocks' \subseteq blocks \cup {s} /\ limit' = [limit EXCEPT ![c] = 0]
        BY <1>9, <3>1 DEF ReceiveTake, Return
      <4>2. blocks' \subseteq SUBSET Positions
        BY <2>2, <4>1 DEF TypeOK
      <4>. QED  BY <1>0, <4>1, <4>2, EnterReturnType DEF TypeOK
    <3>2. CASE ~(LastPartition(c) \/ Cardinality(s) = limit[c])
      <4>1. /\ acc' = [acc EXCEPT ![c] = s]
            /\ part' = [part EXCEPT ![c] = part[c] + 1]
            /\ UNCHANGED <<pc, total, limit, blocks>>
        BY <1>9, <3>2 DEF ReceiveTake
      <4>2. part[c] + 1 \in Partitions
        BY <3>2 DEF LastPartition, TypeOK, Partitions
      <4>. HIDE DEF s
      <4>. QED  BY <2>2, <4>1, <4>2 DEF TypeOK
    <3>. QED  BY <3>1, <3>2
  <2>. QED  BY <2>1, <2>3 DEF TypeOK, NoReply
<1>10. ASSUME NEW c \in Clients, Cancel(c)  PROVE TypeOK'
  <2>1. ASSUME NEW p \in Partitions
        PROVE  inbox'[p] \in Seq(Commands) /\ Len(inbox'[p]) = Len(inbox[p])
    <3>1. inbox[p] \in Seq(Commands) /\ Len(inbox[p]) \in Nat /\ DOMAIN inbox[p] = 1 .. Len(inbox[p])
      BY LenProperties DEF TypeOK
    <3>2. inbox'[p] = [i \in 1 .. Len(inbox[p]) |-> Orphan(inbox[p][i], c)]
      BY <1>10, <3>1 DEF Cancel
    <3>3. \A i \in 1 .. Len(inbox[p]) : Orphan(inbox[p][i], c) \in Commands
      <4>. TAKE i \in 1 .. Len(inbox[p])
      <4>1. inbox[p][i] \in Commands
        BY <3>1, ElementOfSeq
      <4>. QED  BY <4>1 DEF Orphan, Commands
    <3>. QED  BY <3>1, <3>2, <3>3
  <2>2. inbox' \in [Partitions -> Seq(Commands)]
    BY <1>10, <2>1 DEF Cancel
  <2>3. \A p \in Partitions : Len(inbox'[p]) <= ChannelCapacity
    BY <2>1 DEF TypeOK
  <2>4. /\ pc' \in [Clients -> Loops \cup {"idle", "add"}]
        /\ part' \in [Clients -> Partitions]
        /\ total' \in [Clients -> Nat]
        /\ acc' \in [Clients -> SUBSET Positions]
    BY <1>0, <1>10, EnterReturnType DEF Cancel
  <2>5. /\ limit' \in [Clients -> Nat]
        /\ wait' \in [Clients -> {"ready", "sent", "answered"}]
        /\ tx' \in [Clients -> Txs \cup {NoTx}]
        /\ UNCHANGED <<log, transactions, blocks, added, submitted>>
    BY <1>10 DEF Cancel, Return, TypeOK
  <2>6. reply' \in [Clients -> [len : Nat, txs : SUBSET Positions]]
    BY <1>10 DEF Cancel, TypeOK, NoReply
  <2>. QED  BY <2>2, <2>3, <2>4, <2>5, <2>6 DEF TypeOK
<1>11. ASSUME NEW p \in Partitions, NEW kind, Serve(p, kind)
       PROVE  /\ inbox' \in [Partitions -> Seq(Commands)]
              /\ \A q \in Partitions : Len(inbox'[q]) <= ChannelCapacity
              /\ UNCHANGED <<pc, part, tx, limit, total, acc, blocks, added, submitted>>
  <2>1. inbox[p] # <<>> /\ inbox' = [inbox EXCEPT ![p] = Tail(inbox[p])]
    BY <1>11 DEF Serve
  <2>2. \A q \in Partitions : inbox'[q] = IF q = p THEN Tail(inbox[p]) ELSE inbox[q]
    BY <2>1 DEF TypeOK
  <2>3. \A q \in Partitions : Len(inbox[q]) \in Nat
    BY LenProperties DEF TypeOK
  <2>4. \A q \in Partitions : Len(inbox'[q]) <= ChannelCapacity
    BY <2>1, <2>2, <2>3, ChannelHead DEF TypeOK
  <2>5. inbox' \in [Partitions -> Seq(Commands)]
    BY <2>1, <2>2, ChannelHead DEF TypeOK
  <2>. QED  BY <1>11, <2>4, <2>5 DEF Serve
<1>12. ASSUME NEW p \in Partitions, HandleAdd(p)  PROVE TypeOK'
  <2>1. Serve(p, "add") /\ inbox[p] # <<>> /\ Head(inbox[p]).kind = "add"
    BY <1>12 DEF HandleAdd, Serve
  <2>2. Head(inbox[p]).tx \in Txs
    BY <2>1, ChannelHead DEF RequestProtocol, CommandOk
  <2> DEFINE l == Append(log[p], Head(inbox[p]).tx)
  <2>3. l \in Seq(Txs) /\ Len(l) = Len(log[p]) + 1 /\ Len(log[p]) \in Nat
    BY <2>2, AppendProperties, VecFinite DEF TypeOK
  <2>4. log' = [log EXCEPT ![p] = l] /\ transactions' = [transactions EXCEPT ![p] = transactions[p] \cup {Len(log[p]) + 1}]
    BY <1>12 DEF HandleAdd
  <2>. HIDE DEF l
  <2>5. log' \in [Partitions -> Seq(Txs)]
    BY <2>3, <2>4 DEF TypeOK
  <2>6. transactions' \in [Partitions -> SUBSET (Nat \ {0})]
    BY <2>3, <2>4 DEF TypeOK
  <2>7. \A q \in Partitions : transactions'[q] \subseteq 1 .. Len(log'[q])
    BY <2>3, <2>4 DEF TypeOK
  <2>8. UNCHANGED <<reply, wait>>
    BY <1>12 DEF HandleAdd
  <2>. QED  BY <1>11, <2>1, <2>5, <2>6, <2>7, <2>8 DEF TypeOK
<1>13. ASSUME NEW c, NEW len \in Nat, NEW txs \in SUBSET Positions, Respond(c, len, txs)
       PROVE  /\ reply' \in [Clients -> [len : Nat, txs : SUBSET Positions]]
              /\ wait' \in [Clients -> {"ready", "sent", "answered"}]
  <2>1. [len |-> len, txs |-> txs] \in [len : Nat, txs : SUBSET Positions]
    OBVIOUS
  <2>2. CASE c \in Clients
    <3>1. /\ reply' = [reply EXCEPT ![c] = [len |-> len, txs |-> txs]]
          /\ wait' = [wait EXCEPT ![c] = "answered"]
      BY <1>13, <2>2 DEF Respond
    <3>. QED  BY <2>1, <3>1 DEF TypeOK
  <2>3. CASE c \notin Clients
    BY <1>13, <2>3 DEF Respond, TypeOK
  <2>. QED  BY <2>2, <2>3
<1>14. ASSUME NEW p \in Partitions, HandleTake(p)  PROVE TypeOK'
  <2> DEFINE m == Head(inbox[p])
             sel == SelectForBlock(p, m.max)
  <2>1. Serve(p, "take") /\ inbox[p] # <<>>
    BY <1>14 DEF HandleTake, Serve
  <2>2. m.max \in Nat
    BY <2>1, ChannelHead DEF Commands
  <2>3. sel \subseteq transactions[p]
    BY <2>2, VecFinite, SelectionFacts
  <2>4. {p} \X sel \in SUBSET Positions
    BY <2>3 DEF Positions, TypeOK
  <2>5. /\ transactions' = [transactions EXCEPT ![p] = transactions[p] \ sel]
        /\ Respond(m.client, 0, {p} \X sel)
        /\ UNCHANGED log
    BY <1>14 DEF HandleTake
  <2>. HIDE DEF m, sel
  <2>6. /\ transactions' \in [Partitions -> SUBSET (Nat \ {0})]
        /\ \A q \in Partitions : transactions'[q] \subseteq 1 .. Len(log'[q])
    BY <2>5 DEF TypeOK
  <2>. QED  BY <1>11, <1>13, <2>1, <2>4, <2>5, <2>6 DEF TypeOK
<1>15. ASSUME NEW p \in Partitions, HandleLen(p)  PROVE TypeOK'
  <2>1. /\ Serve(p, "len")
        /\ Respond(Head(inbox[p]).client, Cardinality(transactions[p]), {})
        /\ UNCHANGED <<log, transactions>>
    BY <1>15 DEF HandleLen
  <2>2. Cardinality(transactions[p]) \in Nat /\ {} \in SUBSET Positions
    BY VecFinite
  <2>3. /\ reply' \in [Clients -> [len : Nat, txs : SUBSET Positions]]
        /\ wait' \in [Clients -> {"ready", "sent", "answered"}]
    BY <1>13, <2>1, <2>2
  <2>. QED  BY <1>11, <2>1, <2>3 DEF TypeOK
<1>16. ASSUME NEW p \in Partitions, HandlePending(p)  PROVE TypeOK'
  <2>1. /\ Serve(p, "pending")
        /\ Respond(Head(inbox[p]).client, 0, {p} \X transactions[p])
        /\ UNCHANGED <<log, transactions>>
    BY <1>16 DEF HandlePending
  <2>2. {p} \X transactions[p] \in SUBSET Positions
    BY DEF Positions, TypeOK
  <2>. QED  BY <1>11, <1>13, <2>1, <2>2 DEF TypeOK
<1>17. ASSUME UNCHANGED vars  PROVE TypeOK'
  BY <1>17 DEF vars, TypeOK
<1>. QED  BY <1>1, <1>2, <1>3, <1>4, <1>5, <1>6, <1>7, <1>8, <1>9, <1>10, <1>12,
             <1>14, <1>15, <1>16, <1>17, StepCases

(***************************************************************************)
(* The request protocol is preserved.                                      *)
(***************************************************************************)

\* What an action of client c leaves alone: the state of the other clients
\* that the commands in the channels refer to.
OthersKept(c) ==
    \A d \in Clients : d # c =>
        /\ wait'[d] = wait[d]
        /\ pc'[d] = pc[d]
        /\ part'[d] = part[d]
        /\ limit'[d] = limit[d]
        /\ acc'[d] = acc[d]

LEMMA CommandKept ==
    ASSUME NEW c, NEW p, NEW m, CommandOk(p, m), OthersKept(c),
           m.client = c => c \notin Clients
    PROVE  CommandOk(p, m)'
BY DEF CommandOk, OthersKept

\* A client that waits for nothing has no command in the channels.
LEMMA NoCommand ==
    ASSUME Safe, NEW c \in Clients, wait[c] # "sent",
           NEW p \in Partitions, NEW i \in 1 .. Len(inbox[p])
    PROVE  inbox[p][i].client # c
BY DEF Safe, RequestProtocol, CommandOk

LEMMA SameChannels ==
    ASSUME Safe, NEW c \in Clients, wait[c] # "sent", UNCHANGED inbox,
           OthersKept(c), (\A d \in Clients : ClientOk(d))'
    PROVE  RequestProtocol'
<1>1. ASSUME NEW p \in Partitions, NEW i \in 1 .. Len(inbox[p])
      PROVE  CommandOk(p, inbox[p][i])'
  <2>1. PICK m : m = inbox[p][i]
    OBVIOUS
  <2>2. CommandOk(p, m) /\ m.client # c
    BY <2>1, NoCommand DEF Safe, RequestProtocol
  <2>3. CommandOk(p, m)'
    BY <2>2, CommandKept
  <2>. QED  BY <2>1, <2>3
<1>. QED  BY <1>1 DEF Safe, RequestProtocol

\* One more command, whose client had none, at the end of a channel.
LEMMA OneMoreCommand ==
    ASSUME Safe, NEW c \in Clients, wait[c] # "sent", NEW p \in Partitions,
           NEW m \in Commands,
           inbox' = [inbox EXCEPT ![p] = Append(inbox[p], m)],
           OthersKept(c), CommandOk(p, m)', m.client \in {c, NoClient},
           (\A d \in Clients : ClientOk(d))'
    PROVE  RequestProtocol'
<1>1. \A q \in Partitions : inbox'[q] = IF q = p THEN Append(inbox[p], m) ELSE inbox[q]
  BY DEF Safe, TypeOK
<1>2. /\ Len(inbox[p]) \in Nat
      /\ Len(Append(inbox[p], m)) = Len(inbox[p]) + 1
      /\ \A i \in 1 .. Len(inbox[p]) : Append(inbox[p], m)[i] = inbox[p][i]
      /\ Append(inbox[p], m)[Len(inbox[p]) + 1] = m
  BY AppendProperties, LenProperties DEF Safe, TypeOK
<1>3. ASSUME NEW q \in Partitions, NEW i \in 1 .. Len(inbox'[q])
      PROVE  \/ i \in 1 .. Len(inbox[q]) /\ inbox'[q][i] = inbox[q][i] /\ inbox'[q][i].client # c
             \/ q = p /\ i = Len(inbox[p]) + 1 /\ inbox'[q][i] = m
  <2>1. CASE q = p /\ i = Len(inbox[p]) + 1
    BY <1>1, <1>2, <2>1
  <2>2. CASE ~(q = p /\ i = Len(inbox[p]) + 1)
    <3>1. i \in 1 .. Len(inbox[q]) /\ inbox'[q][i] = inbox[q][i]
      BY <1>1, <1>2, <2>2
    <3>. QED  BY <3>1, NoCommand
  <2>. QED  BY <2>1, <2>2
<1>4. ASSUME NEW q \in Partitions, NEW i \in 1 .. Len(inbox'[q])
      PROVE  CommandOk(q, inbox[q][i])'
  <2>1. PICK k : k = inbox'[q][i]
    OBVIOUS
  <2>2. CASE i \in 1 .. Len(inbox[q]) /\ inbox'[q][i] = inbox[q][i] /\ inbox'[q][i].client # c
    <3>1. CommandOk(q, k) /\ k.client # c
      BY <2>1, <2>2 DEF Safe, RequestProtocol
    <3>2. CommandOk(q, k)'
      BY <3>1, CommandKept
    <3>. QED  BY <2>1, <3>2
  <2>3. CASE q = p /\ inbox'[q][i] = m
    BY <2>3
  <2>. QED  BY <1>3, <2>2, <2>3
<1>5. ASSUME NEW q \in Partitions, NEW i \in 1 .. Len(inbox'[q]), NEW j \in 1 .. Len(inbox'[q]),
             inbox'[q][i].client = inbox'[q][j].client, inbox'[q][i].client \in Clients
      PROVE  i = j
  BY <1>3, <1>5, MempoolAssumption DEF Safe, RequestProtocol
<1>. QED  BY <1>4, <1>5 DEF RequestProtocol

\* The command at the head of a channel is gone and its client, if any, no
\* longer waits.
LEMMA OneCommandLess ==
    ASSUME Safe, NEW p \in Partitions, inbox[p] # <<>>,
           inbox' = [inbox EXCEPT ![p] = Tail(inbox[p])],
           OthersKept(Head(inbox[p]).client), (\A d \in Clients : ClientOk(d))'
    PROVE  RequestProtocol'
<1>1. \A q \in Partitions : inbox'[q] = IF q = p THEN Tail(inbox[p]) ELSE inbox[q]
  BY DEF Safe, TypeOK
<1>2. PICK c : c = Head(inbox[p]).client
  OBVIOUS
<1>3. ASSUME NEW q \in Partitions, NEW i \in 1 .. Len(inbox'[q])
      PROVE  LET k == IF q = p THEN i + 1 ELSE i
             IN  /\ k \in 1 .. Len(inbox[q])
                 /\ inbox'[q][i] = inbox[q][k]
                 /\ inbox[q][k].client = c => c \notin Clients
  <2>1. CASE q = p
    <3>1. /\ i + 1 \in 2 .. Len(inbox[p])
          /\ inbox'[p][i] = inbox[p][i + 1]
          /\ Len(inbox[p]) \in Nat \ {0}
          /\ inbox[p][1].client = c
      <4>1. /\ Len(inbox[p]) \in Nat \ {0}
            /\ Head(inbox[p]) = inbox[p][1]
            /\ Len(Tail(inbox[p])) = Len(inbox[p]) - 1
            /\ \A j \in 1 .. Len(Tail(inbox[p])) : Tail(inbox[p])[j] = inbox[p][j + 1]
        BY ChannelHead DEF Safe
      <4>2. inbox'[p] = Tail(inbox[p])
        BY <1>1
      <4>3. i \in 1 .. Len(Tail(inbox[p]))
        BY <2>1, <4>2
      <4>4. i \in 1 .. (Len(inbox[p]) - 1)
        BY <4>1, <4>3
      <4>5. i + 1 \in 2 .. Len(inbox[p])
        BY <4>1, <4>4
      <4>6. Tail(inbox[p])[i] = inbox[p][i + 1]
        BY <4>1, <4>3
      <4>7. inbox[p][1].client = c
        BY <1>2, <4>1
      <4>8. inbox'[p][i] = inbox[p][i + 1]
        BY <4>2, <4>6
      <4>. QED  BY <4>1, <4>5, <4>7, <4>8
    <3>. QED  BY <2>1, <3>1 DEF Safe, RequestProtocol
  <2>2. CASE q # p
    <3>1. inbox'[q] = inbox[q]
      BY <1>1, <2>2
    <3>2. /\ Len(inbox[p]) \in Nat \ {0}
          /\ inbox[p][1].client = c
      BY <1>2, ChannelHead DEF Safe
    <3>3. c \in Clients => part[c] = p
      BY <3>2 DEF Safe, RequestProtocol, CommandOk
    <3>4. inbox[q][i].client = c /\ c \in Clients => part[c] = q
      BY <3>1 DEF Safe, RequestProtocol, CommandOk
    <3>. QED  BY <2>2, <3>1, <3>3, <3>4
  <2>. QED  BY <2>1, <2>2
<1>4. ASSUME NEW q \in Partitions, NEW i \in 1 .. Len(inbox'[q])
      PROVE  CommandOk(q, inbox[q][i])'
  <2>1. PICK m : m = inbox'[q][i]
    OBVIOUS
  <2>a. PICK k \in 1 .. Len(inbox[q]) :
            /\ m = inbox[q][k]
            /\ m.client = c => c \notin Clients
    <3> DEFINE k == IF q = p THEN i + 1 ELSE i
    <3>1. /\ k \in 1 .. Len(inbox[q])
          /\ inbox'[q][i] = inbox[q][k]
          /\ inbox[q][k].client = c => c \notin Clients
      BY <1>3
    <3> HIDE DEF k
    <3>2. m = inbox[q][k]
      BY <2>1, <3>1
    <3>. QED  BY <3>1, <3>2
  <2>2. CommandOk(q, m) /\ (m.client = c => c \notin Clients)
    BY <2>a DEF Safe, RequestProtocol
  <2>3. CommandOk(q, m)'
    BY <1>2, <2>2, CommandKept
  <2>. QED  BY <2>1, <2>3
<1>5. ASSUME NEW q \in Partitions, NEW i \in 1 .. Len(inbox'[q]), NEW j \in 1 .. Len(inbox'[q]),
             inbox'[q][i].client = inbox'[q][j].client, inbox'[q][i].client \in Clients
      PROVE  i = j
  <2> DEFINE k(n) == IF q = p THEN n + 1 ELSE n
  <2>1. k(i) \in 1 .. Len(inbox[q]) /\ inbox'[q][i] = inbox[q][k(i)]
    BY <1>3
  <2>2. k(j) \in 1 .. Len(inbox[q]) /\ inbox'[q][j] = inbox[q][k(j)]
    BY <1>3
  <2>3. k(i) = k(j)
    BY <1>5, <2>1, <2>2 DEF Safe, RequestProtocol
  <2>. QED  BY <2>1, <2>2, <2>3
<1>. QED  BY <1>4, <1>5 DEF RequestProtocol

\* A client drops its future: its requests stay, without a receiver.
LEMMA OrphanedCommands ==
    ASSUME Safe, NEW c \in Clients, Cancel(c)
    PROVE  RequestProtocol'
<1>1. \A p \in Partitions : Len(inbox[p]) \in Nat /\ DOMAIN inbox[p] = 1 .. Len(inbox[p])
                             /\ \A i \in 1 .. Len(inbox[p]) : inbox[p][i] \in Commands
  BY LenProperties, ElementOfSeq DEF Safe, TypeOK
<1>2. \A p \in Partitions : inbox'[p] = [i \in 1 .. Len(inbox[p]) |-> Orphan(inbox[p][i], c)]
  BY <1>1 DEF Cancel
<1>3. \A p \in Partitions : Len(inbox'[p]) = Len(inbox[p])
  <2>1. inbox' \in [Partitions -> Seq(Commands)]
    BY TypeStep DEF Next, TypeOK
  <2>2. \A p \in Partitions : Len(inbox'[p]) \in Nat /\ DOMAIN inbox'[p] = 1 .. Len(inbox'[p])
    BY <2>1, LenProperties
  <2>3. \A p \in Partitions : DOMAIN inbox'[p] = 1 .. Len(inbox[p])
    BY <1>2
  <2>. QED  BY <1>1, <2>2, <2>3
<1>4. OthersKept(c)
  BY DEF Cancel, Return, OthersKept, Safe, TypeOK
<1>5. ASSUME NEW p \in Partitions, NEW i \in 1 .. Len(inbox'[p])
      PROVE  /\ CommandOk(p, inbox[p][i])'
             /\ inbox'[p][i].client \in Clients => inbox'[p][i].client = inbox[p][i].client
  <2>1. PICK m : m = inbox[p][i]
    OBVIOUS
  <2>2. m \in Commands /\ CommandOk(p, m) /\ inbox'[p][i] = Orphan(m, c)
    BY <1>1, <1>2, <1>3, <2>1 DEF Safe, RequestProtocol
  <2>3. CASE m.client # c
    <3>1. CommandOk(p, m)' /\ Orphan(m, c) = m
      BY <1>4, <2>2, <2>3, CommandKept DEF Orphan
    <3>. QED  BY <2>1, <2>2, <3>1
  <2>4. CASE m.client = c
    <3>1. m.kind = "len"
      BY <2>2, <2>4 DEF CommandOk, Cancel, KindOf, Loops, LenLoops
    <3>2. /\ Orphan(m, c).client = NoClient
          /\ Orphan(m, c).kind = "len"
      BY <2>2, <2>4, <3>1 DEF Orphan, Commands
    <3>. QED  BY <2>2, <3>2, MempoolAssumption DEF CommandOk
  <2>. QED  BY <2>3, <2>4
<1>6. (\A d \in Clients : ClientOk(d))'
  BY MempoolAssumption DEF Cancel, Return, Safe, TypeOK, RequestProtocol, ClientOk, Loops, LenLoops
<1>7. \A p \in Partitions : \A i, j \in 1 .. Len(inbox'[p]) :
          inbox'[p][i].client = inbox'[p][j].client /\ inbox'[p][i].client \in Clients => i = j
  BY <1>3, <1>5 DEF Safe, RequestProtocol
<1>. QED  BY <1>5, <1>6, <1>7 DEF RequestProtocol

LEMMA RequestStep ==
    ASSUME Safe, [Next]_vars
    PROVE  RequestProtocol'
<1>. USE MempoolAssumption
<1>0. /\ "idle" \notin Loops /\ "add" \notin Loops
      /\ {"len", "pending_len", "take_len", "take_empty", "pending", "take"} \subseteq Loops
  BY DEF Loops, LenLoops
<1>a. \A d \in Clients : ClientOk(d)
  BY DEF Safe, RequestProtocol
<1>b. ASSUME NEW c \in Clients, pc[c] = "idle"  PROVE wait[c] = "ready" /\ reply[c] = NoReply
  BY <1>0, <1>a, <1>b DEF ClientOk
<1>1. ASSUME NEW c \in Clients, NEW t \in Txs, BeginAdd(c, t)  PROVE RequestProtocol'
  <2>1. OthersKept(c) /\ UNCHANGED inbox /\ wait[c] # "sent"
    BY <1>1, <1>b DEF BeginAdd, OthersKept, Safe, TypeOK, partitionVars
  <2>2. (\A d \in Clients : ClientOk(d))'
    BY <1>0, <1>1, <1>a, <1>b DEF BeginAdd, ClientOk, Safe, TypeOK
  <2>. QED  BY <2>1, <2>2, SameChannels
<1>2. ASSUME NEW c \in Clients, SendAdd(c)  PROVE RequestProtocol'
  <2>1. tx[c] \in Txs /\ wait[c] = "ready" /\ reply[c] = NoReply
    BY <1>0, <1>2, <1>a DEF SendAdd, ClientOk
  <2>2. PICK p \in Partitions : p = AddPartition(c)
    BY <2>1 DEF AddPartition
  <2>3. PICK m : m = [kind |-> "add", tx |-> tx[c], client |-> NoClient, max |-> 0]
    OBVIOUS
  <2>4. m \in Commands
    BY <2>1, <2>3 DEF Commands
  <2>5. OthersKept(c) /\ inbox' = [inbox EXCEPT ![p] = Append(inbox[p], m)]
    BY <1>2, <2>2, <2>3 DEF SendAdd, OthersKept, Safe, TypeOK
  <2>6. (\A d \in Clients : ClientOk(d))'
    BY <1>0, <1>2, <1>a, <2>1 DEF SendAdd, ClientOk, Safe, TypeOK
  <2>7. CommandOk(p, m)'
    BY <2>1, <2>2, <2>3 DEF CommandOk, AddPartition
  <2>8. m.client \in {c, NoClient} /\ wait[c] # "sent"
    BY <2>1, <2>3
  <2>. QED  BY <2>4, <2>5, <2>6, <2>7, <2>8, OneMoreCommand
<1>3. ASSUME NEW c \in Clients, BeginLen(c)  PROVE RequestProtocol'
  <2>1. OthersKept(c) /\ UNCHANGED inbox /\ wait[c] # "sent"
    BY <1>3, <1>b DEF BeginLen, Enter, OthersKept, Safe, TypeOK, partitionVars
  <2>2. (\A d \in Clients : ClientOk(d))'
    BY <1>0, <1>3, <1>a, <1>b DEF BeginLen, Enter, ClientOk, Safe, TypeOK
  <2>. QED  BY <2>1, <2>2, SameChannels
<1>4. ASSUME NEW c \in Clients, BeginPending(c)  PROVE RequestProtocol'
  <2>1. OthersKept(c) /\ UNCHANGED inbox /\ wait[c] # "sent"
    BY <1>4, <1>b DEF BeginPending, Enter, OthersKept, Safe, TypeOK, partitionVars
  <2>2. (\A d \in Clients : ClientOk(d))'
    BY <1>0, <1>4, <1>a, <1>b DEF BeginPending, Enter, ClientOk, Safe, TypeOK
  <2>. QED  BY <2>1, <2>2, SameChannels
<1>5. ASSUME NEW c \in Clients, NEW max \in BlockLimits, BeginTake(c, max)  PROVE RequestProtocol'
  <2>1. OthersKept(c) /\ UNCHANGED inbox /\ wait[c] # "sent"
    BY <1>5, <1>b DEF BeginTake, Enter, OthersKept, Safe, TypeOK, partitionVars
  <2>2. (\A d \in Clients : ClientOk(d))'
    BY <1>0, <1>5, <1>a, <1>b DEF BeginTake, Enter, ClientOk, Safe, TypeOK
  <2>. QED  BY <2>1, <2>2, SameChannels
<1>6. ASSUME NEW c \in Clients, Request(c)  PROVE RequestProtocol'
  <2>1. PICK p \in Partitions : p = part[c]
    BY DEF Safe, TypeOK
  <2>2. PICK m : m = [kind |-> KindOf(pc[c]), tx |-> NoTx, client |-> c,
                      max |-> IF pc[c] = "take" THEN limit[c] - Cardinality(acc[c]) ELSE 0]
    OBVIOUS
  <2>3. OthersKept(c) /\ inbox' = [inbox EXCEPT ![p] = Append(inbox[p], m)] /\ wait[c] = "ready"
    BY <1>6, <2>1, <2>2 DEF Request, OthersKept, Safe, TypeOK
  <2>4. m \in Commands
    <3>1. Len(inbox[p]) \in Nat /\ inbox'[p] = Append(inbox[p], m)
      BY <2>3, LenProperties DEF Safe, TypeOK
    <3>2. inbox'[p] \in Seq(Commands)
      BY <1>6, TypeStep DEF Next, TypeOK
    <3>3. Len(inbox'[p]) = Len(inbox[p]) + 1 /\ inbox'[p][Len(inbox[p]) + 1] = m
      BY <3>1, AppendProperties DEF Safe, TypeOK
    <3>. QED  BY <3>1, <3>2, <3>3, ElementOfSeq
  <2>5. (\A d \in Clients : ClientOk(d))'
    BY <1>0, <1>6, <1>a DEF Request, ClientOk, Safe, TypeOK
  <2>6. CommandOk(p, m)'
    <3>1. /\ wait'[c] = "sent" /\ UNCHANGED <<pc, part, limit, acc>>
          /\ pc[c] \in Loops
      BY <1>6 DEF Request, Safe, TypeOK
    <3>2. m.kind # "add" /\ (m.kind = "take" => pc[c] = "take")
      BY <2>2, <3>1 DEF KindOf, Loops, LenLoops
    <3>3. m.client = c /\ m.kind = KindOf(pc[c])
            /\ (m.kind = "take" => m.max = limit[c] - Cardinality(acc[c]))
      BY <2>2, <3>2
    <3>. QED  BY <2>1, <3>1, <3>2, <3>3 DEF CommandOk
  <2>7. m.client \in {c, NoClient} /\ wait[c] # "sent"
    BY <2>2, <2>3
  <2>. QED  BY <2>3, <2>4, <2>5, <2>6, <2>7, OneMoreCommand
<1>7. ASSUME NEW c \in Clients, ReceiveLen(c)  PROVE RequestProtocol'
  <2>1. Consume(c) /\ wait[c] = "answered" /\ UNCHANGED inbox
    BY <1>7 DEF ReceiveLen, Consume, partitionVars
  <2>2. /\ OthersKept(c)
        /\ pc'[c] # "add"
        /\ limit[c] > 0 \/ pc'[c] \notin {"take_empty", "take"}
        /\ limit'[c] = limit[c] \/ pc'[c] = "idle"
        /\ \A d \in Clients : d # c => pc'[d] = pc[d] /\ limit'[d] = limit[d]
    <3>1. CASE LastPartition(c)
      <4>1. AfterLen(c, total[c] + reply[c].len)
        BY <1>7, <3>1 DEF ReceiveLen
      <4>. QED  BY <1>a, <2>1, <4>1 DEF AfterLen, Return, Enter, Consume, OthersKept, ClientOk, Safe, TypeOK
    <3>2. CASE ~LastPartition(c)
      <4>1. UNCHANGED <<pc, acc, limit>> /\ part' = [part EXCEPT ![c] = part[c] + 1]
        BY <1>7, <3>2 DEF ReceiveLen
      <4>2. pc[c] \in LenLoops
        BY <1>7 DEF ReceiveLen
      <4>. QED  BY <1>a, <2>1, <4>1, <4>2 DEF Consume, OthersKept, ClientOk, Safe, TypeOK, LenLoops
    <3>. QED  BY <3>1, <3>2
  <2>3. (\A d \in Clients : ClientOk(d))'
    BY <1>0, <1>a, <2>1, <2>2 DEF Consume, ClientOk, Safe, TypeOK
  <2>. QED  BY <2>1, <2>2, <2>3, SameChannels
<1>8. ASSUME NEW c \in Clients, ReceivePending(c)  PROVE RequestProtocol'
  <2>1. Consume(c) /\ wait[c] = "answered" /\ UNCHANGED inbox
    BY <1>8 DEF ReceivePending, Consume, partitionVars
  <2>2. OthersKept(c) /\ pc'[c] \in {"idle", "pending"}
    <3>1. CASE LastPartition(c)
      <4>1. Return(c)
        BY <1>8, <3>1 DEF ReceivePending
      <4>. QED  BY <2>1, <4>1 DEF Return, Consume, OthersKept, Safe, TypeOK
    <3>2. CASE ~LastPartition(c)
      <4>1. /\ UNCHANGED <<pc, limit>> /\ part' = [part EXCEPT ![c] = part[c] + 1]
            /\ acc' = [acc EXCEPT ![c] = acc[c] \cup reply[c].txs]
            /\ pc[c] = "pending"
        BY <1>8, <3>2 DEF ReceivePending
      <4>. QED  BY <2>1, <4>1 DEF Consume, OthersKept, Safe, TypeOK
    <3>. QED  BY <3>1, <3>2
  <2>3. (\A d \in Clients : ClientOk(d))'
    BY <1>0, <1>a, <2>1, <2>2 DEF OthersKept, Consume, ClientOk, Safe, TypeOK
  <2>. QED  BY <2>1, <2>2, <2>3, SameChannels
<1>9. ASSUME NEW c \in Clients, ReceiveTake(c)  PROVE RequestProtocol'
  <2>1. Consume(c) /\ wait[c] = "answered" /\ UNCHANGED inbox
    BY <1>9 DEF ReceiveTake, Consume, partitionVars
  <2>2. OthersKept(c) /\ (pc'[c] = "idle" \/ (pc'[c] = "take" /\ limit'[c] = limit[c])) /\ pc[c] = "take"
    <3>. DEFINE full == LastPartition(c) \/ Cardinality(acc[c] \cup reply[c].txs) = limit[c]
    <3>0. pc[c] = "take"
      BY <1>9 DEF ReceiveTake
    <3>1. CASE full
      <4>1. Return(c)
        BY <1>9, <3>1 DEF ReceiveTake
      <4>. QED  BY <2>1, <3>0, <4>1 DEF Return, Consume, OthersKept, Safe, TypeOK
    <3>2. CASE ~full
      <4>1. /\ UNCHANGED <<pc, limit>> /\ part' = [part EXCEPT ![c] = part[c] + 1]
            /\ acc' = [acc EXCEPT ![c] = acc[c] \cup reply[c].txs]
        BY <1>9, <3>2 DEF ReceiveTake
      <4>. QED  BY <2>1, <3>0, <4>1 DEF Consume, OthersKept, Safe, TypeOK
    <3>. QED  BY <3>1, <3>2
  <2>3. (\A d \in Clients : ClientOk(d))'
    BY <1>0, <1>a, <2>1, <2>2 DEF OthersKept, Consume, ClientOk, Safe, TypeOK
  <2>. QED  BY <2>1, <2>2, <2>3, SameChannels
<1>10. ASSUME NEW c \in Clients, Cancel(c)  PROVE RequestProtocol'
  BY <1>10, OrphanedCommands
<1>11. ASSUME NEW p \in Partitions, NEW kind, Serve(p, kind),
              NEW len, NEW txs,
              \/ UNCHANGED <<reply, wait>> /\ Head(inbox[p]).kind = "add"
              \/ Respond(Head(inbox[p]).client, len, txs)
       PROVE  RequestProtocol'
  <2>1. /\ inbox[p] # <<>>
        /\ inbox' = [inbox EXCEPT ![p] = Tail(inbox[p])]
        /\ UNCHANGED <<pc, part, tx, limit, total, acc>>
    BY <1>11 DEF Serve
  <2>2. PICK m : m = Head(inbox[p])
    OBVIOUS
  <2>3. CommandOk(p, m)
    BY <2>1, <2>2, ChannelHead DEF Safe, RequestProtocol
  <2>4. OthersKept(m.client)
    BY <1>11, <2>1, <2>2 DEF Respond, OthersKept, Safe, TypeOK
  <2>5. (\A d \in Clients : ClientOk(d))'
    <3>1. CASE UNCHANGED <<reply, wait>>
      BY <1>a, <2>1, <3>1 DEF ClientOk
    <3>2. CASE Respond(m.client, len, txs)
      <4>1. CASE m.client \in Clients
        <5>1. pc[m.client] \in Loops
          BY <2>3, <4>1 DEF CommandOk
        <5>2. wait'[m.client] = "answered" /\ \A d \in Clients : d # m.client => reply'[d] = reply[d] /\ wait'[d] = wait[d]
          BY <3>2, <4>1 DEF Respond, Safe, TypeOK
        <5>. QED  BY <1>0, <1>a, <2>1, <5>1, <5>2 DEF ClientOk
      <4>2. CASE m.client \notin Clients
        BY <1>a, <2>1, <3>2, <4>2 DEF Respond, ClientOk
      <4>. QED  BY <4>1, <4>2
    <3>. QED  BY <1>11, <2>2, <3>1, <3>2
  <2>. QED  BY <2>1, <2>2, <2>4, <2>5, OneCommandLess
<1>12. ASSUME NEW p \in Partitions, HandleAdd(p)  PROVE RequestProtocol'
  BY <1>11, <1>12 DEF HandleAdd, Serve
<1>13. ASSUME NEW p \in Partitions, HandleTake(p)  PROVE RequestProtocol'
  BY <1>11, <1>13 DEF HandleTake
<1>14. ASSUME NEW p \in Partitions, HandleLen(p)  PROVE RequestProtocol'
  BY <1>11, <1>14 DEF HandleLen
<1>15. ASSUME NEW p \in Partitions, HandlePending(p)  PROVE RequestProtocol'
  BY <1>11, <1>15 DEF HandlePending
<1>16. ASSUME UNCHANGED vars  PROVE RequestProtocol'
  BY <1>16 DEF vars, partitionVars, clientVars, Safe, RequestProtocol, CommandOk, ClientOk
<1>. QED  BY <1>1, <1>2, <1>3, <1>4, <1>5, <1>6, <1>7, <1>8, <1>9, <1>10, <1>12,
             <1>13, <1>14, <1>15, <1>16, StepCases

(***************************************************************************)
(* What a step does to the running take_for_block calls.                   *)
(***************************************************************************)

\* Client d is in the gathering loop before and after, with the same state.
SameTake(d) ==
    /\ pc[d] = "take" <=> pc'[d] = "take"
    /\ pc[d] = "take" =>
           /\ part'[d] = part[d]
           /\ limit'[d] = limit[d]
           /\ acc'[d] = acc[d]
           /\ reply'[d] = reply[d]

OthersSameTake(c) == \A d \in Clients : d # c => SameTake(d)

\* is_empty answered FALSE: client c starts to gather.
StartTake(c) ==
    /\ OthersSameTake(c)
    /\ UNCHANGED <<log, transactions, blocks>>
    /\ pc[c] # "take" /\ pc'[c] = "take"
    /\ acc'[c] = {} /\ reply'[c] = NoReply
    /\ limit'[c] \in Nat \ {0}

\* Client c keeps its answer and goes to the next partition.
NextTake(c) ==
    /\ OthersSameTake(c)
    /\ UNCHANGED <<log, transactions, blocks>>
    /\ pc[c] = "take" /\ pc'[c] = "take"
    /\ limit'[c] = limit[c]
    /\ acc'[c] = acc[c] \cup reply[c].txs
    /\ reply'[c] = NoReply
    /\ part'[c] = part[c] + 1
    /\ Cardinality(acc[c] \cup reply[c].txs) # limit[c]

\* Client c returns what it gathered.
EndTake(c) ==
    /\ OthersSameTake(c)
    /\ UNCHANGED <<log, transactions>>
    /\ pc[c] = "take" /\ pc'[c] # "take"
    /\ LET selected == acc[c] \cup reply[c].txs
       IN  blocks' = IF selected = {} THEN blocks ELSE blocks \cup {selected}

\* Partition p answers the TakeForBlock request of client c.
AnswerTake(p, c) ==
    /\ OthersSameTake(c)
    /\ UNCHANGED <<log, blocks>>
    /\ pc[c] = "take" /\ pc'[c] = "take"
    /\ part[c] = p
    /\ UNCHANGED <<part, limit, acc>>
    /\ reply[c] = NoReply
    /\ LET selected == SelectForBlock(p, limit[c] - Cardinality(acc[c]))
       IN  /\ reply'[c].txs = {p} \X selected
           /\ transactions' = [transactions EXCEPT ![p] = transactions[p] \ selected]

\* Partition p pushes transaction t on its Vec.
Push(p, t) ==
    /\ \A d \in Clients : SameTake(d)
    /\ UNCHANGED blocks
    /\ log' = [log EXCEPT ![p] = Append(log[p], t)]
    /\ transactions' = [transactions EXCEPT ![p] = transactions[p] \cup {Len(log[p]) + 1}]

NothingTaken ==
    /\ \A d \in Clients : SameTake(d)
    /\ UNCHANGED <<log, transactions, blocks>>

LEMMA StepEffects ==
    ASSUME Safe, [Next]_vars
    PROVE  \/ NothingTaken
           \/ \E c \in Clients : StartTake(c) \/ NextTake(c) \/ EndTake(c)
           \/ \E p \in Partitions :
                  \/ \E t \in Txs : PartitionForAddress[From[t]] = p /\ Push(p, t)
                  \/ \E c \in Clients : AnswerTake(p, c)
<1>. USE MempoolAssumption
<1>0. "take" \in Loops /\ "take" \notin LenLoops
  BY DEF Loops, LenLoops
<1>a. \A d \in Clients : ClientOk(d)
  BY DEF Safe, RequestProtocol
<1>1. ASSUME NEW c \in Clients, NEW t \in Txs, BeginAdd(c, t)  PROVE NothingTaken
  BY <1>1 DEF BeginAdd, NothingTaken, SameTake, Safe, TypeOK, partitionVars
<1>2. ASSUME NEW c \in Clients, SendAdd(c)  PROVE NothingTaken
  BY <1>2 DEF SendAdd, NothingTaken, SameTake, Safe, TypeOK
<1>3. ASSUME NEW c \in Clients, BeginLen(c)  PROVE NothingTaken
  BY <1>3 DEF BeginLen, Enter, NothingTaken, SameTake, Safe, TypeOK, partitionVars, historyVars
<1>4. ASSUME NEW c \in Clients, BeginPending(c)  PROVE NothingTaken
  BY <1>4 DEF BeginPending, Enter, NothingTaken, SameTake, Safe, TypeOK, partitionVars, historyVars
<1>5. ASSUME NEW c \in Clients, NEW max \in BlockLimits, BeginTake(c, max)  PROVE NothingTaken
  BY <1>5 DEF BeginTake, Enter, NothingTaken, SameTake, Safe, TypeOK, partitionVars, historyVars
<1>6. ASSUME NEW c \in Clients, Request(c)  PROVE NothingTaken
  BY <1>6 DEF Request, NothingTaken, SameTake, historyVars
<1>7. ASSUME NEW c \in Clients, ReceiveLen(c)  PROVE NothingTaken \/ StartTake(c)
  <2>1. /\ pc[c] # "take" /\ UNCHANGED <<log, transactions, blocks>>
        /\ reply' = [reply EXCEPT ![c] = NoReply]
    BY <1>0, <1>7 DEF ReceiveLen, Consume, partitionVars, historyVars
  <2>2. CASE LastPartition(c)
    <3>1. AfterLen(c, total[c] + reply[c].len)
      BY <1>7, <2>2 DEF ReceiveLen
    <3>2. CASE Return(c)
      BY <2>1, <3>2 DEF Return, NothingTaken, SameTake, Safe, TypeOK
    <3>3. CASE Enter(c, "pending") /\ UNCHANGED limit
      BY <2>1, <3>3 DEF Enter, NothingTaken, SameTake, Safe, TypeOK
    <3>4. CASE Enter(c, "take_empty") /\ UNCHANGED limit
      BY <2>1, <3>4 DEF Enter, NothingTaken, SameTake, Safe, TypeOK
    <3>5. CASE Enter(c, "take") /\ UNCHANGED limit /\ pc[c] = "take_empty"
      <4>1. limit[c] \in Nat \ {0}
        BY <1>a, <3>5 DEF ClientOk, Safe, TypeOK
      <4>. QED  BY <2>1, <3>5, <4>1 DEF Enter, StartTake, OthersSameTake, SameTake, Safe, TypeOK
    <3>. QED  BY <3>1, <3>2, <3>3, <3>4, <3>5 DEF AfterLen
  <2>3. CASE ~LastPartition(c)
    <3>1. UNCHANGED <<pc, acc, limit>> /\ part' = [part EXCEPT ![c] = part[c] + 1]
      BY <1>7, <2>3 DEF ReceiveLen
    <3>. QED  BY <2>1, <3>1 DEF NothingTaken, SameTake, Safe, TypeOK
  <2>. QED  BY <2>2, <2>3
<1>8. ASSUME NEW c \in Clients, ReceivePending(c)  PROVE NothingTaken
  <2>1. /\ pc[c] = "pending" /\ UNCHANGED <<log, transactions, blocks>>
        /\ reply' = [reply EXCEPT ![c] = NoReply]
    BY <1>8 DEF ReceivePending, Consume, partitionVars, historyVars
  <2>2. CASE Return(c)
    BY <2>1, <2>2 DEF Return, NothingTaken, SameTake, Safe, TypeOK
  <2>3. CASE /\ UNCHANGED <<pc, limit>> /\ part' = [part EXCEPT ![c] = part[c] + 1]
             /\ acc' = [acc EXCEPT ![c] = acc[c] \cup reply[c].txs]
    BY <2>1, <2>3 DEF NothingTaken, SameTake, Safe, TypeOK
  <2>. QED  BY <1>8, <2>2, <2>3 DEF ReceivePending
<1>9. ASSUME NEW c \in Clients, ReceiveTake(c)  PROVE NextTake(c) \/ EndTake(c)
  <2>1. /\ pc[c] = "take" /\ UNCHANGED <<log, transactions>>
        /\ reply' = [reply EXCEPT ![c] = NoReply]
    BY <1>9 DEF ReceiveTake, Consume, partitionVars
  <2> DEFINE selected == acc[c] \cup reply[c].txs
  <2>2. CASE LastPartition(c) \/ Cardinality(selected) = limit[c]
    <3>1. Return(c) /\ blocks' = IF selected = {} THEN blocks ELSE blocks \cup {selected}
      BY <1>9, <2>2 DEF ReceiveTake
    <3>2. OthersSameTake(c) /\ pc'[c] # "take"
      BY <2>1, <3>1 DEF Return, OthersSameTake, SameTake, Safe, TypeOK
    <3>. QED  BY <2>1, <3>1, <3>2 DEF EndTake
  <2>3. CASE ~(LastPartition(c) \/ Cardinality(selected) = limit[c])
    <3>1. /\ UNCHANGED <<pc, limit, blocks>> /\ part' = [part EXCEPT ![c] = part[c] + 1]
          /\ acc' = [acc EXCEPT ![c] = selected]
      BY <1>9, <2>3 DEF ReceiveTake
    <3>2. OthersSameTake(c)
      BY <2>1, <3>1 DEF OthersSameTake, SameTake, Safe, TypeOK
    <3>3. acc'[c] = selected /\ part'[c] = part[c] + 1 /\ reply'[c] = NoReply
      BY <2>1, <3>1 DEF Safe, TypeOK
    <3>. QED  BY <2>1, <2>3, <3>1, <3>2, <3>3 DEF NextTake
  <2>. QED  BY <2>2, <2>3
<1>10. ASSUME NEW c \in Clients, Cancel(c)  PROVE NothingTaken
  BY <1>10 DEF Cancel, Return, NothingTaken, SameTake, Safe, TypeOK, historyVars
<1>11. ASSUME NEW p \in Partitions, HandleAdd(p)
       PROVE  \E t \in Txs : PartitionForAddress[From[t]] = p /\ Push(p, t)
  <2>1. PICK m : m = Head(inbox[p])
    OBVIOUS
  <2>2. inbox[p] # <<>> /\ m.kind = "add"
    BY <1>11, <2>1 DEF HandleAdd, Serve
  <2>3. CommandOk(p, m)
    BY <2>1, <2>2, ChannelHead DEF Safe, RequestProtocol
  <2>4. m.tx \in Txs /\ PartitionForAddress[From[m.tx]] = p
    BY <2>2, <2>3 DEF CommandOk
  <2>5. Push(p, m.tx)
    BY <1>11, <2>1 DEF HandleAdd, Serve, Push, SameTake, historyVars
  <2>. QED  BY <2>4, <2>5
<1>12. ASSUME NEW p \in Partitions, HandleTake(p)
       PROVE  \E c \in Clients : AnswerTake(p, c)
  <2>1. PICK m : m = Head(inbox[p])
    OBVIOUS
  <2>2. inbox[p] # <<>> /\ m.kind = "take"
    BY <1>12, <2>1 DEF HandleTake, Serve
  <2>3. CommandOk(p, m)
    BY <2>1, <2>2, ChannelHead DEF Safe, RequestProtocol
  <2>4. PICK c \in Clients : c = m.client
    BY <2>2, <2>3 DEF CommandOk
  <2>5. /\ wait[c] = "sent" /\ part[c] = p /\ pc[c] \in Loops /\ "take" = KindOf(pc[c])
        /\ m.max = limit[c] - Cardinality(acc[c])
    BY <2>2, <2>3, <2>4 DEF CommandOk
  <2>6. pc[c] = "take" /\ reply[c] = NoReply
    BY <1>a, <2>5 DEF KindOf, ClientOk
  <2> DEFINE selected == SelectForBlock(p, limit[c] - Cardinality(acc[c]))
  <2>7. /\ transactions' = [transactions EXCEPT ![p] = transactions[p] \ selected]
        /\ reply' = [reply EXCEPT ![c] = [len |-> 0, txs |-> {p} \X selected]]
        /\ UNCHANGED <<log, blocks, pc, part, limit, acc>>
    BY <1>12, <2>1, <2>4, <2>5 DEF HandleTake, Serve, Respond, historyVars
  <2>8. OthersSameTake(c) /\ reply'[c].txs = {p} \X selected
    <3>. HIDE DEF selected
    <3>. QED  BY <2>7 DEF OthersSameTake, SameTake, Safe, TypeOK
  <2>9. AnswerTake(p, c)
    BY <2>5, <2>6, <2>7, <2>8 DEF AnswerTake
  <2>. QED  BY <2>9
<1>13. ASSUME NEW p \in Partitions, NEW kind \in {"len", "pending"}, NEW len, NEW txs,
              Serve(p, kind), UNCHANGED <<log, transactions>>,
              Respond(Head(inbox[p]).client, len, txs)
       PROVE  NothingTaken
  <2>1. PICK m : m = Head(inbox[p])
    OBVIOUS
  <2>2. inbox[p] # <<>> /\ m.kind = kind /\ UNCHANGED <<blocks, pc, part, limit, acc>>
    BY <1>13, <2>1 DEF Serve, historyVars
  <2>3. CommandOk(p, m)
    BY <2>1, <2>2, ChannelHead DEF Safe, RequestProtocol
  <2>4. \A d \in Clients : d # m.client => reply'[d] = reply[d]
    BY <1>13, <2>1 DEF Respond, Safe, TypeOK
  <2>5. m.client \in Clients => pc[m.client] # "take"
    <3>. SUFFICES ASSUME m.client \in Clients, pc[m.client] = "take" PROVE FALSE
      OBVIOUS
    <3>1. m.kind = KindOf("take")
      BY <2>3 DEF CommandOk
    <3>. QED  BY <1>0, <1>13, <2>2, <3>1 DEF KindOf
  <2>. QED  BY <1>13, <2>2, <2>4, <2>5 DEF NothingTaken, SameTake
<1>14. ASSUME NEW p \in Partitions, HandleLen(p)  PROVE NothingTaken
  BY <1>13, <1>14 DEF HandleLen
<1>15. ASSUME NEW p \in Partitions, HandlePending(p)  PROVE NothingTaken
  BY <1>13, <1>15 DEF HandlePending
<1>16. ASSUME UNCHANGED vars  PROVE NothingTaken
  BY <1>16 DEF vars, partitionVars, clientVars, historyVars, NothingTaken, SameTake
<1>. QED  BY <1>1, <1>2, <1>3, <1>4, <1>5, <1>6, <1>7, <1>8, <1>9, <1>10, <1>11, <1>12,
             <1>14, <1>15, <1>16, StepCases

LogsGrow == \A q \in Partitions : Len(log[q]) \in Nat /\ Len(log'[q]) \in Nat
                                     /\ Len(log[q]) <= Len(log'[q])

LEMMA PushGrows ==
    ASSUME TypeOK, NEW p \in Partitions, NEW t \in Txs, Push(p, t)
    PROVE  /\ LogsGrow
           /\ Len(log'[p]) = Len(log[p]) + 1
           /\ log'[p][Len(log[p]) + 1] = t
           /\ \A i \in 1 .. Len(log[p]) : log'[p][i] = log[p][i]
           /\ \A q \in Partitions : q # p => log'[q] = log[q] /\ transactions'[q] = transactions[q]
           /\ transactions'[p] = transactions[p] \cup {Len(log[p]) + 1}
<1>1. log' = [log EXCEPT ![p] = Append(log[p], t)]
  BY DEF Push
<1>2. /\ \A q \in Partitions : Len(log[q]) \in Nat
      /\ log'[p] = Append(log[p], t)
      /\ \A q \in Partitions : q # p => log'[q] = log[q]
  BY <1>1, LenProperties DEF TypeOK
<1>3. /\ Len(log'[p]) = Len(log[p]) + 1
      /\ log'[p][Len(log[p]) + 1] = t
      /\ \A i \in 1 .. Len(log[p]) : log'[p][i] = log[p][i]
  BY <1>2, AppendProperties DEF TypeOK
<1>4. LogsGrow
  BY <1>2, <1>3 DEF LogsGrow
<1>5. /\ \A q \in Partitions : q # p => transactions'[q] = transactions[q]
      /\ transactions'[p] = transactions[p] \cup {Len(log[p]) + 1}
  BY DEF Push, TypeOK
<1>. QED  BY <1>2, <1>3, <1>4, <1>5

LEMMA SameLogsGrow ==
    ASSUME TypeOK, UNCHANGED log
    PROVE  LogsGrow
BY LenProperties DEF LogsGrow, TypeOK

LEMMA GatherKept ==
    ASSUME Safe, NEW d \in Clients, SameTake(d), pc'[d] = "take", LogsGrow
    PROVE  GatherOk(d)'
<1>1. GatherOk(d) /\ acc[d] \subseteq Positions /\ reply[d].txs \subseteq Positions
  BY DEF Safe, Gathering, SameTake, TypeOK
<1>2. acc'[d] = acc[d] /\ reply'[d] = reply[d] /\ limit'[d] = limit[d] /\ part'[d] = part[d]
  BY DEF SameTake
<1>3. ASSUME NEW x \in Positions, x[2] \in 1 .. Len(log[x[1]])
      PROVE  x[2] \in 1 .. Len(log'[x[1]])
  <2>1. x[1] \in Partitions
    BY DEF Positions
  <2>. QED  BY <1>3, <2>1 DEF LogsGrow
<1>. QED  BY <1>1, <1>2, <1>3 DEF GatherOk

\* The answer of a partition is one finite set more, from that partition.
LEMMA AnswerFacts ==
    ASSUME Safe, NEW p \in Partitions, NEW c \in Clients, AnswerTake(p, c)
    PROVE  /\ limit[c] - Cardinality(acc[c]) \in Nat
           /\ LET max == limit[c] - Cardinality(acc[c])
                  Sel == SelectForBlock(p, max)
              IN  /\ Sel \subseteq transactions[p]
                  /\ Sel \subseteq 1 .. Len(log[p])
                  /\ IsFiniteSet({p} \X Sel)
                  /\ Cardinality({p} \X Sel) <= max
                  /\ \A i \in transactions[p], j \in Sel :
                         SenderAt(p, i) = SenderAt(p, j) /\ i <= j => i \in Sel
<1>1. limit[c] - Cardinality(acc[c]) \in Nat
  <2>1. IsFiniteSet(acc[c]) /\ Cardinality(acc[c]) < limit[c] /\ limit[c] \in Nat
    BY DEF Safe, Gathering, GatherOk, AnswerTake, TypeOK
  <2>2. Cardinality(acc[c]) \in Nat
    BY <2>1, FS_CardinalityType
  <2>. QED  BY <2>1, <2>2
<1>2. PICK max \in Nat : max = limit[c] - Cardinality(acc[c])
  BY <1>1
<1>3. PICK Sel : Sel = SelectForBlock(p, max)
  OBVIOUS
<1>4. Len(log[p]) \in Nat /\ transactions[p] \subseteq 1 .. Len(log[p])
  BY VecFinite DEF Safe
<1>5. /\ Sel \subseteq transactions[p]
      /\ IsFiniteSet(Sel)
      /\ Cardinality(Sel) <= max
      /\ \A i \in transactions[p], j \in Sel :
             SenderAt(p, i) = SenderAt(p, j) /\ i <= j => i \in Sel
  BY <1>3, <1>4, SelectionFacts
<1>6. IsFiniteSet({p} \X Sel) /\ Cardinality({p} \X Sel) <= max
  <2>1. IsFiniteSet({p}) /\ Cardinality({p}) = 1
    BY FS_Singleton
  <2>2. IsFiniteSet({p} \X Sel) /\ Cardinality({p} \X Sel) = Cardinality({p}) * Cardinality(Sel)
    BY <1>5, <2>1, FS_Product
  <2>3. Cardinality(Sel) \in Nat
    BY <1>5, FS_CardinalityType
  <2>. QED  BY <1>5, <2>1, <2>2, <2>3
<1>. QED  BY <1>1, <1>2, <1>3, <1>4, <1>5, <1>6

LEMMA GatherStep ==
    ASSUME Safe, [Next]_vars
    PROVE  Gathering'
<1>. USE MempoolAssumption
<1>1. ASSUME NothingTaken  PROVE Gathering'
  BY <1>1, GatherKept, SameLogsGrow DEF NothingTaken, Gathering, SameTake, Safe
<1>2. ASSUME NEW c \in Clients, OthersSameTake(c), LogsGrow, GatherOk(c)' \/ pc'[c] # "take"
      PROVE  Gathering'
  BY <1>2, GatherKept DEF OthersSameTake, Gathering
<1>3. ASSUME NEW c \in Clients, StartTake(c)  PROVE Gathering'
  <2>1. /\ acc'[c] = {} /\ reply'[c].txs = {} /\ limit'[c] \in Nat \ {0}
        /\ OthersSameTake(c) /\ UNCHANGED log
    BY <1>3 DEF StartTake, NoReply
  <2>2. GatherOk(c)'
    BY <2>1, FS_EmptySet DEF GatherOk
  <2>. QED  BY <1>2, <2>1, <2>2, SameLogsGrow DEF Safe
<1>4. ASSUME NEW c \in Clients, NextTake(c)  PROVE Gathering'
  <2>1. /\ acc'[c] = acc[c] \cup reply[c].txs /\ reply'[c].txs = {} /\ limit'[c] = limit[c]
        /\ part'[c] = part[c] + 1
        /\ Cardinality(acc'[c]) # limit[c]
        /\ OthersSameTake(c) /\ UNCHANGED log /\ GatherOk(c)
    BY <1>4 DEF NextTake, NoReply, Safe, Gathering
  <2>2. /\ limit[c] \in Nat /\ part[c] \in Nat
    BY DEF Safe, TypeOK, Partitions
  <2>3. /\ Cardinality(acc[c]) \in Nat /\ Cardinality(reply[c].txs) \in Nat
        /\ IsFiniteSet(acc'[c]) /\ Cardinality(acc'[c]) \in Nat
        /\ Cardinality(acc'[c]) <= Cardinality(acc[c]) + Cardinality(reply[c].txs)
    <3>1. IsFiniteSet(acc[c]) /\ IsFiniteSet(reply[c].txs)
      BY <2>1 DEF GatherOk
    <3>2. IsFiniteSet(acc[c] \cap reply[c].txs)
      BY <3>1, FS_Intersection
    <3>3. /\ IsFiniteSet(acc'[c])
          /\ Cardinality(acc'[c]) = Cardinality(acc[c]) + Cardinality(reply[c].txs)
                                       - Cardinality(acc[c] \cap reply[c].txs)
      BY <2>1, <3>1, FS_Union
    <3>. QED  BY <3>1, <3>2, <3>3, FS_CardinalityType
  <2>4. Cardinality(acc'[c]) < limit[c]
    BY <2>1, <2>2, <2>3 DEF GatherOk
  <2>5. IsFiniteSet(reply'[c].txs) /\ Cardinality(reply'[c].txs) <= limit'[c] - Cardinality(acc'[c])
    BY <2>1, <2>2, <2>3, <2>4, FS_EmptySet
  <2>6. \A x \in acc'[c] : x[1] < part'[c] /\ x[2] \in 1 .. Len(log'[x[1]])
    <3>1. \A x \in acc'[c] : x[1] \in Nat
      BY <2>1 DEF Safe, TypeOK, Positions, Partitions
    <3>2. \A x \in acc'[c] : x[1] < part[c] + 1 /\ x[2] \in 1 .. Len(log[x[1]])
      BY <2>1, <2>2, <3>1 DEF GatherOk
    <3>. QED  BY <2>1, <3>2
  <2>7. GatherOk(c)'
    BY <2>1, <2>3, <2>4, <2>5, <2>6 DEF GatherOk
  <2>. QED  BY <1>2, <2>1, <2>7, SameLogsGrow DEF Safe
<1>5. ASSUME NEW c \in Clients, EndTake(c)  PROVE Gathering'
  BY <1>2, <1>5, SameLogsGrow DEF EndTake, Safe
<1>6. ASSUME NEW p \in Partitions, NEW t \in Txs, Push(p, t)  PROVE Gathering'
  <2>1. LogsGrow
    BY <1>6, PushGrows DEF Safe
  <2>. QED  BY <1>6, <2>1, GatherKept DEF Push, Gathering, SameTake
<1>7. ASSUME NEW p \in Partitions, NEW c \in Clients, AnswerTake(p, c)  PROVE Gathering'
  <2>1. PICK Sel : Sel = SelectForBlock(p, limit[c] - Cardinality(acc[c]))
    OBVIOUS
  <2>2. /\ reply'[c].txs = {p} \X Sel /\ part[c] = p /\ pc[c] = "take"
        /\ UNCHANGED <<part, limit, acc, log>> /\ OthersSameTake(c)
    BY <1>7, <2>1 DEF AnswerTake
  <2>3. /\ IsFiniteSet({p} \X Sel) /\ Cardinality({p} \X Sel) <= limit[c] - Cardinality(acc[c])
        /\ Sel \subseteq 1 .. Len(log[p])
    BY <1>7, <2>1, AnswerFacts
  <2>4. GatherOk(c)
    BY <2>2 DEF Safe, Gathering
  <2>5. \A x \in {p} \X Sel : x[1] = p /\ x[2] \in 1 .. Len(log[x[1]])
    BY <2>3
  <2>6. GatherOk(c)'
    BY <2>2, <2>3, <2>4, <2>5 DEF GatherOk
  <2>. QED  BY <1>2, <2>2, <2>6, SameLogsGrow DEF Safe
<1>. QED  BY <1>1, <1>3, <1>4, <1>5, <1>6, <1>7, StepEffects

LEMMA SafeStep == Safe /\ [Next]_vars => Safe'
BY TypeStep, RequestStep, GatherStep DEF Safe

\* The inductive invariant holds in every reachable state, for any number of
\* partitions, clients and transactions.
THEOREM Safety == Spec => []Safe
BY InitSafe, SafeStep, PTL DEF Spec

\* The partition tasks and the handles keep to their types, and no channel of
\* with_partition_count ever holds more than its capacity.
THEOREM TypeCorrect == Spec => []TypeOK
<1>1. Safe => TypeOK
  BY DEF Safe
<1>. QED  BY <1>1, Safety, PTL

\* The request protocol of the loops over the partitions (len_async,
\* pending_transactions, take_for_block) holds whatever the interleaving.
THEOREM RequestsAreMatched == Spec => []RequestProtocol
<1>1. Safe => RequestProtocol
  BY DEF Safe
<1>. QED  BY <1>1, Safety, PTL

\* take_for_block never returns more than max_transactions, although every
\* partition selects on its own.
THEOREM TakeStaysWithinLimit == Spec => []TakeWithinLimit
<1>1. Safe => TakeWithinLimit
  <2>. SUFFICES ASSUME Safe, NEW c \in Clients, pc[c] = "take"
                PROVE  Cardinality(acc[c] \cup reply[c].txs) <= limit[c]
    BY DEF TakeWithinLimit, InHand
  <2>1. /\ IsFiniteSet(acc[c]) /\ IsFiniteSet(reply[c].txs) /\ limit[c] \in Nat
        /\ Cardinality(reply[c].txs) <= limit[c] - Cardinality(acc[c])
    BY DEF Safe, Gathering, GatherOk, TypeOK
  <2>2. IsFiniteSet(acc[c] \cap reply[c].txs)
    BY <2>1, FS_Intersection
  <2>3. Cardinality(acc[c] \cup reply[c].txs)
          = Cardinality(acc[c]) + Cardinality(reply[c].txs)
              - Cardinality(acc[c] \cap reply[c].txs)
    BY <2>1, FS_Union
  <2>. QED  BY <2>1, <2>2, <2>3, FS_CardinalityType
<1>. QED  BY <1>1, Safety, PTL

-----------------------------------------------------------------------------

(***************************************************************************)
(* What becomes of the transactions pushed on the partitions: none is lost,*)
(* none is handed out twice, and the transactions of a sender leave in the *)
(* order they came, whatever calls of take_for_block run at the same time. *)
(***************************************************************************)

(***************************************************************************)
(* What a step does to the transactions in the hands of take_for_block.    *)
(***************************************************************************)

SameHands == \A d \in Clients : InHand(d)' = InHand(d)

OtherHandsSame(c) == \A d \in Clients : d # c => InHand(d)' = InHand(d)

\* Client c returns what it had in hand as a block.
HandBlock(c) ==
    /\ OtherHandsSame(c)
    /\ UNCHANGED <<log, transactions>>
    /\ InHand(c)' = {}
    /\ blocks' = IF InHand(c) = {} THEN blocks ELSE blocks \cup {InHand(c)}

\* Client c is handed the selection of partition p.
HandSelection(p, c) ==
    /\ OtherHandsSame(c)
    /\ UNCHANGED <<log, blocks>>
    /\ LET Sel == SelectForBlock(p, limit[c] - Cardinality(acc[c]))
       IN  /\ InHand(c)' = InHand(c) \cup ({p} \X Sel)
           /\ transactions' = [transactions EXCEPT ![p] = transactions[p] \ Sel]

LEMMA SameTakeSameHand ==
    ASSUME NEW d \in Clients, SameTake(d)
    PROVE  InHand(d)' = InHand(d)
BY DEF SameTake, InHand

LEMMA HandEffects ==
    ASSUME Safe, [Next]_vars
    PROVE  \/ SameHands /\ UNCHANGED <<log, transactions, blocks>>
           \/ \E c \in Clients : HandBlock(c)
           \/ \E p \in Partitions :
                  \/ \E t \in Txs : /\ PartitionForAddress[From[t]] = p
                                     /\ Push(p, t) /\ SameHands
                  \/ \E c \in Clients : AnswerTake(p, c) /\ HandSelection(p, c)
<1>1. ASSUME NothingTaken  PROVE SameHands /\ UNCHANGED <<log, transactions, blocks>>
  BY <1>1, SameTakeSameHand DEF NothingTaken, SameHands
<1>2. ASSUME NEW c \in Clients, StartTake(c)
      PROVE  SameHands /\ UNCHANGED <<log, transactions, blocks>>
  <2>1. InHand(c)' = {} /\ InHand(c) = {}
    BY <1>2 DEF StartTake, InHand, NoReply
  <2>2. \A d \in Clients : d # c => InHand(d)' = InHand(d)
    BY <1>2, SameTakeSameHand DEF StartTake, OthersSameTake
  <2>3. SameHands
    BY <2>1, <2>2 DEF SameHands
  <2>. QED  BY <1>2, <2>3 DEF StartTake
<1>3. ASSUME NEW c \in Clients, NextTake(c)
      PROVE  SameHands /\ UNCHANGED <<log, transactions, blocks>>
  <2>1. InHand(c)' = InHand(c)
    BY <1>3 DEF NextTake, InHand, NoReply
  <2>2. \A d \in Clients : d # c => InHand(d)' = InHand(d)
    BY <1>3, SameTakeSameHand DEF NextTake, OthersSameTake
  <2>3. SameHands
    BY <2>1, <2>2 DEF SameHands
  <2>. QED  BY <1>3, <2>3 DEF NextTake
<1>4. ASSUME NEW c \in Clients, EndTake(c)  PROVE HandBlock(c)
  BY <1>4, SameTakeSameHand DEF EndTake, OthersSameTake, HandBlock, OtherHandsSame, InHand
<1>5. ASSUME NEW p \in Partitions, NEW t \in Txs, Push(p, t)  PROVE SameHands
  BY <1>5, SameTakeSameHand DEF Push, SameHands
<1>6. ASSUME NEW p \in Partitions, NEW c \in Clients, AnswerTake(p, c)  PROVE HandSelection(p, c)
  <2>1. PICK Sel : Sel = SelectForBlock(p, limit[c] - Cardinality(acc[c]))
    OBVIOUS
  <2>2. /\ pc[c] = "take" /\ pc'[c] = "take" /\ UNCHANGED <<acc, log, blocks>>
        /\ reply[c] = NoReply /\ reply'[c].txs = {p} \X Sel
        /\ transactions' = [transactions EXCEPT ![p] = transactions[p] \ Sel]
    BY <1>6, <2>1 DEF AnswerTake
  <2>3. InHand(c)' = InHand(c) \cup ({p} \X Sel)
    BY <2>2 DEF InHand, NoReply
  <2>4. OtherHandsSame(c)
    BY <1>6, SameTakeSameHand DEF AnswerTake, OthersSameTake, OtherHandsSame
  <2>. QED  BY <2>1, <2>2, <2>3, <2>4 DEF HandSelection
<1>. QED  BY <1>1, <1>2, <1>3, <1>4, <1>5, <1>6, StepEffects

(***************************************************************************)
(* Conservation and order.                                                 *)
(***************************************************************************)

\* Returned blocks hold positions of the logs.
BlocksInLog == \A b \in blocks : \A x \in b : x[1] \in Partitions /\ x[2] \in 1 .. Len(log[x[1]])

Conserved ==
    NoTransactionLost /\ NoTransactionTwice /\ SenderFifo /\ BlocksInLog

\* What is in hand was pushed before.
LEMMA HandsInLog ==
    ASSUME Safe, NEW c \in Clients, NEW x \in InHand(c)
    PROVE  x[1] \in Partitions /\ x[2] \in 1 .. Len(log[x[1]])
<1>1. pc[c] = "take" /\ x \in acc[c] \cup reply[c].txs
  BY DEF InHand
<1>2. x \in Positions
  BY <1>1 DEF Safe, TypeOK
<1>. QED  BY <1>1, <1>2 DEF Safe, Gathering, GatherOk, Positions

LEMMA ConservedInit == Init => Conserved
<1>. SUFFICES ASSUME Init PROVE Conserved
  OBVIOUS
<1>1. \A p \in Partitions : Len(log[p]) = 0 /\ transactions[p] = {}
  BY DEF Init
<1>2. blocks = {}
  BY DEF Init
<1>. QED  BY <1>1, <1>2 DEF Conserved, NoTransactionLost, NoTransactionTwice, SenderFifo, BlocksInLog

LEMMA ConservedStep ==
    ASSUME Safe, Conserved, [Next]_vars
    PROVE  Conserved'
<1>1. CASE SameHands /\ UNCHANGED <<log, transactions, blocks>>
  <2>1. \A q, i : (Held(q, i)' <=> Held(q, i)) /\ (InBlock(q, i)' <=> InBlock(q, i))
    BY <1>1 DEF SameHands, Held, InBlock
  <2>2. NoTransactionLost'
    BY <1>1, <2>1 DEF Conserved, NoTransactionLost
  <2>3. NoTransactionTwice'
    BY <1>1, <2>1 DEF SameHands, Conserved, NoTransactionTwice
  <2>4. SenderFifo'
    BY <1>1, <2>1 DEF Conserved, SenderFifo, SenderAt
  <2>5. BlocksInLog'
    BY <1>1 DEF Conserved, BlocksInLog
  <2>. QED  BY <2>2, <2>3, <2>4, <2>5 DEF Conserved
<1>2. ASSUME NEW c \in Clients, HandBlock(c)  PROVE Conserved'
  <2>. USE <1>2 DEF HandBlock, OtherHandsSame
  <2>1. \A p, i : (Held(p, i) \/ InBlock(p, i))' <=> (Held(p, i) \/ InBlock(p, i))
    BY DEF Held, InBlock
  <2>2. NoTransactionLost'
    BY <2>1 DEF Conserved, NoTransactionLost
  <2>3. SenderFifo'
    BY <2>1 DEF Conserved, SenderFifo, SenderAt
  <2>4. BlocksInLog'
    BY HandsInLog DEF Conserved, BlocksInLog
  <2>5. NoTransactionTwice'
    <3>. SUFFICES ASSUME NEW p \in Partitions, NEW i \in 1 .. Len(log[p])
                  PROVE  /\ i \in transactions[p] => ~Held(p, i)' /\ ~InBlock(p, i)'
                         /\ Held(p, i)' => ~InBlock(p, i)'
                         /\ \A e, d \in Clients :
                                <<p, i>> \in InHand(e)' \cap InHand(d)' => e = d
                         /\ \A b, e \in blocks' : <<p, i>> \in b \cap e => b = e
      BY DEF NoTransactionTwice
    <3>1. i \in transactions[p] => ~Held(p, i)' /\ ~InBlock(p, i)'
      BY <2>1 DEF Conserved, NoTransactionTwice
    <3>2. Held(p, i)' => ~InBlock(p, i)'
      BY DEF Conserved, NoTransactionTwice, Held, InBlock
    <3>3. \A e, d \in Clients : <<p, i>> \in InHand(e)' \cap InHand(d)' => e = d
      BY DEF Conserved, NoTransactionTwice
    <3>4. \A b, e \in blocks' : <<p, i>> \in b \cap e => b = e
      BY DEF Conserved, NoTransactionTwice, Held, InBlock
    <3>. QED  BY <3>1, <3>2, <3>3, <3>4
  <2>. QED  BY <2>2, <2>3, <2>4, <2>5 DEF Conserved
<1>3. ASSUME NEW p \in Partitions, NEW t \in Txs, Push(p, t), SameHands  PROVE Conserved'
  <2> DEFINE n == Len(log[p])
  <2>0. /\ LogsGrow /\ n \in Nat
        /\ Len(log'[p]) = n + 1
        /\ \A i \in 1 .. n : log'[p][i] = log[p][i]
        /\ \A q \in Partitions : q # p => log'[q] = log[q] /\ transactions'[q] = transactions[q]
        /\ transactions'[p] = transactions[p] \cup {n + 1}
        /\ blocks' = blocks
        /\ \A q \in Partitions : transactions[q] \subseteq 1 .. Len(log[q])
    BY <1>3, PushGrows, VecFinite DEF Safe, Push
  <2>1. \A q, i : (Held(q, i)' <=> Held(q, i)) /\ (InBlock(q, i)' <=> InBlock(q, i))
    BY <1>3, <2>0 DEF SameHands, Held, InBlock
  <2>2. ~Held(p, n + 1) /\ ~InBlock(p, n + 1)
    <3>1. ~Held(p, n + 1)
      BY <2>0, HandsInLog DEF Held
    <3>2. ~InBlock(p, n + 1)
      BY <2>0 DEF InBlock, Conserved, BlocksInLog
    <3>. QED  BY <3>1, <3>2
  <2>3. \A q \in Partitions : \A i \in 1 .. Len(log'[q]) :
            i \in 1 .. Len(log[q]) \/ (q = p /\ i = n + 1)
    BY <2>0
  <2>. HIDE DEF n
  <2>4. NoTransactionLost'
    BY <2>0, <2>1, <2>3 DEF Conserved, NoTransactionLost
  <2>5. BlocksInLog'
    BY <2>0 DEF Conserved, BlocksInLog, LogsGrow
  <2>6. SenderFifo'
    <3>. SUFFICES ASSUME NEW q \in Partitions, NEW i \in transactions'[q], NEW j \in 1 .. Len(log'[q]),
                         Held(q, j) \/ InBlock(q, j), SenderAt(q, i)' = SenderAt(q, j)'
                  PROVE  j < i
      BY <2>1 DEF SenderFifo
    <3>1. j \in 1 .. Len(log[q]) /\ SenderAt(q, j)' = SenderAt(q, j)
      BY <2>0, <2>2, <2>3 DEF SenderAt
    <3>2. CASE i \in transactions[q]
      <4>1. SenderAt(q, i)' = SenderAt(q, i)
        BY <2>0, <3>2 DEF SenderAt, n
      <4>. QED  BY <3>1, <3>2, <4>1 DEF Conserved, SenderFifo
    <3>3. CASE q = p /\ i = n + 1
      BY <2>0, <3>1, <3>3 DEF n
    <3>. QED  BY <2>0, <3>2, <3>3
  <2>7. NoTransactionTwice'
    <3>. SUFFICES ASSUME NEW q \in Partitions, NEW i \in 1 .. Len(log'[q])
                  PROVE  /\ i \in transactions'[q] => ~Held(q, i) /\ ~InBlock(q, i)
                         /\ Held(q, i) => ~InBlock(q, i)
                         /\ \A e, d \in Clients :
                                <<q, i>> \in InHand(e) \cap InHand(d) => e = d
                         /\ \A b, e \in blocks : <<q, i>> \in b \cap e => b = e
      BY <1>3, <2>0, <2>1 DEF NoTransactionTwice, SameHands
    <3>1. CASE i \in 1 .. Len(log[q])
      <4>1. i \in transactions'[q] => i \in transactions[q]
        BY <2>0, <3>1 DEF n
      <4>. QED  BY <3>1, <4>1 DEF Conserved, NoTransactionTwice
    <3>2. CASE q = p /\ i = n + 1
      BY <2>2, <3>2 DEF Held, InBlock
    <3>. QED  BY <2>3, <3>1, <3>2
  <2>. QED  BY <2>4, <2>5, <2>6, <2>7 DEF Conserved
<1>4. ASSUME NEW p \in Partitions, NEW c \in Clients, AnswerTake(p, c), HandSelection(p, c)
      PROVE  Conserved'
  <2>1. PICK Sel : Sel = SelectForBlock(p, limit[c] - Cardinality(acc[c]))
    OBVIOUS
  <2>2. /\ InHand(c)' = InHand(c) \cup ({p} \X Sel)
        /\ \A d \in Clients : d # c => InHand(d)' = InHand(d)
        /\ log' = log /\ blocks' = blocks
        /\ transactions'[p] = transactions[p] \ Sel
        /\ \A q \in Partitions : q # p => transactions'[q] = transactions[q]
    BY <1>4, <2>1 DEF HandSelection, OtherHandsSame, Safe, TypeOK
  <2>3. /\ Sel \subseteq transactions[p]
        /\ \A i \in transactions[p], j \in Sel :
               SenderAt(p, i) = SenderAt(p, j) /\ i <= j => i \in Sel
    BY <1>4, <2>1, AnswerFacts
  <2>4. \A q, i : InBlock(q, i)' <=> InBlock(q, i)
    BY <2>2 DEF InBlock
  <2>5. \A q, i : Held(q, i)' <=> (Held(q, i) \/ (q = p /\ i \in Sel))
    BY <2>2 DEF Held
  <2>6. NoTransactionLost'
    BY <2>2, <2>4, <2>5 DEF Conserved, NoTransactionLost
  <2>7. BlocksInLog'
    BY <2>2 DEF Conserved, BlocksInLog
  <2>8. SenderFifo'
    <3>. SUFFICES ASSUME NEW q \in Partitions, NEW i \in transactions'[q], NEW j \in 1 .. Len(log[q]),
                         Held(q, j)' \/ InBlock(q, j)', SenderAt(q, i) = SenderAt(q, j)
                  PROVE  j < i
      BY <2>2 DEF SenderFifo, SenderAt
    <3>1. i \in transactions[q] /\ (q = p => i \notin Sel)
      BY <2>2
    <3>2. CASE Held(q, j) \/ InBlock(q, j)
      BY <3>1, <3>2 DEF Conserved, SenderFifo
    <3>3. CASE q = p /\ j \in Sel
      <4>1. ~(i <= j)
        BY <2>3, <3>1, <3>3
      <4>2. i \in Nat /\ j \in Nat
        BY <3>1 DEF Safe, TypeOK
      <4>. QED  BY <4>1, <4>2
    <3>. QED  BY <2>4, <2>5, <3>2, <3>3
  <2>9. NoTransactionTwice'
    <3>. SUFFICES ASSUME NEW q \in Partitions, NEW i \in 1 .. Len(log[q])
                  PROVE  /\ i \in transactions'[q] => ~Held(q, i)' /\ ~InBlock(q, i)
                         /\ Held(q, i)' => ~InBlock(q, i)
                         /\ \A e, d \in Clients :
                                <<q, i>> \in InHand(e)' \cap InHand(d)' => e = d
                         /\ \A b, e \in blocks : <<q, i>> \in b \cap e => b = e
      BY <2>2, <2>4 DEF NoTransactionTwice
    <3>1. i \in transactions'[q] => ~Held(q, i)' /\ ~InBlock(q, i)
      BY <2>2, <2>5 DEF Conserved, NoTransactionTwice
    <3>2. Held(q, i)' => ~InBlock(q, i)
      BY <2>3, <2>5 DEF Conserved, NoTransactionTwice
    <3>3. \A e, d \in Clients : <<q, i>> \in InHand(e)' \cap InHand(d)' => e = d
      BY <2>2, <2>3 DEF Conserved, NoTransactionTwice, Held
    <3>4. \A b, e \in blocks : <<q, i>> \in b \cap e => b = e
      BY DEF Conserved, NoTransactionTwice
    <3>. QED  BY <3>1, <3>2, <3>3, <3>4
  <2>. QED  BY <2>6, <2>7, <2>8, <2>9 DEF Conserved
<1>. QED  BY <1>1, <1>2, <1>3, <1>4, HandEffects

LEMMA ConservedAlways == Spec => []Conserved
BY Safety, ConservedInit, ConservedStep, PTL DEF Spec

\* No transaction pushed on a partition is lost, whatever takers run at the
\* same time: it is in the Vec, in a running take_for_block or in a block.
THEOREM NothingIsLost == Spec => []NoTransactionLost
<1>1. Conserved => NoTransactionLost
  BY DEF Conserved
<1>. QED  BY <1>1, ConservedAlways, PTL

\* No transaction goes into two blocks, nor stays in the Vec once handed out.
THEOREM NothingIsTakenTwice == Spec => []NoTransactionTwice
<1>1. Conserved => NoTransactionTwice
  BY DEF Conserved
<1>. QED  BY <1>1, ConservedAlways, PTL

\* The transactions of a sender leave in the order they were pushed.
THEOREM SendersLeaveInOrder == Spec => []SenderFifo
<1>1. Conserved => SenderFifo
  BY DEF Conserved
<1>. QED  BY <1>1, ConservedAlways, PTL

(***************************************************************************)
(* The cap per sender.                                                     *)
(***************************************************************************)

Of(S, a) == {x \in S : SenderAt(x[1], x[2]) = a}

\* Every transaction is in the partition of its sender.
Routed ==
    \A p \in Partitions : \A i \in 1 .. Len(log[p]) :
        PartitionForAddress[SenderAt(p, i)] = p

HandsCapped ==
    \A c \in Clients : \A a \in Addresses :
        Cardinality(Of(InHand(c), a)) <= MaxPerAddress

Capped == Routed /\ HandsCapped /\ SenderCapPerBlock

LEMMA CappedInit == Init => Capped
<1>. SUFFICES ASSUME Init PROVE Capped
  OBVIOUS
<1>1. Routed /\ SenderCapPerBlock
  BY DEF Init, Routed, SenderCapPerBlock
<1>2. ASSUME NEW c \in Clients, NEW a \in Addresses
      PROVE  Cardinality(Of(InHand(c), a)) <= MaxPerAddress
  <2>1. Of(InHand(c), a) = {}
    BY DEF Init, InHand, Of
  <2>. QED  BY <2>1, FS_EmptySet, MempoolAssumption
<1>. QED  BY <1>1, <1>2 DEF Capped, HandsCapped

\* Pushing a transaction changes the sender of no earlier position.
LEMMA SameSenders ==
    ASSUME Safe, NEW p \in Partitions, NEW t \in Txs, Push(p, t), NEW S, NEW a,
           \A x \in S : x[1] \in Partitions /\ x[2] \in 1 .. Len(log[x[1]])
    PROVE  Of(S, a)' = Of(S, a)
<1>1. \A x \in S : log'[x[1]][x[2]] = log[x[1]][x[2]]
  BY PushGrows DEF Safe
<1>. QED  BY <1>1 DEF Of, SenderAt

LEMMA CappedStep ==
    ASSUME Safe, Conserved, Capped, [Next]_vars
    PROVE  Capped'
<1>. USE MempoolAssumption
<1>1. CASE SameHands /\ UNCHANGED <<log, transactions, blocks>>
  <2>1. \A S, a : Of(S, a)' = Of(S, a)
    BY <1>1 DEF Of, SenderAt
  <2>2. Routed' /\ SenderCapPerBlock'
    BY <1>1 DEF Capped, Routed, SenderCapPerBlock, SenderAt
  <2>3. \A c \in Clients : \A a \in Addresses : Of(InHand(c), a)' = Of(InHand(c), a)
    BY <1>1 DEF SameHands, Of, SenderAt
  <2>. QED  BY <2>2, <2>3 DEF Capped, HandsCapped
<1>2. ASSUME NEW c \in Clients, HandBlock(c)  PROVE Capped'
  <2>. USE <1>2 DEF HandBlock, OtherHandsSame
  <2>1. Routed'
    BY DEF Capped, Routed, SenderAt
  <2>2. HandsCapped'
    <3>. SUFFICES ASSUME NEW d \in Clients, NEW a \in Addresses
                  PROVE  Cardinality(Of(InHand(d), a)') <= MaxPerAddress
      BY DEF HandsCapped
    <3>1. CASE d = c
      <4>1. Of(InHand(d), a)' = {}
        BY <3>1 DEF Of
      <4>. QED  BY <4>1, FS_EmptySet
    <3>2. CASE d # c
      <4>1. Of(InHand(d), a)' = Of(InHand(d), a)
        BY <3>2 DEF Of, SenderAt
      <4>. QED  BY <4>1 DEF Capped, HandsCapped
    <3>. QED  BY <3>1, <3>2
  <2>3. SenderCapPerBlock'
    BY DEF Capped, HandsCapped, SenderCapPerBlock, Of, SenderAt
  <2>. QED  BY <2>1, <2>2, <2>3 DEF Capped
<1>3. ASSUME NEW p \in Partitions, NEW t \in Txs, PartitionForAddress[From[t]] = p,
             Push(p, t), SameHands
      PROVE  Capped'
  <2>0. UNCHANGED blocks
    BY <1>3 DEF Push
  <2>1. Routed'
    <3>. SUFFICES ASSUME NEW q \in Partitions, NEW i \in 1 .. Len(log'[q])
                  PROVE  PartitionForAddress[From[log'[q][i]]] = q
      BY DEF Routed, SenderAt
    <3>1. /\ Len(log[p]) \in Nat
          /\ Len(log'[p]) = Len(log[p]) + 1
          /\ log'[p][Len(log[p]) + 1] = t
          /\ \A j \in 1 .. Len(log[p]) : log'[p][j] = log[p][j]
          /\ q # p => log'[q] = log[q]
      BY <1>3, PushGrows, VecFinite DEF Safe
    <3>2. CASE i \in 1 .. Len(log[q])
      BY <3>1, <3>2 DEF Capped, Routed, SenderAt
    <3>3. CASE q = p /\ i = Len(log[p]) + 1
      BY <1>3, <3>1, <3>3
    <3>. QED  BY <3>1, <3>2, <3>3
  <2>2. HandsCapped'
    <3>. SUFFICES ASSUME NEW d \in Clients, NEW a \in Addresses
                  PROVE  Cardinality(Of(InHand(d), a)') <= MaxPerAddress
      BY DEF HandsCapped
    <3>1. PICK S : S = InHand(d)
      OBVIOUS
    <3>2. Of(S, a)' = Of(S, a)
      BY <1>3, <3>1, HandsInLog, SameSenders
    <3>3. Of(InHand(d), a)' = Of(S, a)'
      BY <1>3, <3>1 DEF SameHands, Of
    <3>. QED  BY <3>1, <3>2, <3>3 DEF Capped, HandsCapped
  <2>3. SenderCapPerBlock'
    <3>. SUFFICES ASSUME NEW b \in blocks, NEW a \in Addresses
                  PROVE  Cardinality(Of(b, a)') <= MaxPerAddress
      BY <2>0 DEF SenderCapPerBlock, Of
    <3>1. Of(b, a)' = Of(b, a)
      BY <1>3, SameSenders DEF Conserved, BlocksInLog
    <3>. QED  BY <3>1 DEF Capped, SenderCapPerBlock, Of
  <2>. QED  BY <2>1, <2>2, <2>3 DEF Capped
<1>4. ASSUME NEW p \in Partitions, NEW c \in Clients, AnswerTake(p, c), HandSelection(p, c)
      PROVE  Capped'
  <2>1. PICK max \in Nat : max = limit[c] - Cardinality(acc[c])
    BY <1>4, AnswerFacts
  <2>2. PICK Sel : Sel = SelectForBlock(p, max)
    OBVIOUS
  <2>3. /\ InHand(c)' = InHand(c) \cup ({p} \X Sel)
        /\ \A d \in Clients : d # c => InHand(d)' = InHand(d)
        /\ log' = log /\ blocks' = blocks
    BY <1>4, <2>1, <2>2 DEF HandSelection, OtherHandsSame
  <2>4. Routed' /\ SenderCapPerBlock'
    BY <2>3 DEF Capped, Routed, SenderCapPerBlock, SenderAt
  <2>5. /\ Sel \subseteq 1 .. Len(log[p]) /\ IsFiniteSet(Sel)
        /\ \A a : Cardinality({i \in Sel : SenderAt(p, i) = a}) <= MaxPerAddress
    <3>1. /\ Len(log[p]) \in Nat /\ transactions[p] \subseteq 1 .. Len(log[p])
      BY VecFinite DEF Safe
    <3>. QED  BY <2>2, <3>1, SelectionFacts
  <2>6. \A x \in InHand(c) : x[1] \in Partitions /\ x[1] # p /\ x[2] \in 1 .. Len(log[x[1]])
    <3>1. /\ part[c] = p /\ InHand(c) = acc[c] /\ GatherOk(c)
      BY <1>4 DEF AnswerTake, InHand, NoReply, Safe, Gathering
    <3>2. \A x \in acc[c] : x[1] \in Nat /\ x[1] < p
      BY <3>1 DEF GatherOk, Safe, TypeOK, Positions, Partitions
    <3>3. p \in Nat
      BY DEF Partitions
    <3>. QED  BY <3>1, <3>2, <3>3, HandsInLog
  <2>7. ASSUME NEW a \in Addresses  PROVE Cardinality(Of(InHand(c), a)') <= MaxPerAddress
    <3>0. Of(InHand(c), a)' = Of(InHand(c), a) \cup ({p} \X {i \in Sel : SenderAt(p, i) = a})
      BY <2>3 DEF Of, SenderAt
    <3>1. CASE PartitionForAddress[a] = p
      <4>1. Of(InHand(c), a) = {}
        BY <2>6, <3>1 DEF Of, Capped, Routed
      <4> DEFINE T == {i \in Sel : SenderAt(p, i) = a}
      <4>2. T \in SUBSET Sel /\ Cardinality(T) <= MaxPerAddress
        BY <2>5
      <4>. HIDE DEF T
      <4>3. IsFiniteSet(T)
        BY <2>5, <4>2, FS_Subset
      <4>4. Cardinality(T) \in Nat
        BY <4>3, FS_CardinalityType
      <4>5. Cardinality({p} \X T) = Cardinality({p}) * Cardinality(T) /\ Cardinality({p}) = 1
        BY <4>3, FS_Singleton, FS_Product
      <4>6. Cardinality({p} \X T) <= MaxPerAddress
        BY <4>2, <4>4, <4>5
      <4>. QED  BY <3>0, <4>1, <4>6 DEF T
    <3>2. CASE PartitionForAddress[a] # p
      <4>1. {i \in Sel : SenderAt(p, i) = a} = {}
        BY <2>5, <3>2 DEF Capped, Routed
      <4>2. Of(InHand(c), a)' = Of(InHand(c), a)
        BY <3>0, <4>1
      <4>. QED  BY <4>2 DEF Capped, HandsCapped
    <3>. QED  BY <3>1, <3>2
  <2>8. HandsCapped'
    <3>. SUFFICES ASSUME NEW d \in Clients, NEW a \in Addresses
                  PROVE  Cardinality(Of(InHand(d), a)') <= MaxPerAddress
      BY DEF HandsCapped
    <3>1. CASE d = c
      BY <2>7, <3>1
    <3>2. CASE d # c
      <4>1. Of(InHand(d), a)' = Of(InHand(d), a)
        BY <2>3, <3>2 DEF Of, SenderAt
      <4>. QED  BY <4>1 DEF Capped, HandsCapped
    <3>. QED  BY <3>1, <3>2
  <2>. QED  BY <2>4, <2>8 DEF Capped
<1>. QED  BY <1>1, <1>2, <1>3, <1>4, HandEffects

\* No block holds more than MAX_TRANSACTIONS_PER_ADDRESS_PER_BLOCK transactions
\* of one sender, although every partition counts on its own: a sender's
\* transactions are all in one partition.
THEOREM SendersAreCapped == Spec => []SenderCapPerBlock
<1>1. Capped => SenderCapPerBlock
  BY DEF Capped
<1>. QED  BY <1>1, Safety, ConservedAlways, CappedInit, CappedStep, PTL DEF Spec

-----------------------------------------------------------------------------

(***************************************************************************)
(* The selection loop and its closed form.                                 *)
(***************************************************************************)

LEMMA LeastElement ==
    ASSUME NEW T \in SUBSET Nat, T # {}
    PROVE  \E m \in T : \A t \in T : m <= t
<1> DEFINE R == OpToRel(<, Nat)
<1>1. \A x, y \in Nat : <<x, y>> \in R <=> x < y
  BY DEF OpToRel
<1>2. PICK m \in T : \A t \in T : ~(<<t, m>> \in R)
  <2>. HIDE DEF R
  <2>. QED  BY NatLessThanWellFounded, WFMin DEF R
<1>. HIDE DEF R
<1>3. \A t \in T : m <= t
  <2>. TAKE t \in T
  <2>1. m \in Nat /\ t \in Nat
    OBVIOUS
  <2>2. ~(t < m)
    BY <1>1, <1>2, <2>1
  <2>. QED  BY <2>1, <2>2
<1>. QED  BY <1>3

\* A loop over 1 .. n whose pass i takes a state s in S to T[i][s], and its run.
IsLoop(n, S, start, T) == n \in Nat /\ start \in S /\ T \in [1 .. n -> [S -> S]]

IsRun(n, S, start, T, f) ==
    /\ f \in [0 .. n -> S]
    /\ f[0] = start
    /\ \A i \in 1 .. n : f[i] = T[i][f[i - 1]]

LEMMA LoopHasRun ==
    ASSUME NEW n, NEW S, NEW start, NEW T, IsLoop(n, S, start, T)
    PROVE  \E f : IsRun(n, S, start, T, f)
<1> DEFINE Run(m, f) == /\ f \in [0 .. m -> S]
                        /\ f[0] = start
                        /\ \A i \in 1 .. m : f[i] = T[i][f[i - 1]]
           Bad == {m \in 0 .. n : ~ \E f : Run(m, f)}
<1>. n \in Nat /\ start \in S /\ T \in [1 .. n -> [S -> S]]
  BY DEF IsLoop
<1>1. CASE Bad = {}
  <2>1. \E f : Run(n, f)
    <3>1. n \in 0 .. n
      OBVIOUS
    <3>. HIDE DEF Run
    <3>. QED  BY <1>1, <3>1
  <2>. QED  BY <2>1 DEF IsRun
<1>2. CASE Bad # {}
  <2>1. PICK m \in Bad : \A k \in Bad : m <= k
    <3>1. Bad \in SUBSET Nat
      OBVIOUS
    <3>. HIDE DEF Bad
    <3>. QED  BY <1>2, <3>1, LeastElement
  <2>2. m # 0
    <3>. SUFFICES ASSUME m = 0  PROVE FALSE
      OBVIOUS
    <3>1. Run(0, [i \in 0 .. 0 |-> start])
      OBVIOUS
    <3>. QED  BY <2>1, <3>1
  <2>3. m - 1 \in 0 .. n /\ m - 1 \notin Bad
    <3>1. m \in 0 .. n
      OBVIOUS
    <3>2. m - 1 \in 0 .. n
      BY <2>2, <3>1
    <3>3. ~(m <= m - 1)
      BY <3>1
    <3>. HIDE DEF Bad
    <3>. QED  BY <2>1, <3>2, <3>3
  <2>4. PICK f : Run(m - 1, f)
    BY <2>3
  <2> DEFINE g == [i \in 0 .. m |-> IF i = m THEN T[m][f[m - 1]] ELSE f[i]]
  <2>5. m \in 1 .. n
    BY <2>2
  <2>6. f[m - 1] \in S
    BY <2>4, <2>5
  <2>7. T[m][f[m - 1]] \in S
    BY <2>5, <2>6
  <2>8. g \in [0 .. m -> S]
    <3>. SUFFICES ASSUME NEW i \in 0 .. m  PROVE (IF i = m THEN T[m][f[m - 1]] ELSE f[i]) \in S
      OBVIOUS
    <3>1. CASE i = m
      BY <2>7, <3>1
    <3>2. CASE i # m
      <4>1. i \in 0 .. (m - 1)
        BY <2>5, <3>2
      <4>. QED  BY <2>4, <3>2, <4>1
    <3>. QED  BY <3>1, <3>2
  <2>9. g[0] = start
    BY <2>4, <2>5
  <2>10. ASSUME NEW i \in 1 .. m  PROVE g[i] = T[i][g[i - 1]]
    <3>1. i - 1 \in 0 .. m /\ i - 1 # m /\ i \in 0 .. m
      BY <2>5
    <3>2. g[i - 1] = f[i - 1]
      BY <3>1
    <3>3. CASE i = m
      BY <3>1, <3>2, <3>3
    <3>4. CASE i # m
      <4>1. i \in 1 .. (m - 1)
        BY <2>5, <3>4
      <4>2. f[i] = T[i][f[i - 1]]
        BY <2>4, <4>1
      <4>. QED  BY <3>1, <3>2, <3>4, <4>2
    <3>. QED  BY <3>3, <3>4
  <2>11. Run(m, g)
    <3>. HIDE DEF g
    <3>. QED  BY <2>8, <2>9, <2>10
  <2>. QED  BY <2>1, <2>11
<1>. QED  BY <1>1, <1>2

\* Going through a finite set of naturals upwards and keeping the first k: an
\* element is kept exactly when fewer than k were kept before it, and until k are
\* kept none is left out.
LEMMA KeptBelow ==
    ASSUME NEW S \in SUBSET Nat, IsFiniteSet(S), NEW k \in Nat, NEW i \in Nat
    PROVE  LET F == {x \in S : Cardinality({j \in S : j <= x}) <= k}
               G == {x \in F : x < i}
           IN  /\ i \in S => (i \in F <=> Cardinality(G) < k)
               /\ Cardinality(G) < k => G = {x \in S : x < i}
<1> DEFINE F == {x \in S : Cardinality({j \in S : j <= x}) <= k}
           G == {x \in F : x < i}
           B == {x \in S : x < i}
           Upto(x) == {j \in S : j <= x}
<1>1. /\ IsFiniteSet(G) /\ Cardinality(G) \in Nat
      /\ IsFiniteSet(B) /\ Cardinality(B) \in Nat
      /\ \A x : IsFiniteSet(Upto(x)) /\ Cardinality(Upto(x)) \in Nat
  <2>1. G \in SUBSET S /\ B \in SUBSET S /\ \A x : Upto(x) \in SUBSET S
    OBVIOUS
  <2>. HIDE DEF G, B, Upto
  <2>. QED  BY <2>1, FS_Subset, FS_CardinalityType
<1>a. ASSUME NEW y \in S
      PROVE  Upto(y) = {x \in S : x < y} \cup {y} /\ y \notin {x \in S : x < y}
  <2>1. \A x \in S : x <= y <=> (x < y \/ x = y)
    OBVIOUS
  <2>2. ~(y < y)
    OBVIOUS
  <2>. QED  BY <2>1, <2>2
<1>2. ASSUME Cardinality(G) < k  PROVE G = B
  <2>1. CASE B \subseteq F
    BY <2>1
  <2>2. CASE ~(B \subseteq F)
    <3> DEFINE Out == B \ F
    <3>1. PICK m \in Out : \A t \in Out : m <= t
      <4>1. Out \in SUBSET Nat /\ Out # {}
        BY <2>2
      <4>. HIDE DEF Out
      <4>. QED  BY <4>1, LeastElement
    <3> DEFINE L == {x \in S : x < m}
    <3>2. m \in S /\ m \in Nat /\ m < i /\ ~(Cardinality(Upto(m)) <= k)
      OBVIOUS
    <3>3. L \in SUBSET G
      <4>. SUFFICES ASSUME NEW x \in L  PROVE x \in G
        OBVIOUS
      <4>1. x \in Nat /\ x < i /\ ~(m <= x)
        BY <3>2
      <4>2. x \notin Out
        BY <3>1, <4>1
      <4>. QED  BY <4>1, <4>2
    <3>4. Upto(m) = L \cup {m} /\ m \notin L
      BY <1>a, <3>2
    <3>5. IsFiniteSet(L) /\ Cardinality(L) <= Cardinality(G) /\ Cardinality(L) \in Nat
      <4>. HIDE DEF L, G
      <4>. QED  BY <1>1, <3>3, FS_Subset, FS_CardinalityType
    <3>6. Cardinality(Upto(m)) = Cardinality(L) + 1
      <4>. HIDE DEF L, Upto
      <4>. QED  BY <3>4, <3>5, FS_AddElement
    <3>. HIDE DEF L, Upto, G, F, B, Out
    <3>. QED  BY <1>1, <1>2, <3>2, <3>5, <3>6
  <2>. QED  BY <2>1, <2>2
<1>3. ASSUME i \in S, Cardinality(G) < k  PROVE i \in F
  <2>1. Upto(i) = G \cup {i} /\ i \notin G
    <3>1. G = {x \in S : x < i}
      BY <1>2, <1>3
    <3>. HIDE DEF G, Upto
    <3>. QED  BY <1>3, <1>a, <3>1
  <2>2. Cardinality(Upto(i)) = Cardinality(G) + 1
    <3>. HIDE DEF G, Upto
    <3>. QED  BY <1>1, <2>1, FS_AddElement
  <2>3. Cardinality(Upto(i)) <= k
    <3>. HIDE DEF G, Upto
    <3>. QED  BY <1>1, <1>3, <2>2
  <2>. QED  BY <1>3, <2>3
<1>4. ASSUME i \in F  PROVE Cardinality(G) < k
  <2>1. G \cup {i} \in SUBSET Upto(i) /\ i \notin G
    <3>1. i \in S
      BY <1>4
    <3>2. Upto(i) = B \cup {i} /\ i \notin B
      BY <1>a, <3>1
    <3>3. G \subseteq B
      OBVIOUS
    <3>. HIDE DEF G, Upto, B
    <3>. QED  BY <3>2, <3>3
  <2>2. Cardinality(G \cup {i}) = Cardinality(G) + 1
    <3>. HIDE DEF G
    <3>. QED  BY <1>1, <2>1, FS_AddElement
  <2>3. Cardinality(G \cup {i}) <= Cardinality(Upto(i))
    <3>. HIDE DEF G, Upto
    <3>. QED  BY <1>1, <2>1, FS_Subset
  <2>4. Cardinality(Upto(i)) <= k
    BY <1>4
  <2>. HIDE DEF G, Upto
  <2>. QED  BY <1>1, <2>2, <2>3, <2>4
<1>. QED  BY <1>2, <1>3, <1>4

\* What the loop has counted when it comes to position i decides as the closed
\* form does.
LEMMA SelectionCondition ==
    ASSUME NEW p \in Partitions, NEW n \in Nat, NEW max \in Nat,
           transactions[p] \subseteq 1 .. n, NEW i \in 1 .. n
    PROVE  LET Before == {j \in SelectForBlock(p, max) : j < i}
               Own == {j \in Before : SenderAt(p, j) = SenderAt(p, i)}
           IN  i \in SelectForBlock(p, max) <=>
                   /\ i \in transactions[p]
                   /\ Cardinality(Before) # max
                   /\ ~(Cardinality(Own) >= MaxPerAddress)
<1> DEFINE V == transactions[p]
           E == Eligible(p)
           Sel == SelectForBlock(p, max)
           Before == {j \in Sel : j < i}
           Own == {j \in Before : SenderAt(p, j) = SenderAt(p, i)}
           A == {j \in V : SenderAt(p, j) = SenderAt(p, i)}
           EA == {x \in A : Cardinality({j \in A : j <= x}) <= MaxPerAddress}
           EABefore == {x \in EA : x < i}
<1>1. V \in SUBSET Nat /\ IsFiniteSet(V) /\ i \in Nat
  <2>1. IsFiniteSet(1 .. n)
    BY FS_Interval
  <2>2. V \in SUBSET (1 .. n)
    OBVIOUS
  <2>. QED  BY <2>1, <2>2, FS_Subset
<1>2. E \in SUBSET V
  BY DEF Eligible
<1>3. E \in SUBSET Nat /\ IsFiniteSet(E)
  BY <1>1, <1>2, FS_Subset
<1>4. /\ i \in E => (i \in Sel <=> Cardinality(Before) < max)
      /\ Cardinality(Before) < max => Before = {x \in E : x < i}
  <2>1. Sel = {x \in E : Cardinality({j \in E : j <= x}) <= max}
    BY DEF SelectForBlock
  <2>. HIDE DEF E, Sel
  <2>. QED  BY <1>1, <1>3, <2>1, KeptBelow
<1>5. Sel \subseteq E
  BY DEF SelectForBlock
<1>6. Cardinality(Before) \in Nat /\ Cardinality(Before) <= max
  <2>1. IsFiniteSet(Sel) /\ Cardinality(Sel) <= max
    BY SelectionFacts
  <2>2. Before \in SUBSET Sel
    OBVIOUS
  <2>. HIDE DEF Before, Sel
  <2>3. Cardinality(Before) <= Cardinality(Sel) /\ IsFiniteSet(Before)
    BY <2>1, <2>2, FS_Subset
  <2>. QED  BY <2>1, <2>3, FS_CardinalityType
<1>7. A \in SUBSET Nat /\ IsFiniteSet(A)
  <2>1. A \in SUBSET V
    OBVIOUS
  <2>. HIDE DEF A
  <2>. QED  BY <1>1, <2>1, FS_Subset
<1>8. /\ i \in A => (i \in EA <=> Cardinality(EABefore) < MaxPerAddress)
      /\ IsFiniteSet(EABefore)
  <2>1. i \in A => (i \in EA <=> Cardinality(EABefore) < MaxPerAddress)
    <3>1. MaxPerAddress \in Nat
      BY MempoolAssumption
    <3>2. EA = {x \in A : Cardinality({j \in A : j <= x}) <= MaxPerAddress}
      OBVIOUS
    <3>. HIDE DEF A, EA
    <3>. QED  BY <1>1, <1>7, <3>1, <3>2, KeptBelow
  <2>2. EABefore \in SUBSET A
    OBVIOUS
  <2>. HIDE DEF A, EA, EABefore
  <2>. QED  BY <1>7, <2>1, <2>2, FS_Subset
<1>9. EA = {x \in E : SenderAt(p, x) = SenderAt(p, i)}
  <2>1. ASSUME NEW x \in A
        PROVE  {j \in V : j <= x /\ SenderAt(p, j) = SenderAt(p, x)} = {j \in A : j <= x}
    OBVIOUS
  <2>2. E = {x \in V : Cardinality({j \in V : j <= x /\ SenderAt(p, j) = SenderAt(p, x)})
                           <= MaxPerAddress}
    BY DEF Eligible
  <2>3. ASSUME NEW x \in A  PROVE x \in EA <=> x \in E
    <3>1. Cardinality({j \in V : j <= x /\ SenderAt(p, j) = SenderAt(p, x)})
              = Cardinality({j \in A : j <= x})
      BY <2>1
    <3>2. x \in V
      OBVIOUS
    <3>. HIDE DEF V, A, E
    <3>. QED  BY <2>2, <3>1, <3>2
  <2>4. EA \subseteq A
    OBVIOUS
  <2>. HIDE DEF EA, E
  <2>. QED  BY <1>2, <2>3, <2>4
<1>10. ASSUME Cardinality(Before) < max  PROVE Own = EABefore
  <2>1. Before = {x \in E : x < i}
    BY <1>4, <1>10
  <2>. HIDE DEF Before, EA, E
  <2>. QED  BY <1>9, <2>1
<1>11. Cardinality(EABefore) \in Nat
  <2>. HIDE DEF EABefore
  <2>. QED  BY <1>8, FS_CardinalityType
<1>12. i \in V => (i \in E <=> Cardinality(EABefore) < MaxPerAddress)
  <2>1. i \in V => i \in A
    OBVIOUS
  <2>2. i \in EA <=> i \in E
    <3>. HIDE DEF EA, E
    <3>. QED  BY <1>9
  <2>. HIDE DEF EA, E, A, EABefore
  <2>. QED  BY <1>8, <2>1, <2>2
<1>. HIDE DEF V, E, Sel, Before, Own, A, EA, EABefore
<1>13. ASSUME i \in Sel
       PROVE  i \in V /\ Cardinality(Before) # max /\ ~(Cardinality(Own) >= MaxPerAddress)
  <2>1. i \in E /\ i \in V
    BY <1>2, <1>5, <1>13
  <2>2. Cardinality(Before) < max
    BY <1>4, <1>13, <2>1
  <2>3. Cardinality(EABefore) < MaxPerAddress /\ Own = EABefore
    BY <1>10, <1>12, <2>1, <2>2
  <2>. QED  BY <1>6, <1>11, <2>1, <2>2, <2>3, MempoolAssumption
<1>14. ASSUME i \in V, Cardinality(Before) # max, ~(Cardinality(Own) >= MaxPerAddress)
       PROVE  i \in Sel
  <2>1. Cardinality(Before) < max
    BY <1>6, <1>14
  <2>2. Own = EABefore
    BY <1>10, <2>1
  <2>3. Cardinality(EABefore) < MaxPerAddress
    BY <1>11, <1>14, <2>2, MempoolAssumption
  <2>. QED  BY <1>4, <1>12, <1>14, <2>1, <2>3
<1>15. i \in Sel <=>
          i \in V /\ Cardinality(Before) # max /\ ~(Cardinality(Own) >= MaxPerAddress)
  BY <1>13, <1>14
<1>. QED  BY <1>15 DEF V, Sel, Before, Own

\* The loop, position by position.
LEMMA LoopRuns ==
    ASSUME TypeOK, NEW p \in Partitions, NEW max \in Nat
    PROVE  ScanLoop(p, max) = SelectForBlock(p, max)
<1> DEFINE n == Len(log[p])
           V == transactions[p]
           States == [selected : SUBSET (1 .. n), count : [Addresses -> Nat]]
           start == [selected |-> {}, count |-> [a \in Addresses |-> 0]]
           Skip(i, s) == \/ i \notin V
                         \/ Cardinality(s.selected) = max
                         \/ s.count[SenderAt(p, i)] >= MaxPerAddress
           Step(i, s) ==
               IF Skip(i, s) THEN s
               ELSE [selected |-> s.selected \cup {i},
                     count |-> [s.count EXCEPT ![SenderAt(p, i)] = @ + 1]]
           IsScan(f) ==
               f = [i \in 0 .. n |-> IF i = 0 THEN start ELSE Step(i, f[i - 1])]
           scan == CHOOSE f : IsScan(f)
           Sel == SelectForBlock(p, max)
           Upto(i) == {j \in Sel : j <= i}
           Own(i, a) == {j \in Sel : j <= i /\ SenderAt(p, j) = a}
<1>1. ScanLoop(p, max) = scan[n].selected
  BY DEF ScanLoop
<1>2. /\ n \in Nat /\ V \subseteq 1 .. n
      /\ \A i \in 1 .. n : SenderAt(p, i) \in Addresses
  <2>1. n \in Nat /\ V \subseteq 1 .. n
    BY VecFinite
  <2>2. log[p] \in Seq(Txs)
    BY DEF TypeOK
  <2>3. \A i \in 1 .. n : log[p][i] \in Txs
    BY <2>2, ElementOfSeq
  <2>. QED  BY <2>1, <2>3, MempoolAssumption DEF SenderAt
<1>3. Sel \subseteq V /\ IsFiniteSet(Sel)
  <2>. HIDE DEF n
  <2>. QED  BY <1>2, SelectionFacts DEF n
<1>4. ASSUME NEW i \in 1 .. n, NEW s \in States  PROVE Step(i, s) \in States
  <2>1. s.selected \cup {i} \in SUBSET (1 .. n)
    OBVIOUS
  <2>2. SenderAt(p, i) \in Addresses
    BY <1>2
  <2>3. [s.count EXCEPT ![SenderAt(p, i)] = @ + 1] \in [Addresses -> Nat]
    BY <2>2
  <2>. HIDE DEF Skip
  <2>. QED  BY <2>1, <2>3
<1>5. start \in States
  OBVIOUS
<1>6. \E f : IsScan(f)
  <2> DEFINE T == [i \in 1 .. n |-> [s \in States |-> Step(i, s)]]
  <2>1. T \in [1 .. n -> [States -> States]]
    <3>. HIDE DEF Step, States, n
    <3>. QED  BY <1>4
  <2>. HIDE DEF start, States, n, Step
  <2>2. \A i \in 1 .. n : \A s \in States : T[i][s] = Step(i, s)
    OBVIOUS
  <2>. HIDE DEF T
  <2>3. PICK f \in [0 .. n -> States] :
            f[0] = start /\ \A i \in 1 .. n : f[i] = T[i][f[i - 1]]
    <3>1. IsLoop(n, States, start, T)
      BY <1>2, <1>5, <2>1 DEF IsLoop
    <3>2. \E f : IsRun(n, States, start, T, f)
      BY <3>1, LoopHasRun
    <3>. QED  BY <3>2 DEF IsRun
  <2>4. ASSUME NEW i \in 0 .. n
        PROVE  f[i] = IF i = 0 THEN start ELSE Step(i, f[i - 1])
    <3>1. CASE i = 0
      BY <2>3, <3>1
    <3>2. CASE i # 0
      <4>1. i \in 1 .. n /\ i - 1 \in 0 .. n
        BY <1>2, <3>2
      <4>2. f[i - 1] \in States
        BY <2>3, <4>1
      <4>. QED  BY <2>2, <2>3, <3>2, <4>1, <4>2
    <3>. QED  BY <3>1, <3>2
  <2>5. f = [i \in 0 .. n |-> IF i = 0 THEN start ELSE Step(i, f[i - 1])]
    BY <2>3, <2>4
  <2>. QED  BY <2>5
<1>7. IsScan(scan)
  <2>. HIDE DEF IsScan
  <2>. QED  BY <1>6
<1>8. /\ scan[0] = start
      /\ \A i \in 1 .. n : scan[i] = Step(i, scan[i - 1])
  <2>. HIDE DEF scan, start, Step, n
  <2>1. 0 \in 0 .. n /\ \A i \in 1 .. n : i \in 0 .. n /\ i # 0
    BY <1>2
  <2>. QED  BY <1>7, <2>1
<1> DEFINE Good(i) == scan[i] = [selected |-> Upto(i),
                                 count |-> [a \in Addresses |-> Cardinality(Own(i, a))]]
<1>9. Good(0)
  <2>1. Upto(0) = {} /\ \A a : Own(0, a) = {}
    BY <1>2, <1>3
  <2>2. Cardinality({}) = 0
    BY FS_EmptySet
  <2>. HIDE DEF scan, Upto, Own
  <2>. QED  BY <1>8, <2>1, <2>2
<1>10. ASSUME NEW i \in 1 .. n, Good(i - 1)  PROVE Good(i)
  <2> DEFINE a == SenderAt(p, i)
             s == scan[i - 1]
             Before == {j \in Sel : j < i}
  <2>1. i \in Nat /\ i - 1 \in Nat /\ Sel \in SUBSET Nat
    BY <1>2, <1>3
  <2>2. \A j \in Sel : /\ j <= i - 1 <=> j < i
                       /\ j <= i <=> (j < i \/ j = i)
    BY <2>1
  <2>3. Upto(i - 1) = Before /\ \A b : Own(i - 1, b) = {j \in Before : SenderAt(p, j) = b}
    <3>. HIDE DEF Sel
    <3>. QED  BY <2>2
  <2>4. i \in Sel <=> /\ i \in V
                      /\ Cardinality(Before) # max
                      /\ ~(Cardinality(Own(i - 1, a)) >= MaxPerAddress)
    <3>1. i \in Sel <=>
             /\ i \in V
             /\ Cardinality(Before) # max
             /\ ~(Cardinality({j \in Before : SenderAt(p, j) = a}) >= MaxPerAddress)
      <4>. HIDE DEF n
      <4>. QED  BY <1>2, SelectionCondition
    <3>. HIDE DEF Before, Own, Sel, V
    <3>. QED  BY <2>3, <3>1
  <2>5. /\ s.selected = Before
        /\ a \in Addresses
        /\ s.count[a] = Cardinality(Own(i - 1, a))
        /\ s.count = [b \in Addresses |-> Cardinality(Own(i - 1, b))]
    <3>1. a \in Addresses
      BY <1>2
    <3>. HIDE DEF scan, Before, Own, Upto, a
    <3>. QED  BY <1>10, <2>3, <3>1
  <2>6. i \in Sel <=> ~Skip(i, s)
    <3>. HIDE DEF scan, Before, Own, Sel, V, s
    <3>. QED  BY <2>4, <2>5
  <2>7. scan[i] = Step(i, s)
    <3>. HIDE DEF scan, Step
    <3>. QED  BY <1>8
  <2>8. CASE i \notin Sel
    <3>1. Upto(i) = Upto(i - 1) /\ \A b : Own(i, b) = Own(i - 1, b)
      <4>. HIDE DEF Sel
      <4>. QED  BY <2>2, <2>8
    <3>2. scan[i] = s
      <4>. HIDE DEF scan, Skip, Sel
      <4>. QED  BY <2>6, <2>7, <2>8
    <3>3. [b \in Addresses |-> Cardinality(Own(i, b))]
              = [b \in Addresses |-> Cardinality(Own(i - 1, b))]
      <4>. HIDE DEF Own
      <4>. QED  BY <3>1
    <3>. HIDE DEF scan, Upto, Own
    <3>. QED  BY <1>10, <3>1, <3>2, <3>3
  <2>9. CASE i \in Sel
    <3>1. Upto(i) = Before \cup {i}
      <4>. HIDE DEF Sel
      <4>. QED  BY <2>2, <2>9
    <3>2. \A b : b # a => Own(i, b) = Own(i - 1, b)
      <4>. HIDE DEF Sel
      <4>. QED  BY <2>2, <2>9
    <3>3. Own(i, a) = Own(i - 1, a) \cup {i} /\ i \notin Own(i - 1, a)
      <4>1. ~(i <= i - 1)
        BY <2>1
      <4>. HIDE DEF Sel
      <4>. QED  BY <2>2, <2>9, <4>1
    <3>4. IsFiniteSet(Own(i - 1, a))
      <4>1. Own(i - 1, a) \in SUBSET Sel
        OBVIOUS
      <4>. HIDE DEF Own, Sel
      <4>. QED  BY <1>3, <4>1, FS_Subset
    <3>5. Cardinality(Own(i, a)) = Cardinality(Own(i - 1, a)) + 1
      <4>. HIDE DEF Own, a
      <4>. QED  BY <3>3, <3>4, FS_AddElement
    <3>6. [s.count EXCEPT ![a] = @ + 1] = [b \in Addresses |-> Cardinality(Own(i, b))]
      <4>1. \A b \in Addresses : b # a => Cardinality(Own(i, b)) = Cardinality(Own(i - 1, b))
        <5>. HIDE DEF Own, a
        <5>. QED  BY <3>2
      <4>. HIDE DEF Own, a, s
      <4>. QED  BY <2>5, <3>5, <4>1
    <3>7. scan[i] = [selected |-> s.selected \cup {i},
                     count |-> [s.count EXCEPT ![a] = @ + 1]]
      <4>. HIDE DEF scan, Skip, Sel, s
      <4>. QED  BY <2>6, <2>7, <2>9
    <3>. HIDE DEF scan, s, Before, Upto, Own, a
    <3>. QED  BY <2>5, <3>1, <3>6, <3>7
  <2>. QED  BY <2>8, <2>9
<1>11. Good(n)
  <2> DEFINE Bad == {i \in 0 .. n : ~Good(i)}
  <2>1. SUFFICES ASSUME Bad # {}  PROVE FALSE
    <3>1. n \in 0 .. n
      BY <1>2
    <3>. HIDE DEF Good, n
    <3>. QED  BY <3>1
  <2>2. PICK m \in Bad : \A k \in Bad : m <= k
    <3>1. Bad \in SUBSET Nat
      OBVIOUS
    <3>. HIDE DEF Bad
    <3>. QED  BY <2>1, <3>1, LeastElement
  <2>. HIDE DEF Good
  <2>3. m \in 1 .. n
    <3>1. m \in 0 .. n /\ m # 0
      BY <1>9
    <3>. HIDE DEF n
    <3>. QED  BY <1>2, <3>1
  <2>4. m - 1 \in 0 .. n /\ ~(m <= m - 1)
    <3>. HIDE DEF n
    <3>. QED  BY <1>2, <2>3
  <2>5. Good(m - 1)
    BY <2>2, <2>4
  <2>6. Good(m)
    BY <1>10, <2>3, <2>5
  <2>. QED  BY <2>6
<1>12. Upto(n) = Sel
  <2>1. \A j \in Sel : j <= n
    <3>. HIDE DEF n, Sel, V
    <3>. QED  BY <1>2, <1>3
  <2>. HIDE DEF Sel
  <2>. QED  BY <2>1
<1>13. scan[n].selected = Sel
  <2>. HIDE DEF scan, Sel, Upto, n, Own
  <2>. QED  BY <1>11, <1>12
<1>. QED  BY <1>1, <1>13

\* Whatever the partition holds, what earlier takes left behind included, and for
\* every max: the loop of the TakeForBlock arm, with its counter per sender, selects
\* what the closed form says.
THEOREM LoopIsClosedForm == Spec => []LoopSelectsClosedForm
<1>1. TypeOK => LoopSelectsClosedForm
  <2>1. 0 .. MaxSubmissions \subseteq Nat
    BY MempoolAssumption
  <2>. QED  BY <2>1, LoopRuns DEF LoopSelectsClosedForm
<1>. QED  BY <1>1, TypeCorrect, PTL

(***************************************************************************)
(* What len reports to a caller of its own additions.                      *)
(***************************************************************************)

AddsUpTo(p, i) == {j \in 1 .. i : inbox[p][j].kind = "add"}

\* How long partition p's log is once the first i commands of its channel are
\* served.
Reach(p, i) == Len(log[p]) + Cardinality(AddsUpTo(p, i))

ReachAll(p) == Reach(p, Len(inbox[p]))

Taken == (UNION blocks) \cup UNION {InHand(c) : c \in Clients}

\* O holds the positions that client c's additions have or will get.  While c is
\* in the len loop: its request travels behind the additions of O in that channel,
\* and what the loop has counted covers what O has in the partitions it passed.
Owns(c, O) ==
    /\ IsFiniteSet(O)
    /\ Cardinality(O) >= added[c]
    /\ \A x \in O : x \in Positions /\ x[2] <= ReachAll(x[1])
    /\ pc[c] = "len" =>
           /\ \A p \in Partitions : \A i \in 1 .. Len(inbox[p]) :
                  inbox[p][i].client = c =>
                      \A x \in O : x[1] = p => x[2] <= Reach(p, i)
           /\ Cardinality({x \in O : x[1] < part[c]} \ Taken) <= total[c]
           /\ wait[c] = "answered" =>
                  Cardinality({x \in O : x[1] = part[c]} \ Taken) <= reply[c].len

EveryoneOwns == \A c \in Clients : \E O : Owns(c, O)

LEMMA AddsFinite ==
    ASSUME TypeOK, NEW p \in Partitions, NEW i \in Nat
    PROVE  /\ Len(log[p]) \in Nat
           /\ IsFiniteSet(AddsUpTo(p, i))
           /\ Cardinality(AddsUpTo(p, i)) \in Nat
           /\ Reach(p, i) \in Nat
<1>1. IsFiniteSet(1 .. i)
  BY FS_Interval
<1>2. AddsUpTo(p, i) \in SUBSET (1 .. i)
  BY DEF AddsUpTo
<1>3. IsFiniteSet(AddsUpTo(p, i)) /\ Cardinality(AddsUpTo(p, i)) \in Nat
  BY <1>1, <1>2, FS_Subset, FS_CardinalityType
<1>4. Len(log[p]) \in Nat
  BY LenProperties DEF TypeOK
<1>. QED  BY <1>3, <1>4 DEF Reach

\* The same commands up to i, but for their clients, and the same log.
LEMMA SameReach ==
    ASSUME NEW p \in Partitions, NEW i \in Nat, log'[p] = log[p],
           \A j \in 1 .. i : inbox'[p][j].kind = inbox[p][j].kind
    PROVE  Reach(p, i)' = Reach(p, i)
<1>1. AddsUpTo(p, i)' = AddsUpTo(p, i)
  BY DEF AddsUpTo
<1>. QED  BY <1>1 DEF Reach

\* Serving the head of a channel: the rest reaches as far as before.
LEMMA ServedReach ==
    ASSUME Safe, NEW p \in Partitions, inbox[p] # <<>>,
           inbox'[p] = Tail(inbox[p]), NEW i \in 1 .. Len(inbox[p]), Len(log'[p]) \in Nat,
           IF Head(inbox[p]).kind = "add"
           THEN Len(log'[p]) = Len(log[p]) + 1 ELSE Len(log'[p]) = Len(log[p])
    PROVE  Reach(p, i - 1)' = Reach(p, i)
<1> DEFINE A == AddsUpTo(p, i)
           R == {j \in A : j # 1}
<1>1. /\ Len(inbox[p]) \in Nat \ {0}
      /\ Head(inbox[p]) = inbox[p][1]
      /\ Len(Tail(inbox[p])) = Len(inbox[p]) - 1
      /\ \A k \in 1 .. Len(Tail(inbox[p])) : Tail(inbox[p])[k] = inbox[p][k + 1]
  BY ChannelHead DEF Safe
<1>2. i \in Nat /\ i - 1 \in Nat
  BY <1>1
<1>3. IsFiniteSet(A) /\ Cardinality(A) \in Nat /\ Len(log[p]) \in Nat
  BY <1>2, AddsFinite DEF Safe
<1>4. R \in SUBSET A /\ IsFiniteSet(R)
  BY <1>3, FS_Subset
<1> DEFINE C == {j \in 1 .. (i - 1) : inbox'[p][j].kind = "add"}
           f == [j \in C |-> j + 1]
<1>5. C = {j \in 1 .. (i - 1) : inbox[p][j + 1].kind = "add"}
  BY <1>1
<1>6. f \in Bijection(C, R)
  <2>1. \A j \in C : j + 1 \in R
    BY <1>1, <1>5 DEF AddsUpTo
  <2>2. \A k \in R : k - 1 \in C /\ (k - 1) + 1 = k
    BY <1>1, <1>5 DEF AddsUpTo
  <2>3. \A j, k \in C : j + 1 = k + 1 => j = k
    OBVIOUS
  <2>. HIDE DEF C, R
  <2>4. f \in Injection(C, R)
    BY <2>1, <2>3 DEF Injection, IsInjective
  <2>5. f \in Surjection(C, R)
    BY <2>1, <2>2 DEF Surjection
  <2>. QED  BY <2>4, <2>5 DEF Bijection
<1>7. Cardinality(C) = Cardinality(R) /\ Cardinality(R) \in Nat
  <2>. HIDE DEF C, R, f
  <2>1. f \in Injection(C, R) /\ f \in Surjection(C, R)
    BY <1>6 DEF Bijection
  <2>. QED  BY <1>4, <2>1, FS_Injection, FS_CardinalityType
<1>8. /\ Reach(p, i - 1)' = Len(log'[p]) + Cardinality(C)
      /\ Reach(p, i) = Len(log[p]) + Cardinality(A)
  BY DEF Reach, AddsUpTo
<1>9. CASE Head(inbox[p]).kind = "add"
  <2>1. 1 \in A /\ R = A \ {1}
    BY <1>1, <1>9 DEF AddsUpTo
  <2>2. Cardinality(R) = Cardinality(A) - 1
    BY <1>3, <2>1, FS_RemoveElement
  <2>3. Len(log'[p]) = Len(log[p]) + 1
    BY <1>9
  <2>. HIDE DEF A, C, R
  <2>. QED  BY <1>3, <1>7, <1>8, <2>2, <2>3
<1>10. CASE Head(inbox[p]).kind # "add"
  <2>1. R = A
    BY <1>1, <1>10 DEF AddsUpTo
  <2>. QED  BY <1>3, <1>7, <1>8, <1>10, <2>1
<1>. QED  BY <1>9, <1>10

\* One step: a channel and its log reach at least as far as before, and the
\* request of a client reaches what it reached, or all there was when it was sent.
LEMMA ReachStep ==
    ASSUME Safe, [Next]_vars, NEW q \in Partitions
    PROVE  /\ ReachAll(q) \in Nat /\ ReachAll(q)' \in Nat /\ ReachAll(q) <= ReachAll(q)'
           /\ \A c \in Clients : SendAdd(c) /\ q = AddPartition(c) =>
                  ReachAll(q)' = ReachAll(q) + 1
           /\ \A i \in 1 .. Len(inbox'[q]) : inbox'[q][i].client \in Clients =>
                  \/ ReachAll(q) <= Reach(q, i)'
                  \/ \E j \in 1 .. Len(inbox[q]) :
                         /\ inbox[q][j].client = inbox'[q][i].client
                         /\ Reach(q, j) = Reach(q, i)'
<1>. USE MempoolAssumption
<1>1. TypeOK /\ TypeOK'
  BY TypeStep DEF Safe
<1>2. /\ inbox[q] \in Seq(Commands) /\ inbox'[q] \in Seq(Commands)
      /\ log[q] \in Seq(Txs) /\ log'[q] \in Seq(Txs)
      /\ Len(inbox[q]) \in Nat /\ Len(inbox'[q]) \in Nat
      /\ Len(log[q]) \in Nat /\ Len(log'[q]) \in Nat
  <2>1. /\ inbox[q] \in Seq(Commands) /\ inbox'[q] \in Seq(Commands)
        /\ log[q] \in Seq(Txs) /\ log'[q] \in Seq(Txs)
    BY <1>1 DEF TypeOK
  <2>. QED  BY <2>1, LenProperties
<1>3. /\ \A i \in Nat : Reach(q, i) \in Nat /\ Reach(q, i)' \in Nat
      /\ ReachAll(q) \in Nat /\ ReachAll(q)' \in Nat
  <2>1. \A i \in Nat : Reach(q, i) \in Nat
    BY <1>1, AddsFinite
  <2>2. \A i \in Nat : Reach(q, i)' \in Nat
    <3>. TAKE i \in Nat
    <3>1. IsFiniteSet(1 .. i) /\ AddsUpTo(q, i)' \in SUBSET (1 .. i)
      BY FS_Interval DEF AddsUpTo
    <3>2. Cardinality(AddsUpTo(q, i)') \in Nat
      BY <3>1, FS_Subset, FS_CardinalityType
    <3>. QED  BY <1>2, <3>2 DEF Reach
  <2>. QED  BY <1>2, <2>1, <2>2 DEF ReachAll
<1>a. SUFFICES
        /\ ReachAll(q) <= ReachAll(q)'
        /\ \A c \in Clients : SendAdd(c) /\ q = AddPartition(c) =>
               ReachAll(q)' = ReachAll(q) + 1
        /\ \A i \in 1 .. Len(inbox'[q]) : inbox'[q][i].client \in Clients =>
               \/ ReachAll(q) <= Reach(q, i)'
               \/ \E j \in 1 .. Len(inbox[q]) :
                      /\ inbox[q][j].client = inbox'[q][i].client
                      /\ Reach(q, j) = Reach(q, i)'
  BY <1>3
<1> DEFINE Further ==
             /\ ReachAll(q) <= ReachAll(q)'
             /\ \A i \in 1 .. Len(inbox'[q]) : inbox'[q][i].client \in Clients =>
                  \/ ReachAll(q) <= Reach(q, i)'
                  \/ \E j \in 1 .. Len(inbox[q]) :
                         /\ inbox[q][j].client = inbox'[q][i].client
                         /\ Reach(q, j) = Reach(q, i)'
<1>4. ASSUME log'[q] = log[q], Len(inbox'[q]) = Len(inbox[q]),
             \A i \in 1 .. Len(inbox[q]) :
                 /\ inbox'[q][i].kind = inbox[q][i].kind
                 /\ inbox'[q][i].client \in Clients =>
                        inbox'[q][i].client = inbox[q][i].client
      PROVE  Further
  <2>1. \A i \in 0 .. Len(inbox[q]) : Reach(q, i)' = Reach(q, i)
    <3>. TAKE i \in 0 .. Len(inbox[q])
    <3>1. i \in Nat /\ \A j \in 1 .. i : j \in 1 .. Len(inbox[q])
      BY <1>2
    <3>. QED  BY <1>4, <3>1, SameReach
  <2>2. Len(inbox[q]) \in 0 .. Len(inbox[q])
    BY <1>2
  <2>3. ReachAll(q)' = ReachAll(q)
    BY <1>4, <2>1, <2>2 DEF ReachAll
  <2>4. ReachAll(q) <= ReachAll(q)'
    BY <1>3, <2>3
  <2>5. ASSUME NEW i \in 1 .. Len(inbox'[q]), inbox'[q][i].client \in Clients
        PROVE  /\ i \in 1 .. Len(inbox[q])
               /\ inbox[q][i].client = inbox'[q][i].client
               /\ Reach(q, i) = Reach(q, i)'
    <3>1. i \in 1 .. Len(inbox[q]) /\ i \in 0 .. Len(inbox[q])
      BY <1>2, <1>4
    <3>2. Reach(q, i) = Reach(q, i)'
      BY <2>1, <3>1
    <3>. QED  BY <1>4, <2>5, <3>1, <3>2
  <2>. QED  BY <2>4, <2>5
<1>5. ASSUME NEW m \in Commands, inbox'[q] = Append(inbox[q], m), log'[q] = log[q]
      PROVE  Further /\ (m.kind = "add" => ReachAll(q)' = ReachAll(q) + 1)
  <2>1. /\ Len(inbox'[q]) = Len(inbox[q]) + 1
        /\ \A i \in 1 .. Len(inbox[q]) : inbox'[q][i] = inbox[q][i]
        /\ inbox'[q][Len(inbox[q]) + 1] = m
    BY <1>2, <1>5, AppendProperties
  <2>2. \A i \in 0 .. Len(inbox[q]) : Reach(q, i)' = Reach(q, i)
    <3>. TAKE i \in 0 .. Len(inbox[q])
    <3>1. i \in Nat /\ \A j \in 1 .. i : j \in 1 .. Len(inbox[q])
      BY <1>2
    <3>. QED  BY <1>5, <2>1, <3>1, SameReach
  <2>n. PICK n \in Nat : n = Len(inbox[q])
    BY <1>2
  <2> DEFINE A == {j \in 1 .. n : inbox'[q][j].kind = "add"}
             B == {j \in 1 .. (n + 1) : inbox'[q][j].kind = "add"}
  <2>3. Reach(q, n)' = Len(log'[q]) + Cardinality(A) /\ Reach(q, n + 1)' = Len(log'[q]) + Cardinality(B)
    BY DEF Reach, AddsUpTo
  <2>4. IsFiniteSet(A) /\ Cardinality(A) \in Nat
    <3>1. IsFiniteSet(1 .. n) /\ A \in SUBSET (1 .. n)
      BY FS_Interval
    <3>. QED  BY <3>1, FS_Subset, FS_CardinalityType
  <2>5. B = IF m.kind = "add" THEN A \cup {n + 1} ELSE A
    BY <2>1, <2>n
  <2>6. (n + 1) \notin A
    OBVIOUS
  <2>7. Cardinality(B) = IF m.kind = "add" THEN Cardinality(A) + 1 ELSE Cardinality(A)
    <3>. HIDE DEF A, B
    <3>. QED  BY <2>4, <2>5, <2>6, FS_AddElement
  <2>8. /\ Reach(q, n + 1)' = IF m.kind = "add" THEN Reach(q, n) + 1 ELSE Reach(q, n)
        /\ Reach(q, n) = Reach(q, n)'
    <3>1. Reach(q, n) = Reach(q, n)'
      BY <2>2, <2>n
    <3>. HIDE DEF A, B
    <3>. QED  BY <1>2, <2>3, <2>4, <2>7, <3>1
  <2>9. ReachAll(q) = Reach(q, n) /\ ReachAll(q)' = Reach(q, n + 1)' /\ Reach(q, n) \in Nat
    BY <1>2, <1>3, <2>1, <2>n DEF ReachAll
  <2>10. ASSUME NEW i \in 1 .. Len(inbox'[q])
         PROVE  \/ ReachAll(q) <= Reach(q, i)'
                \/ \E j \in 1 .. Len(inbox[q]) :
                         /\ inbox[q][j].client = inbox'[q][i].client
                         /\ Reach(q, j) = Reach(q, i)'
    <3>1. CASE i = n + 1
      BY <2>8, <2>9, <3>1
    <3>2. CASE i # n + 1
      <4>1. i \in 1 .. n
        BY <2>1, <2>n, <3>2
      <4>. QED  BY <2>1, <2>2, <2>n, <4>1
    <3>. QED  BY <3>1, <3>2
  <2>. QED  BY <2>8, <2>9, <2>10
<1>6. ASSUME inbox[q] # <<>>, inbox'[q] = Tail(inbox[q]),
             IF Head(inbox[q]).kind = "add"
             THEN Len(log'[q]) = Len(log[q]) + 1 ELSE Len(log'[q]) = Len(log[q])
      PROVE  Further
  <2>1. /\ Len(inbox[q]) \in Nat \ {0}
        /\ Len(inbox'[q]) = Len(inbox[q]) - 1
        /\ \A k \in 1 .. Len(inbox'[q]) : inbox'[q][k] = inbox[q][k + 1]
    BY <1>1, <1>6, ChannelHead
  <2>2. \A i \in 1 .. Len(inbox[q]) : Reach(q, i - 1)' = Reach(q, i)
    BY <1>2, <1>6, ServedReach
  <2>3. ReachAll(q)' = ReachAll(q)
    <3>1. PICK n \in 1 .. Len(inbox[q]) : n = Len(inbox[q])
      BY <2>1
    <3>2. Reach(q, n - 1)' = Reach(q, n)
      BY <2>2, <3>1
    <3>. QED  BY <2>1, <3>1, <3>2 DEF ReachAll
  <2>4. ASSUME NEW i \in 1 .. Len(inbox'[q])
        PROVE  /\ i + 1 \in 1 .. Len(inbox[q])
               /\ inbox[q][i + 1].client = inbox'[q][i].client
               /\ Reach(q, i + 1) = Reach(q, i)'
    <3>1. i + 1 \in 1 .. Len(inbox[q]) /\ (i + 1) - 1 = i
      BY <2>1
    <3>2. Reach(q, (i + 1) - 1)' = Reach(q, i + 1)
      BY <2>2, <3>1
    <3>. QED  BY <2>1, <3>1, <3>2
  <2>5. ReachAll(q) <= ReachAll(q)'
    BY <1>3, <2>3
  <2>6. \A i \in 1 .. Len(inbox'[q]) : \E j \in 1 .. Len(inbox[q]) :
               /\ inbox[q][j].client = inbox'[q][i].client
               /\ Reach(q, j) = Reach(q, i)'
    <3>. TAKE i \in 1 .. Len(inbox'[q])
    <3>1. PICK j \in 1 .. Len(inbox[q]) : j = i + 1
      BY <2>4
    <3>. QED  BY <2>4, <3>1
  <2>. QED  BY <2>5, <2>6
<1>. HIDE DEF Further
<1>7. ASSUME UNCHANGED <<inbox, log>>  PROVE Further
  BY <1>4, <1>7
<1>8. ASSUME NEW c \in Clients, SendAdd(c)
      PROVE  Further /\ (q = AddPartition(c) => ReachAll(q)' = ReachAll(q) + 1)
  <2> DEFINE m == [kind |-> "add", tx |-> tx[c], client |-> NoClient, max |-> 0]
  <2>1. /\ inbox' = [inbox EXCEPT ![AddPartition(c)] = Append(inbox[AddPartition(c)], m)]
        /\ log' = log
    BY <1>8 DEF SendAdd
  <2>2. m \in Commands /\ m.kind = "add"
    BY <1>1 DEF Commands, TypeOK
  <2>. HIDE DEF m
  <2>3. CASE q = AddPartition(c)
    <3>1. inbox'[q] = Append(inbox[q], m) /\ log'[q] = log[q]
      BY <1>1, <2>1, <2>3 DEF TypeOK
    <3>. QED  BY <1>5, <2>2, <3>1
  <2>4. CASE q # AddPartition(c)
    <3>1. inbox'[q] = inbox[q] /\ log'[q] = log[q]
      BY <1>1, <2>1, <2>4 DEF TypeOK
    <3>. QED  BY <1>4, <2>4, <3>1
  <2>. QED  BY <2>3, <2>4
<1>9. ASSUME NEW c \in Clients, Request(c)  PROVE Further
  <2>1. PICK m \in Commands : /\ inbox' = [inbox EXCEPT ![part[c]] = Append(inbox[part[c]], m)]
                              /\ log' = log
    <3>1. PICK m : /\ m = [kind |-> KindOf(pc[c]), tx |-> NoTx, client |-> c,
                      max |-> IF pc[c] = "take"
                              THEN limit[c] - Cardinality(acc[c]) ELSE 0]
                   /\ inbox' = [inbox EXCEPT ![part[c]] = Append(inbox[part[c]], m)]
                   /\ log' = log
      BY <1>9 DEF Request
    <3>2. inbox'[part[c]] = Append(inbox[part[c]], m) /\ part[c] \in Partitions
      BY <1>1, <3>1 DEF TypeOK
    <3>3. inbox'[part[c]] \in Seq(Commands) /\ inbox[part[c]] \in Seq(Commands)
      BY <1>1, <3>2 DEF TypeOK
    <3>4. pc[c] \in Loops /\ (pc[c] = "take" => limit[c] - Cardinality(acc[c]) \in Nat)
      <4>1. pc[c] \in Loops
        BY <1>9 DEF Request
      <4>2. ASSUME pc[c] = "take" PROVE limit[c] - Cardinality(acc[c]) \in Nat
        <5>1. GatherOk(c)
          BY <4>2 DEF Safe, Gathering
        <5>2. Cardinality(acc[c]) \in Nat /\ limit[c] \in Nat
          BY <1>1, <5>1, FS_CardinalityType DEF GatherOk, TypeOK
        <5>. QED  BY <5>1, <5>2 DEF GatherOk
      <4>. QED  BY <4>1, <4>2
    <3>5. m \in Commands
      BY <3>1, <3>4 DEF Commands, KindOf, Loops, LenLoops
    <3>. QED  BY <3>1, <3>5
  <2>3. CASE q = part[c]
    <3>1. inbox'[q] = Append(inbox[q], m) /\ log'[q] = log[q]
      BY <1>1, <2>1, <2>3 DEF TypeOK
    <3>. QED  BY <1>5, <3>1
  <2>4. CASE q # part[c]
    <3>1. inbox'[q] = inbox[q] /\ log'[q] = log[q]
      BY <1>1, <2>1, <2>4 DEF TypeOK
    <3>. QED  BY <1>4, <3>1
  <2>. QED  BY <2>3, <2>4
<1>10. ASSUME NEW c \in Clients, Cancel(c)  PROVE Further
  <2>1. /\ inbox' = [p \in Partitions |->
               [i \in DOMAIN inbox[p] |-> Orphan(inbox[p][i], c)]]
        /\ log' = log
    BY <1>10 DEF Cancel
  <2>2. inbox'[q] = [i \in 1 .. Len(inbox[q]) |-> Orphan(inbox[q][i], c)]
    BY <1>2, <2>1, LenProperties
  <2>3. Len(inbox'[q]) = Len(inbox[q])
    BY <1>2, <2>2, LenProperties
  <2>4. ASSUME NEW i \in 1 .. Len(inbox[q])
        PROVE  /\ inbox'[q][i].kind = inbox[q][i].kind
               /\ inbox'[q][i].client \in Clients => inbox'[q][i].client = inbox[q][i].client
    <3>1. PICK m : m = inbox[q][i] /\ m \in Commands
      BY <1>2, ElementOfSeq
    <3>2. inbox'[q][i] = Orphan(m, c)
      BY <2>2, <3>1
    <3>. QED  BY <3>1, <3>2 DEF Orphan, Commands
  <2>. QED  BY <1>4, <2>1, <2>3, <2>4
<1>11. ASSUME NEW p \in Partitions, NEW kind, Serve(p, kind),
              \/ kind = "add" /\ \E t \in Txs : log' = [log EXCEPT ![p] = Append(log[p], t)]
              \/ kind # "add" /\ log' = log
       PROVE  Further
  <2>1. /\ inbox[p] # <<>> /\ Head(inbox[p]).kind = kind
        /\ inbox' = [inbox EXCEPT ![p] = Tail(inbox[p])]
    BY <1>11 DEF Serve
  <2>2. CASE q = p
    <3>1. inbox[q] # <<>> /\ inbox'[q] = Tail(inbox[q])
      BY <1>1, <2>1, <2>2 DEF TypeOK
    <3>2. IF kind = "add" THEN Len(log'[q]) = Len(log[q]) + 1 ELSE Len(log'[q]) = Len(log[q])
      <4>1. CASE kind = "add"
        <5>1. PICK t \in Txs : log' = [log EXCEPT ![p] = Append(log[p], t)]
          BY <1>11, <4>1
        <5>2. log'[q] = Append(log[q], t)
          BY <1>1, <2>2, <5>1 DEF TypeOK
        <5>. QED  BY <1>2, <4>1, <5>2, AppendProperties
      <4>2. CASE kind # "add"
        BY <1>11, <4>2
      <4>. QED  BY <4>1, <4>2
    <3>. QED  BY <1>6, <2>1, <2>2, <3>1, <3>2
  <2>3. CASE q # p
    <3>1. inbox'[q] = inbox[q] /\ log'[q] = log[q]
      BY <1>1, <1>11, <2>1, <2>3 DEF TypeOK
    <3>. QED  BY <1>4, <3>1
  <2>. QED  BY <2>2, <2>3
<1>12. ASSUME NEW p \in Partitions, HandleAdd(p)  PROVE Further
  <2>1. Serve(p, "add") /\ log' = [log EXCEPT ![p] = Append(log[p], Head(inbox[p]).tx)]
    BY <1>12 DEF HandleAdd
  <2>2. inbox[p] # <<>> /\ Head(inbox[p]).kind = "add"
    BY <2>1 DEF Serve
  <2>3. PICK m : m = Head(inbox[p])
    OBVIOUS
  <2>4. CommandOk(p, m)
    BY <1>1, <2>2, <2>3, ChannelHead DEF Safe, RequestProtocol
  <2>5. m.tx \in Txs
    BY <2>2, <2>3, <2>4 DEF CommandOk
  <2>. QED  BY <1>11, <2>1, <2>3, <2>5
<1>13. ASSUME NEW p \in Partitions, HandleTake(p) \/ HandleLen(p) \/ HandlePending(p)
       PROVE  Further
  BY <1>11, <1>13 DEF HandleTake, HandleLen, HandlePending
<1>14. Further
  <2>1. ASSUME NEW c \in Clients,
               \/ \E t \in Txs : BeginAdd(c, t)
               \/ BeginLen(c) \/ BeginPending(c)
               \/ \E max \in BlockLimits : BeginTake(c, max)
               \/ ReceiveLen(c) \/ ReceivePending(c) \/ ReceiveTake(c)
        PROVE  UNCHANGED <<inbox, log>>
    BY <2>1 DEF BeginAdd, BeginLen, BeginPending, BeginTake, ReceiveLen, ReceivePending,
       ReceiveTake, Consume, partitionVars
  <2>2. ASSUME UNCHANGED vars PROVE UNCHANGED <<inbox, log>>
    BY <2>2 DEF vars, partitionVars
  <2>. QED  BY <1>7, <1>8, <1>9, <1>10, <1>12, <1>13, <2>1, <2>2, StepCases
<1>. QED  BY <1>8, <1>14 DEF Further

LEMMA TakenGrows ==
    ASSUME Safe, [Next]_vars
    PROVE  Taken \subseteq Taken'
<1>1. CASE SameHands /\ UNCHANGED blocks
  BY <1>1 DEF Taken, SameHands
<1>2. ASSUME NEW c \in Clients, HandBlock(c)  PROVE Taken \subseteq Taken'
  <2>1. /\ \A d \in Clients : d # c => InHand(d)' = InHand(d)
        /\ blocks' = IF InHand(c) = {} THEN blocks ELSE blocks \cup {InHand(c)}
    BY <1>2 DEF HandBlock, OtherHandsSame
  <2>2. \A x \in InHand(c) : x \in UNION blocks'
    BY <2>1
  <2>3. UNION blocks \subseteq UNION blocks'
    BY <2>1
  <2>4. \A d \in Clients : d # c => InHand(d) \subseteq UNION {InHand(e)' : e \in Clients}
    BY <2>1
  <2>5. Taken' = (UNION blocks') \cup UNION {InHand(e)' : e \in Clients}
    BY DEF Taken
  <2>. QED  BY <2>2, <2>3, <2>4, <2>5 DEF Taken
<1>3. ASSUME NEW p \in Partitions, NEW c \in Clients, HandSelection(p, c)
      PROVE  Taken \subseteq Taken'
  <2>1. UNCHANGED blocks /\ \A d \in Clients : InHand(d) \subseteq InHand(d)'
    BY <1>3 DEF HandSelection, OtherHandsSame
  <2>2. Taken' = (UNION blocks') \cup UNION {InHand(e)' : e \in Clients}
    BY DEF Taken
  <2>. QED  BY <2>1, <2>2 DEF Taken
<1>4. ASSUME NEW p \in Partitions, NEW t \in Txs, Push(p, t)  PROVE UNCHANGED blocks
  BY <1>4 DEF Push
<1>. QED  BY <1>1, <1>2, <1>3, <1>4, HandEffects

\* Finitely many transactions have been handed out.
LEMMA TakenFinite ==
    ASSUME Safe, Conserved
    PROVE  IsFiniteSet(Taken)
<1> DEFINE L == {{p} \X (1 .. Len(log[p])) : p \in Partitions}
           f == [p \in Partitions |-> {p} \X (1 .. Len(log[p]))]
<1>1. IsFiniteSet(L)
  <2>1. IsFiniteSet(Partitions)
    BY FS_Interval, MempoolAssumption DEF Partitions
  <2>2. f \in Surjection(Partitions, L)
    BY DEF Surjection
  <2>. HIDE DEF f, L
  <2>. QED  BY <2>1, <2>2, FS_Surjection
<1>2. \A T \in L : IsFiniteSet(T)
  <2>1. ASSUME NEW p \in Partitions PROVE IsFiniteSet({p} \X (1 .. Len(log[p])))
    <3>1. Len(log[p]) \in Nat
      BY VecFinite DEF Safe
    <3>2. IsFiniteSet({p})
      BY FS_Singleton
    <3>3. IsFiniteSet(1 .. Len(log[p]))
      BY <3>1, FS_Interval
    <3>. QED  BY <3>2, <3>3, FS_Product
  <2>. QED  BY <2>1
<1>3. Taken \subseteq UNION L
  <2>. SUFFICES ASSUME NEW x \in Taken PROVE x \in UNION L
    OBVIOUS
  <2>1. x[1] \in Partitions /\ x[2] \in 1 .. Len(log[x[1]]) /\ x = <<x[1], x[2]>>
    <3>1. CASE \E b \in blocks : x \in b
      BY <3>1 DEF Conserved, BlocksInLog, Safe, TypeOK, Positions
    <3>2. ASSUME NEW c \in Clients, x \in InHand(c)
          PROVE x[1] \in Partitions /\ x[2] \in 1 .. Len(log[x[1]]) /\ x = <<x[1], x[2]>>
      <4>1. x \in Positions
        BY <3>2 DEF InHand, Safe, TypeOK
      <4>. QED  BY <3>2, <4>1, HandsInLog DEF Positions
    <3>. QED  BY <3>1, <3>2 DEF Taken
  <2>2. x \in {x[1]} \X (1 .. Len(log[x[1]]))
    BY <2>1
  <2>. QED  BY <2>1, <2>2
<1>4. IsFiniteSet(UNION L)
  <2>. HIDE DEF L
  <2>. QED  BY <1>1, <1>2, FS_UNION
<1>. QED  BY <1>3, <1>4, FS_Subset

LenStarts(c) ==
    part'[c] = 0 /\ total'[c] = 0 /\ wait[c] = "ready" /\ wait'[c] = "ready"

LenWaits(c) ==
    /\ pc[c] = "len" /\ part'[c] = part[c] /\ total'[c] = total[c]
    /\ wait'[c] = "answered" => wait[c] = "answered" /\ reply'[c] = reply[c]

LenAdvances(c) ==
    /\ pc[c] = "len" /\ wait[c] = "answered" /\ wait'[c] = "ready"
    /\ part'[c] = part[c] + 1 /\ total'[c] = total[c] + reply[c].len

LenAnswered(c) ==
    /\ pc[c] = "len" /\ part'[c] = part[c] /\ total'[c] = total[c]
    /\ inbox[part[c]] # <<>>
    /\ Head(inbox[part[c]]).client = c
    /\ Head(inbox[part[c]]).kind = "len"
    /\ reply'[c].len = Cardinality(transactions[part[c]])
    /\ UNCHANGED <<log, transactions>>

\* What a step does to a len loop that is under way after it.
LEMMA LenEffects ==
    ASSUME Safe, [Next]_vars, NEW c \in Clients
    PROVE  /\ added'[c] = added[c] \/ (SendAdd(c) /\ added'[c] = added[c] + 1 /\ pc'[c] = "idle")
           /\ pc'[c] = "len" =>
                  LenStarts(c) \/ LenWaits(c) \/ LenAdvances(c) \/ LenAnswered(c)
<1> DEFINE Effect ==
             /\ added'[c] = added[c] \/ (SendAdd(c) /\ added'[c] = added[c] + 1 /\ pc'[c] = "idle")
             /\ pc'[c] = "len" =>
                  LenStarts(c) \/ LenWaits(c) \/ LenAdvances(c) \/ LenAnswered(c)
<1>. USE MempoolAssumption
<1>0. TypeOK /\ ClientOk(c)
  BY DEF Safe, RequestProtocol
<1>1. ASSUME UNCHANGED <<pc, part, total, wait, reply, added>>  PROVE Effect
  BY <1>1 DEF LenWaits
<1>2. ASSUME NEW d \in Clients, SendAdd(d)  PROVE Effect
  BY <1>0, <1>2 DEF SendAdd, LenWaits, TypeOK
<1>3. ASSUME NEW d \in Clients,
             \/ \E t \in Txs : BeginAdd(d, t)
             \/ BeginPending(d)
             \/ \E max \in BlockLimits : BeginTake(d, max)
      PROVE  Effect
  BY <1>0, <1>3 DEF BeginAdd, BeginPending, BeginTake, Enter, LenWaits, TypeOK, historyVars
<1>4. ASSUME NEW d \in Clients, BeginLen(d)  PROVE Effect
  <2>1. pc[d] = "idle" /\ UNCHANGED <<wait, reply, added>> /\ Enter(d, "len")
    BY <1>4 DEF BeginLen, historyVars
  <2>2. CASE d = c
    <3>1. wait[c] = "ready"
      BY <1>0, <2>1, <2>2 DEF ClientOk, Loops, LenLoops
    <3>2. LenStarts(c)
      BY <1>0, <2>1, <2>2, <3>1 DEF Enter, LenStarts, TypeOK
    <3>. QED  BY <2>1, <3>2
  <2>3. CASE d # c
    BY <1>0, <2>1, <2>3 DEF Enter, LenWaits, TypeOK
  <2>. QED  BY <2>2, <2>3
<1>5. ASSUME NEW d \in Clients, Request(d)  PROVE Effect
  <2>1. UNCHANGED <<pc, part, total, reply, added>> /\ wait' = [wait EXCEPT ![d] = "sent"]
    BY <1>5 DEF Request, historyVars
  <2>. QED  BY <1>0, <2>1 DEF LenWaits, TypeOK
<1>6. ASSUME NEW d \in Clients, ReceiveLen(d)  PROVE Effect
  <2>1. /\ wait[d] = "answered" /\ wait' = [wait EXCEPT ![d] = "ready"]
        /\ reply' = [reply EXCEPT ![d] = NoReply] /\ added' = added
        /\ pc[d] \in LenLoops
    BY <1>6 DEF ReceiveLen, Consume, historyVars
  <2>2. CASE LastPartition(d)
    <3>1. AfterLen(d, total[d] + reply[d].len)
      BY <1>6, <2>2 DEF ReceiveLen
    <3>2. Return(d) \/ \E loop \in {"pending", "take_empty", "take"} : Enter(d, loop)
      BY <3>1 DEF AfterLen
    <3>. QED  BY <1>0, <2>1, <3>2 DEF Return, Enter, LenWaits, TypeOK
  <2>3. CASE ~LastPartition(d)
    <3>1. /\ total' = [total EXCEPT ![d] = total[d] + reply[d].len]
          /\ part' = [part EXCEPT ![d] = part[d] + 1]
          /\ pc' = pc
      BY <1>6, <2>3 DEF ReceiveLen
    <3>2. CASE d = c
      BY <1>0, <2>1, <3>1, <3>2 DEF LenAdvances, TypeOK
    <3>3. CASE d # c
      BY <1>0, <2>1, <3>1, <3>3 DEF LenWaits, TypeOK
    <3>. QED  BY <3>2, <3>3
  <2>. QED  BY <2>2, <2>3
<1>7. ASSUME NEW d \in Clients, ReceivePending(d) \/ ReceiveTake(d)  PROVE Effect
  <2>1. /\ wait' = [wait EXCEPT ![d] = "ready"]
        /\ reply' = [reply EXCEPT ![d] = NoReply] /\ added' = added
        /\ pc[d] \in {"pending", "take"}
    BY <1>7 DEF ReceivePending, ReceiveTake, Consume, historyVars
  <2>2. \/ Return(d)
        \/ part' = [part EXCEPT ![d] = part[d] + 1] /\ UNCHANGED <<pc, total>>
    BY <1>7 DEF ReceivePending, ReceiveTake
  <2>3. CASE d = c
    BY <1>0, <2>1, <2>2, <2>3 DEF Return, TypeOK
  <2>4. CASE d # c
    BY <1>0, <2>1, <2>2, <2>4 DEF Return, LenWaits, TypeOK
  <2>. QED  BY <2>3, <2>4
<1>8. ASSUME NEW d \in Clients, Cancel(d)  PROVE Effect
  BY <1>0, <1>8 DEF Cancel, Return, LenWaits, TypeOK, historyVars
<1>9. ASSUME NEW p \in Partitions, NEW kind, Serve(p, kind), NEW len, NEW txs,
             \/ UNCHANGED <<reply, wait>>
             \/ Respond(Head(inbox[p]).client, len, txs),
             kind = "len" => len = Cardinality(transactions[p]) /\ UNCHANGED <<log, transactions>>
      PROVE  Effect
  <2>1. /\ inbox[p] # <<>> /\ Head(inbox[p]).kind = kind
        /\ UNCHANGED <<pc, part, total, added>>
    BY <1>9 DEF Serve, historyVars
  <2>2. PICK m : m = Head(inbox[p])
    OBVIOUS
  <2>3. CommandOk(p, m)
    BY <1>0, <2>1, <2>2, ChannelHead DEF Safe, RequestProtocol
  <2>4. CASE UNCHANGED <<reply, wait>>
    BY <1>1, <2>1, <2>4
  <2>5. CASE Respond(m.client, len, txs) /\ m.client = c
    <3>1. /\ reply' = [reply EXCEPT ![c] = [len |-> len, txs |-> txs]]
          /\ part[c] = p /\ m.kind = KindOf(pc[c])
      BY <2>3, <2>5 DEF Respond, CommandOk
    <3>2. CASE pc[c] = "len"
      <4>1. kind = "len"
        BY <2>1, <2>2, <3>1, <3>2 DEF KindOf, LenLoops
      <4>2. reply'[c].len = Cardinality(transactions[part[c]])
        BY <1>0, <1>9, <3>1, <4>1 DEF TypeOK
      <4>3. LenAnswered(c)
        BY <1>9, <2>1, <2>2, <2>5, <3>1, <3>2, <4>1, <4>2 DEF LenAnswered
      <4>. QED  BY <2>1, <4>3
    <3>3. CASE pc[c] # "len"
      BY <2>1, <3>3
    <3>. QED  BY <3>2, <3>3
  <2>6. CASE Respond(m.client, len, txs) /\ m.client # c
    <3>1. reply'[c] = reply[c] /\ wait'[c] = wait[c]
      BY <1>0, <2>6 DEF Respond, TypeOK
    <3>. QED  BY <2>1, <3>1 DEF LenWaits
  <2>. QED  BY <1>9, <2>2, <2>4, <2>5, <2>6
<1>10. ASSUME NEW p \in Partitions, HandleAdd(p) \/ HandleTake(p) \/ HandleLen(p) \/ HandlePending(p)
       PROVE  Effect
  <2>1. CASE HandleAdd(p)
    BY <1>9, <2>1 DEF HandleAdd
  <2>2. CASE HandleTake(p)
    BY <1>9, <2>2 DEF HandleTake
  <2>3. CASE HandleLen(p)
    BY <1>9, <2>3 DEF HandleLen
  <2>4. CASE HandlePending(p)
    BY <1>9, <2>4 DEF HandlePending
  <2>. QED  BY <1>10, <2>1, <2>2, <2>3, <2>4
<1>11. ASSUME UNCHANGED vars  PROVE Effect
  BY <1>1, <1>11 DEF vars, clientVars, historyVars
<1>12. Effect
  <2>. HIDE DEF Effect
  <2>. QED  BY <1>2, <1>3, <1>4, <1>5, <1>6, <1>7, <1>8, <1>10, <1>11, StepCases
<1>. QED  BY <1>12

LEMMA OwnsMore ==
    ASSUME Safe, [Next]_vars, NEW c \in Clients, NEW O, Owns(c, O), SendAdd(c),
           added'[c] = added[c] + 1, pc'[c] = "idle"
    PROVE  \E P : Owns(c, P)'
<1>1. PICK p \in Partitions : p = AddPartition(c)
  <2>1. ClientOk(c) /\ pc[c] = "add"
    BY DEF Safe, RequestProtocol, SendAdd
  <2>2. tx[c] \in Txs
    BY <2>1 DEF ClientOk
  <2>. QED  BY <2>2, MempoolAssumption DEF AddPartition
<1>2. /\ ReachAll(p) \in Nat /\ ReachAll(p)' = ReachAll(p) + 1
      /\ \A q \in Partitions :
             ReachAll(q) \in Nat /\ ReachAll(q)' \in Nat /\ ReachAll(q) <= ReachAll(q)'
  BY <1>1, ReachStep
<1>3. PICK x : x = <<p, ReachAll(p) + 1>>
  OBVIOUS
<1>4. x \in Positions /\ x \notin O /\ x[1] = p /\ x[2] = ReachAll(p)'
  BY <1>2, <1>3 DEF Positions, Owns
<1>5. IsFiniteSet(O \cup {x}) /\ Cardinality(O \cup {x}) = Cardinality(O) + 1
  BY <1>4, FS_AddElement DEF Owns
<1>6. Cardinality(O) >= added[c] /\ Cardinality(O) \in Nat /\ added[c] \in Nat
  BY FS_CardinalityType DEF Owns, Safe, TypeOK
<1>7. ASSUME NEW y \in O \cup {x}  PROVE y \in Positions /\ y[2] <= ReachAll(y[1])'
  <2>1. CASE y \in O
    <3>1. y \in Positions /\ y[1] \in Partitions /\ y[2] \in Nat /\ y[2] <= ReachAll(y[1])
      BY <2>1 DEF Owns, Positions
    <3>2. ReachAll(y[1]) \in Nat /\ ReachAll(y[1])' \in Nat /\ ReachAll(y[1]) <= ReachAll(y[1])'
      BY <1>2, <3>1
    <3>. QED  BY <3>1, <3>2
  <2>2. CASE y = x
    BY <1>2, <1>4, <2>2
  <2>. QED  BY <2>1, <2>2
<1>8. Cardinality(O \cup {x}) >= added'[c]
  BY <1>5, <1>6
<1>9. Owns(c, O \cup {x})'
  BY <1>5, <1>7, <1>8 DEF Owns
<1>. QED  BY <1>9

\* Fewer transactions of O are left in the partitions once more were taken.
LEMMA LeftLess ==
    ASSUME Safe, [Next]_vars, NEW O, IsFiniteSet(O), NEW S \in SUBSET O
    PROVE  /\ IsFiniteSet(S \ Taken) /\ Cardinality(S \ Taken) \in Nat
           /\ IsFiniteSet(S \ Taken') /\ Cardinality(S \ Taken') \in Nat
           /\ Cardinality(S \ Taken') <= Cardinality(S \ Taken)
<1>1. S \ Taken' \in SUBSET (S \ Taken)
  BY TakenGrows
<1>2. IsFiniteSet(S)
  BY FS_Subset
<1>3. IsFiniteSet(S \ Taken)
  BY <1>2, FS_Subset
<1>. QED  BY <1>1, <1>3, FS_Subset, FS_CardinalityType

\* What O has in the partition that answers is in its Vec or was taken.
LEMMA AnswerCounts ==
    ASSUME Safe, Conserved, NEW c \in Clients, NEW O, Owns(c, O), LenAnswered(c)
    PROVE  Cardinality({x \in O : x[1] = part[c]} \ Taken) <= reply'[c].len
<1>1. PICK p \in Partitions : p = part[c]
  BY DEF Safe, TypeOK
<1>2. /\ inbox[p] # <<>> /\ Head(inbox[p]).client = c /\ Head(inbox[p]).kind = "len"
      /\ pc[c] = "len" /\ reply'[c].len = Cardinality(transactions[p])
  BY <1>1 DEF LenAnswered
<1>3. Len(inbox[p]) \in Nat \ {0} /\ Head(inbox[p]) = inbox[p][1]
  BY <1>2, ChannelHead DEF Safe
<1>4. 1 \in 1 .. Len(inbox[p]) /\ inbox[p][1].client = c /\ inbox[p][1].kind = "len"
  BY <1>2, <1>3
<1>5. \A x \in O : x[1] = p => x[2] <= Reach(p, 1)
  BY <1>2, <1>4 DEF Owns
<1>6. Reach(p, 1) = Len(log[p])
  <2>1. AddsUpTo(p, 1) = {}
    BY <1>4 DEF AddsUpTo
  <2>2. Cardinality(AddsUpTo(p, 1)) = 0
    BY <2>1, FS_EmptySet
  <2>3. Len(log[p]) \in Nat
    BY VecFinite DEF Safe
  <2>. QED  BY <2>2, <2>3 DEF Reach
<1> DEFINE L == {x \in O : x[1] = p} \ Taken
           V == {p} \X transactions[p]
<1>7. L \subseteq V
  <2>. SUFFICES ASSUME NEW x \in L PROVE x \in V
    OBVIOUS
  <2>1. x \in Positions /\ x[1] = p /\ x[2] <= Len(log[p]) /\ x \notin Taken
    BY <1>5, <1>6 DEF Owns
  <2>2. x = <<p, x[2]>> /\ x[2] \in 1 .. Len(log[p])
    BY <2>1, VecFinite DEF Positions, Safe
  <2>3. ~Held(p, x[2]) /\ ~InBlock(p, x[2])
    BY <2>1, <2>2 DEF Held, InBlock, Taken
  <2>4. x[2] \in transactions[p]
    BY <2>2, <2>3 DEF Conserved, NoTransactionLost
  <2>. QED  BY <2>2, <2>4
<1>8. IsFiniteSet(V) /\ Cardinality(V) = Cardinality(transactions[p]) /\ Cardinality(transactions[p]) \in Nat
  <2>1. IsFiniteSet({p}) /\ Cardinality({p}) = 1
    BY FS_Singleton
  <2>2. IsFiniteSet(transactions[p]) /\ Cardinality(transactions[p]) \in Nat
    BY VecFinite DEF Safe
  <2>3. IsFiniteSet(V) /\ Cardinality(V) = Cardinality({p}) * Cardinality(transactions[p])
    BY <2>1, <2>2, FS_Product
  <2>. QED  BY <2>1, <2>2, <2>3
<1>9. Cardinality(L) <= Cardinality(V)
  <2>. HIDE DEF L, V
  <2>. QED  BY <1>7, <1>8, FS_Subset
<1>. QED  BY <1>1, <1>2, <1>8, <1>9

LEMMA OwnsKept ==
    ASSUME Safe, Conserved, [Next]_vars, NEW c \in Clients, NEW O, Owns(c, O),
           added'[c] = added[c]
    PROVE  Owns(c, O)'
<1>1. /\ IsFiniteSet(O)
      /\ Cardinality(O) >= added[c]
      /\ \A x \in O : x \in Positions /\ x[2] <= ReachAll(x[1])
      /\ \A x \in O : x[1] \in Partitions /\ x[2] \in Nat
      /\ \A x \in O : x[1] \in Nat
  BY MempoolAssumption DEF Owns, Positions, Partitions
<1>2. /\ \A q \in Partitions :
             /\ ReachAll(q) \in Nat /\ ReachAll(q)' \in Nat /\ ReachAll(q) <= ReachAll(q)'
             /\ \A i \in 1 .. Len(inbox'[q]) : inbox'[q][i].client \in Clients =>
                    \/ ReachAll(q) <= Reach(q, i)'
                    \/ \E j \in 1 .. Len(inbox[q]) :
                           /\ inbox[q][j].client = inbox'[q][i].client
                           /\ Reach(q, j) = Reach(q, i)'
  BY ReachStep
<1>3. \A x \in O : x[2] <= ReachAll(x[1])'
  BY <1>1, <1>2
<1>4. CASE pc'[c] # "len"
  BY <1>1, <1>3, <1>4 DEF Owns
<1>5. CASE pc'[c] = "len"
  <2>1. LenStarts(c) \/ LenWaits(c) \/ LenAdvances(c) \/ LenAnswered(c)
    BY <1>5, LenEffects
  <2>2. ASSUME NEW q \in Partitions, NEW i \in 1 .. Len(inbox'[q]), inbox'[q][i].client = c,
               NEW x \in O, x[1] = q
        PROVE  x[2] <= Reach(q, i)'
    <3>1. CASE ReachAll(q) <= Reach(q, i)'
      <4>1. x[2] <= ReachAll(q) /\ x[2] \in Nat /\ ReachAll(q) \in Nat /\ Reach(q, i)' \in Nat
        <5>1. TypeOK'
          BY TypeStep
        <5>2. i \in Nat /\ IsFiniteSet(1 .. i) /\ AddsUpTo(q, i)' \in SUBSET (1 .. i)
          <6>1. inbox'[q] \in Seq(Commands)
            BY <5>1 DEF TypeOK
          <6>2. i \in Nat
            BY <6>1, LenProperties
          <6>. QED  BY <6>2, FS_Interval DEF AddsUpTo
        <5>3. Cardinality(AddsUpTo(q, i)') \in Nat
          BY <5>2, FS_Subset, FS_CardinalityType
        <5>4. Len(log'[q]) \in Nat
          BY <5>1, LenProperties DEF TypeOK
        <5>5. Reach(q, i)' \in Nat
          BY <5>3, <5>4 DEF Reach
        <5>. QED  BY <1>1, <1>2, <2>2, <5>5
      <4>. QED  BY <3>1, <4>1
    <3>2. ASSUME NEW j \in 1 .. Len(inbox[q]), inbox[q][j].client = c, Reach(q, j) = Reach(q, i)'
          PROVE  x[2] <= Reach(q, i)'
      <4>1. wait[c] = "sent"
        BY <3>2 DEF Safe, RequestProtocol, CommandOk
      <4>2. pc[c] = "len"
        BY <2>1, <4>1 DEF LenStarts, LenWaits, LenAdvances, LenAnswered
      <4>3. x[2] <= Reach(q, j)
        BY <2>2, <3>2, <4>2 DEF Owns
      <4>. QED  BY <3>2, <4>3
    <3>. QED  BY <1>2, <2>2, <3>1, <3>2
  <2> DEFINE Below(n) == {x \in O : x[1] < n}
             At(n) == {x \in O : x[1] = n}
  <2>3. \A n : Below(n) \in SUBSET O /\ At(n) \in SUBSET O
    OBVIOUS
  <2>4. \A n : /\ Cardinality(Below(n) \ Taken) \in Nat /\ Cardinality(Below(n) \ Taken') \in Nat
               /\ Cardinality(Below(n) \ Taken') <= Cardinality(Below(n) \ Taken)
               /\ Cardinality(At(n) \ Taken) \in Nat /\ Cardinality(At(n) \ Taken') \in Nat
               /\ Cardinality(At(n) \ Taken') <= Cardinality(At(n) \ Taken)
    <3>. HIDE DEF Below, At
    <3>. QED  BY <1>1, <2>3, LeftLess
  <2>5. /\ pc[c] = "len" => Cardinality(Below(part[c]) \ Taken) <= total[c]
        /\ pc[c] = "len" /\ wait[c] = "answered" => Cardinality(At(part[c]) \ Taken) <= reply[c].len
    BY DEF Owns
  <2>6. total[c] \in Nat /\ reply[c].len \in Nat /\ part[c] \in Nat
    BY MempoolAssumption DEF Safe, TypeOK, Partitions
  <2>7. /\ Cardinality(Below(part'[c]) \ Taken') <= total'[c]
        /\ wait'[c] = "answered" => Cardinality(At(part'[c]) \ Taken') <= reply'[c].len
    <3>1. CASE LenStarts(c)
      <4>1. Below(0) = {}
        BY <1>1
      <4>2. Below(0) \ Taken' = {}
        BY <4>1
      <4>3. Cardinality(Below(part'[c]) \ Taken') = 0
        BY <3>1, <4>2, FS_EmptySet DEF LenStarts
      <4>. QED  BY <3>1, <4>3 DEF LenStarts
    <3>2. CASE LenWaits(c)
      <4>. HIDE DEF Below, At
      <4>. QED  BY <2>4, <2>5, <2>6, <3>2 DEF LenWaits
    <3>3. CASE LenAdvances(c)
      <4>1. /\ pc[c] = "len" /\ wait[c] = "answered" /\ wait'[c] = "ready"
            /\ part'[c] = part[c] + 1 /\ total'[c] = total[c] + reply[c].len
        BY <3>3 DEF LenAdvances
      <4>2. Below(part[c] + 1) \ Taken = (Below(part[c]) \ Taken) \cup (At(part[c]) \ Taken)
        BY <1>1, <2>6
      <4>3. /\ IsFiniteSet(Below(part[c]) \ Taken) /\ IsFiniteSet(At(part[c]) \ Taken)
        <5>. HIDE DEF Below, At
        <5>. QED  BY <1>1, <2>3, LeftLess
      <4>4. (Below(part[c]) \ Taken) \cap (At(part[c]) \ Taken) = {}
        BY <1>1, <2>6
      <4>5. Cardinality(Below(part[c] + 1) \ Taken) =
              Cardinality(Below(part[c]) \ Taken) + Cardinality(At(part[c]) \ Taken)
        <5>. HIDE DEF Below, At
        <5>1. PICK B, A : B = Below(part[c]) \ Taken /\ A = At(part[c]) \ Taken
          OBVIOUS
        <5>2. IsFiniteSet(B) /\ IsFiniteSet(A) /\ B \cap A = {}
          BY <4>3, <4>4, <5>1
        <5>3. Cardinality(B \cup A) = Cardinality(B) + Cardinality(A) - Cardinality(B \cap A)
          BY <5>2, FS_Union
        <5>4. Cardinality(B \cap A) = 0 /\ Cardinality(B) \in Nat /\ Cardinality(A) \in Nat
          BY <5>2, FS_EmptySet, FS_CardinalityType
        <5>5. Cardinality(B \cup A) = Cardinality(B) + Cardinality(A)
          BY <5>3, <5>4
        <5>. QED  BY <4>2, <5>1, <5>5
      <4>. HIDE DEF Below, At
      <4>6. /\ Cardinality(Below(part[c] + 1) \ Taken') <= Cardinality(Below(part[c] + 1) \ Taken)
            /\ Cardinality(Below(part[c] + 1) \ Taken') \in Nat
            /\ Cardinality(Below(part[c]) \ Taken) \in Nat
            /\ Cardinality(At(part[c]) \ Taken) \in Nat
        BY <2>4
      <4>7. Cardinality(Below(part[c] + 1) \ Taken') <= total[c] + reply[c].len
        BY <2>5, <2>6, <4>1, <4>5, <4>6
      <4>. QED  BY <4>1, <4>7
    <3>4. CASE LenAnswered(c)
      <4>1. Cardinality(At(part[c]) \ Taken) <= reply'[c].len
        BY <3>4, AnswerCounts
      <4>2. reply'[c].len \in Nat
        BY TypeStep DEF TypeOK
      <4>. HIDE DEF Below, At
      <4>3. /\ Cardinality(Below(part[c]) \ Taken') <= Cardinality(Below(part[c]) \ Taken)
            /\ Cardinality(Below(part[c]) \ Taken') \in Nat
            /\ Cardinality(Below(part[c]) \ Taken) \in Nat
            /\ Cardinality(At(part[c]) \ Taken') <= Cardinality(At(part[c]) \ Taken)
            /\ Cardinality(At(part[c]) \ Taken') \in Nat
            /\ Cardinality(At(part[c]) \ Taken) \in Nat
        BY <2>4
      <4>4. pc[c] = "len" /\ part'[c] = part[c] /\ total'[c] = total[c]
        BY <3>4 DEF LenAnswered
      <4>5. /\ Cardinality(Below(part[c]) \ Taken') <= total[c]
            /\ Cardinality(At(part[c]) \ Taken') <= reply'[c].len
        BY <2>5, <2>6, <4>1, <4>2, <4>3, <4>4
      <4>. QED  BY <4>4, <4>5
    <3>. QED  BY <2>1, <3>1, <3>2, <3>3, <3>4
  <2>. QED  BY <1>1, <1>3, <2>2, <2>7 DEF Owns
<1>. QED  BY <1>4, <1>5

LEMMA OwnersInit == Init => EveryoneOwns
<1>. SUFFICES ASSUME Init, NEW c \in Clients PROVE Owns(c, {})
  BY DEF EveryoneOwns
<1>1. IsFiniteSet({}) /\ Cardinality({}) = 0
  BY FS_EmptySet
<1>. QED  BY <1>1 DEF Init, Owns

LEMMA OwnersStep ==
    ASSUME Safe, Conserved, EveryoneOwns, [Next]_vars
    PROVE  EveryoneOwns'
<1>. SUFFICES ASSUME NEW c \in Clients PROVE (\E P : Owns(c, P))'
  BY DEF EveryoneOwns
<1>1. PICK O : Owns(c, O)
  BY DEF EveryoneOwns
<1>2. added'[c] = added[c] \/ (SendAdd(c) /\ added'[c] = added[c] + 1 /\ pc'[c] = "idle")
  BY LenEffects
<1>3. \E P : Owns(c, P)'
  BY <1>1, <1>2, OwnsKept, OwnsMore
<1>. QED  BY <1>3

LEMMA OwnersSeen ==
    ASSUME Safe, Conserved, EveryoneOwns
    PROVE  LenSeesOwnAdds
<1>. SUFFICES ASSUME NEW c \in Clients, pc[c] = "len", wait[c] = "answered", LastPartition(c)
              PROVE  total[c] + reply[c].len + TakenCount >= added[c]
  BY DEF LenSeesOwnAdds
<1>1. PICK O : Owns(c, O)
  BY DEF EveryoneOwns
<1> DEFINE B == {x \in O : x[1] < part[c]} \ Taken
           A == {x \in O : x[1] = part[c]} \ Taken
           T == O \cap Taken
<1>2. /\ IsFiniteSet(O) /\ Cardinality(O) >= added[c]
      /\ Cardinality(B) <= total[c] /\ Cardinality(A) <= reply[c].len
      /\ \A x \in O : x[1] \in Partitions
  BY <1>1 DEF Owns, Positions
<1>3. \A x \in O : x[1] < part[c] \/ x[1] = part[c]
  BY <1>2, MempoolAssumption DEF LastPartition, Partitions
<1>4. O = (B \cup A) \cup T
  BY <1>3
<1>5. B \in SUBSET O /\ A \in SUBSET O
  OBVIOUS
<1>6. IsFiniteSet(Taken) /\ T \in SUBSET Taken
  BY TakenFinite
<1>. HIDE DEF A, B, T
<1>7. IsFiniteSet(A) /\ IsFiniteSet(B) /\ IsFiniteSet(T) /\ Cardinality(T) <= Cardinality(Taken)
  BY <1>2, <1>5, <1>6, FS_Subset
<1>8. /\ IsFiniteSet(B \cup A)
      /\ Cardinality(B \cup A) = Cardinality(B) + Cardinality(A) - Cardinality(B \cap A)
      /\ Cardinality((B \cup A) \cup T) =
             Cardinality(B \cup A) + Cardinality(T) - Cardinality((B \cup A) \cap T)
  BY <1>7, FS_Union
<1>9. /\ Cardinality(A) \in Nat /\ Cardinality(B) \in Nat /\ Cardinality(T) \in Nat
      /\ Cardinality(B \cup A) \in Nat /\ Cardinality(Taken) \in Nat
      /\ Cardinality(B \cap A) \in Nat /\ Cardinality((B \cup A) \cap T) \in Nat
  BY <1>6, <1>7, <1>8, FS_CardinalityType, FS_Intersection
<1>10. Cardinality(O) <= Cardinality(B) + Cardinality(A) + Cardinality(Taken)
  BY <1>4, <1>7, <1>8, <1>9
<1>11. /\ total[c] \in Nat /\ reply[c].len \in Nat /\ added[c] \in Nat
       /\ TakenCount = Cardinality(Taken)
  BY DEF Safe, TypeOK, TakenCount, Taken
<1>12. Cardinality(O) \in Nat
  BY <1>2, FS_CardinalityType
<1>. QED  BY <1>2, <1>9, <1>10, <1>11, <1>12

\* A client whose additions returned and that then runs len_async is told of a
\* mempool that holds them, but for what take_for_block took out meanwhile: the
\* request travels behind the additions in every channel, although other clients
\* add, take and ask between its requests to two partitions.
THEOREM LenSeesEarlierAdds == Spec => []LenSeesOwnAdds
BY Safety, ConservedAlways, OwnersInit, OwnersStep, OwnersSeen, PTL DEF Spec

(***************************************************************************)
(* The positions of a set, listed in order.                                *)
(***************************************************************************)

\* e lists the elements of S, smallest first.
Lists(e, S) ==
    /\ e \in Seq(S)
    /\ \A i, j \in 1 .. Len(e) : i < j => e[i] < e[j]
    /\ \A x \in S : \E i \in 1 .. Len(e) : e[i] = x

\* Positions are ordered as the elements at them.
LEMMA ListedInOrder ==
    ASSUME NEW S \in SUBSET Nat, NEW e, Lists(e, S)
    PROVE  /\ Len(e) \in Nat
           /\ \A i \in 1 .. Len(e) : e[i] \in S
           /\ \A i, j \in 1 .. Len(e) : e[i] <= e[j] <=> i <= j
           /\ \A i, j \in 1 .. Len(e) : e[i] = e[j] => i = j
<1>1. e \in Seq(S)
  BY DEF Lists
<1>2. Len(e) \in Nat /\ \A i \in 1 .. Len(e) : e[i] \in S
  BY <1>1, LenProperties, ElementOfSeq
<1>3. \A i \in 1 .. Len(e) : e[i] \in Nat
  BY <1>2
<1>4. \A i, j \in 1 .. Len(e) : i < j => e[i] < e[j]
  BY DEF Lists
<1>5. ASSUME NEW i \in 1 .. Len(e), NEW j \in 1 .. Len(e)
      PROVE  (e[i] <= e[j] <=> i <= j) /\ (e[i] = e[j] => i = j)
  <2>1. i \in Nat /\ j \in Nat /\ e[i] \in Nat /\ e[j] \in Nat
    BY <1>2, <1>3
  <2>2. (i < j => e[i] < e[j]) /\ (j < i => e[j] < e[i])
    BY <1>4
  <2>. QED  BY <2>1, <2>2
<1>. QED  BY <1>2, <1>5

\* k positions, as many numbers.
LEMMA ListedCount ==
    ASSUME NEW S \in SUBSET Nat, NEW e, Lists(e, S), NEW k \in 0 .. Len(e),
           NEW T, \A x : x \in T <=> \E i \in 1 .. k : x = e[i]
    PROVE  IsFiniteSet(T) /\ Cardinality(T) = k
<1> DEFINE f == [i \in 1 .. k |-> e[i]]
<1>1. /\ Len(e) \in Nat
      /\ \A i, j \in 1 .. Len(e) : e[i] = e[j] => i = j
  BY ListedInOrder
<1>2. k \in Nat /\ \A i \in 1 .. k : i \in 1 .. Len(e)
  BY <1>1
<1>3. f \in Injection(1 .. k, T) /\ f \in Surjection(1 .. k, T)
  BY <1>1, <1>2 DEF Injection, IsInjective, Surjection
<1>4. IsFiniteSet(1 .. k) /\ Cardinality(1 .. k) = k
  <2>1. IsFiniteSet(1 .. k) /\ Cardinality(1 .. k) = IF 1 > k THEN 0 ELSE k - 1 + 1
    BY <1>2, FS_Interval
  <2>. QED  BY <1>2, <2>1
<1>5. IsFiniteSet(T)
  <2>. HIDE DEF f
  <2>. QED  BY <1>3, <1>4, FS_Surjection
<1>6. Cardinality(T) = Cardinality(1 .. k)
  <2>. HIDE DEF f
  <2>. QED  BY <1>3, <1>4, FS_Surjection, FS_Injection
<1>. QED  BY <1>4, <1>5, <1>6

\* A set has one listing, the one Ascending gives.
LEMMA ListingIsAscending ==
    ASSUME NEW S \in SUBSET Nat, NEW e, Lists(e, S)
    PROVE  IsFiniteSet(S) /\ Cardinality(S) = Len(e) /\ Ascending(S) = e
<1>1. /\ Len(e) \in Nat
      /\ \A i \in 1 .. Len(e) : e[i] \in S
      /\ \A i, j \in 1 .. Len(e) : e[i] <= e[j] <=> i <= j
  BY ListedInOrder
<1>2. \A x : x \in S <=> \E i \in 1 .. Len(e) : x = e[i]
  BY <1>1 DEF Lists
<1>3. IsFiniteSet(S) /\ Cardinality(S) = Len(e)
  <2>1. Len(e) \in 0 .. Len(e)
    BY <1>1
  <2>. QED  BY <1>2, <2>1, ListedCount
<1>4. ASSUME NEW k \in 1 .. Len(e)
      PROVE  Cardinality({j \in S : j <= e[k]}) = k
  <2> DEFINE T == {j \in S : j <= e[k]}
  <2>1. \A x : x \in T <=> \E i \in 1 .. k : x = e[i]
    <3>1. \A i \in 1 .. Len(e) : i <= k <=> i \in 1 .. k
      BY <1>1
    <3>2. \A i \in 1 .. k : i \in 1 .. Len(e)
      BY <1>1
    <3>. QED  BY <1>1, <1>2, <3>1, <3>2
  <2>2. k \in 0 .. Len(e)
    BY <1>1
  <2>3. Cardinality(T) = k
    <3>. HIDE DEF T
    <3>. QED  BY <2>1, <2>2, ListedCount
  <2>. QED  BY <2>3
<1>5. ASSUME NEW k \in 1 .. Len(e)
      PROVE  Ascending(S)[k] = e[k]
  <2>1. \A i \in S : Cardinality({j \in S : j <= i}) = k => i = e[k]
    BY <1>2, <1>4
  <2>2. e[k] \in S /\ Cardinality({j \in S : j <= e[k]}) = k
    BY <1>1, <1>4
  <2>3. e[k] = CHOOSE i \in S : Cardinality({j \in S : j <= i}) = k
    BY <2>1, <2>2
  <2>. QED  BY <1>3, <2>3 DEF Ascending
<1>6. e \in [1 .. Len(e) -> S]
  BY LenProperties DEF Lists
<1>. QED  BY <1>1, <1>3, <1>5, <1>6 DEF Ascending

\* Ascending lists a finite set of numbers, as any listing in order does.
LEMMA AscendingLists ==
    ASSUME NEW S \in SUBSET Nat, IsFiniteSet(S)
    PROVE  /\ Cardinality(S) \in Nat
           /\ Lists(Ascending(S), S)
           /\ Len(Ascending(S)) = Cardinality(S)
<1> DEFINE B(i) == {j \in S : j <= i}
           N == Cardinality(S)
           rank == [i \in S |-> Cardinality(B(i))]
<1>1. N \in Nat
  BY FS_CardinalityType
<1>2. \A i : B(i) \in SUBSET S
  OBVIOUS
<1>3. \A i : IsFiniteSet(B(i)) /\ Cardinality(B(i)) \in Nat /\ Cardinality(B(i)) <= N
  <2>. HIDE DEF B
  <2>. QED  BY <1>2, FS_Subset, FS_CardinalityType
<1>4. ASSUME NEW i \in S, NEW j \in S, i < j
      PROVE  B(i) \cup {j} \in SUBSET B(j) /\ j \notin B(i)
  <2>1. i \in Nat /\ j \in Nat /\ \A k \in S : k \in Nat
    OBVIOUS
  <2>2. ~(j <= i) /\ j <= j /\ \A k \in S : k <= i => k <= j
    BY <1>4, <2>1
  <2>. QED  BY <2>2
<1>5. \A i, j \in S : i < j => rank[i] < rank[j]
  <2>. SUFFICES ASSUME NEW i \in S, NEW j \in S, i < j PROVE rank[i] < rank[j]
    OBVIOUS
  <2>1. B(i) \cup {j} \in SUBSET B(j) /\ j \notin B(i)
    BY <1>4
  <2>2. Cardinality(B(i)) < Cardinality(B(j))
    <3>. HIDE DEF B
    <3>1. Cardinality(B(i) \cup {j}) = Cardinality(B(i)) + 1
      BY <1>3, <2>1, FS_AddElement
    <3>2. Cardinality(B(i) \cup {j}) <= Cardinality(B(j))
      BY <1>3, <2>1, FS_Subset
    <3>. QED  BY <1>3, <3>1, <3>2
  <2>. QED  BY <2>2
<1>6. \A i \in S : rank[i] \in 1 .. N
  <2>. TAKE i \in S
  <2>1. i \in B(i)
    OBVIOUS
  <2>2. Cardinality(B(i)) # 0
    <3>. HIDE DEF B
    <3>. QED  BY <1>3, <2>1, FS_EmptySet
  <2>. QED  BY <1>1, <1>3, <2>2
<1>7. \A i, j \in S : rank[i] = rank[j] => i = j
  <2>. SUFFICES ASSUME NEW i \in S, NEW j \in S, rank[i] = rank[j] PROVE i = j
    OBVIOUS
  <2>1. i \in Nat /\ j \in Nat /\ rank[i] \in Nat /\ rank[j] \in Nat
    BY <1>3
  <2>2. (i < j => rank[i] < rank[j]) /\ (j < i => rank[j] < rank[i])
    BY <1>5
  <2>. HIDE DEF rank
  <2>. QED  BY <2>1, <2>2
<1>8. \A n \in 1 .. N : \E i \in S : rank[i] = n
  <2>1. rank \in Injection(S, 1 .. N)
    <3>1. rank \in [S -> 1 .. N]
      BY <1>6
    <3>. HIDE DEF rank, N
    <3>. QED  BY <1>7, <3>1 DEF Injection, IsInjective
  <2>2. IsFiniteSet(1 .. N) /\ Cardinality(1 .. N) = N
    <3>1. IsFiniteSet(1 .. N) /\ Cardinality(1 .. N) = IF 1 > N THEN 0 ELSE N - 1 + 1
      BY <1>1, FS_Interval
    <3>. QED  BY <1>1, <3>1
  <2>3. rank \in Surjection(S, 1 .. N)
    <3>1. Cardinality(1 .. N) = Cardinality(S)
      BY <2>2
    <3>. HIDE DEF rank, N
    <3>. QED  BY <2>1, <2>2, <3>1, FS_Injection
  <2>. HIDE DEF rank, N
  <2>. QED  BY <2>3 DEF Surjection
<1> DEFINE e == Ascending(S)
<1>9. ASSUME NEW n \in 1 .. N
      PROVE  e[n] \in S /\ rank[e[n]] = n
  <2>1. \E i \in S : Cardinality({j \in S : j <= i}) = n
    BY <1>8
  <2>2. e[n] = CHOOSE i \in S : Cardinality({j \in S : j <= i}) = n
    BY DEF Ascending
  <2>3. e[n] \in S /\ Cardinality({j \in S : j <= e[n]}) = n
    <3>. HIDE DEF e
    <3>. QED  BY <2>1, <2>2
  <2>. HIDE DEF e
  <2>. QED  BY <2>3
<1>10. e \in Seq(S) /\ Len(e) = N
  <2> DEFINE r(n) == CHOOSE i \in S : Cardinality({j \in S : j <= i}) = n
  <2>1. e = [n \in 1 .. N |-> r(n)]
    BY DEF Ascending
  <2>2. e \in [1 .. N -> S]
    <3>. HIDE DEF e, r, N
    <3>. QED  BY <1>9, <2>1
  <2>. HIDE DEF e, N
  <2>. QED  BY <1>1, <2>2, SeqDef, LenProperties
<1>11. ASSUME NEW i \in 1 .. Len(e), NEW j \in 1 .. Len(e), i < j
       PROVE  e[i] < e[j]
  <2>1. e[i] \in S /\ e[j] \in S /\ rank[e[i]] = i /\ rank[e[j]] = j
    BY <1>9, <1>10
  <2>2. e[j] < e[i] => j < i
    BY <1>5, <2>1
  <2>3. i \in Nat /\ j \in Nat /\ e[i] \in Nat /\ e[j] \in Nat
    <3>. HIDE DEF e, N, rank, B
    <3>1. Len(e) \in Nat
      BY <1>1, <1>10
    <3>2. i \in Nat /\ j \in Nat
      BY <3>1
    <3>3. e[i] \in Nat /\ e[j] \in Nat
      BY <2>1
    <3>. QED  BY <3>2, <3>3
  <2>. HIDE DEF e, rank
  <2>. QED  BY <1>11, <2>1, <2>2, <2>3
<1>12. ASSUME NEW x \in S
       PROVE  \E i \in 1 .. Len(e) : e[i] = x
  <2>1. rank[x] \in 1 .. Len(e)
    BY <1>6, <1>10
  <2>2. e[rank[x]] \in S /\ rank[e[rank[x]]] = rank[x]
    BY <1>6, <1>9
  <2>. HIDE DEF e, rank
  <2>. QED  BY <1>7, <2>1, <2>2
<1>. HIDE DEF e
<1>. QED  BY <1>1, <1>10, <1>11, <1>12 DEF Lists, e

(***************************************************************************)
(* The elements of a sequence at a set of positions.                       *)
(***************************************************************************)

\* s has elements of X at the positions S.
Within(s, S, X) == \A i \in S : s[i] \in X

\* f is a sequence of n elements of X, those of s at e[1], ..., e[n].
Follows(f, s, e, n, X) == f \in [1 .. n -> X] /\ \A k \in 1 .. n : f[k] = s[e[k]]

\* A function on 1 .. n is a sequence of length n.
LEMMA SequenceFrom ==
    ASSUME NEW X, NEW n \in Nat, NEW f \in [1 .. n -> X]
    PROVE  f \in Seq(X) /\ Len(f) = n
BY SeqDef, LenProperties

\* The elements at a finite set of positions form a sequence as long as the set.
LEMMA ElementsTyped ==
    ASSUME NEW S \in SUBSET Nat, IsFiniteSet(S), NEW s, NEW X, Within(s, S, X)
    PROVE  ElementsAt(s, S) \in Seq(X) /\ Len(ElementsAt(s, S)) = Cardinality(S)
<1> DEFINE e == Ascending(S)
<1>1. Cardinality(S) \in Nat /\ Lists(e, S) /\ Len(e) = Cardinality(S)
  BY AscendingLists
<1>. HIDE DEF e
<1>2. \A k \in 1 .. Cardinality(S) : e[k] \in S
  BY <1>1, ListedInOrder
<1>3. ElementsAt(s, S) \in [1 .. Cardinality(S) -> X]
  BY <1>2 DEF ElementsAt, e, Within
<1>. QED  BY <1>1, <1>3, SequenceFrom

\* Only the elements at S matter.
LEMMA ElementsSame ==
    ASSUME NEW S \in SUBSET Nat, IsFiniteSet(S), NEW s, NEW t, \A i \in S : t[i] = s[i]
    PROVE  ElementsAt(t, S) = ElementsAt(s, S)
<1> DEFINE e == Ascending(S)
<1>1. Lists(e, S) /\ Len(e) = Cardinality(S)
  BY AscendingLists
<1>. HIDE DEF e
<1>2. \A k \in 1 .. Cardinality(S) : e[k] \in S
  BY <1>1, ListedInOrder
<1>. QED  BY <1>2 DEF ElementsAt, e

\* The sequence is the one any listing of S gives.
LEMMA ElementsListed ==
    ASSUME NEW S \in SUBSET Nat, NEW e, Lists(e, S), NEW s,
           NEW X, Within(s, S, X), NEW n, n = Len(e)
    PROVE  Follows(ElementsAt(s, S), s, e, n, X)
<1>1. Cardinality(S) = Len(e) /\ Ascending(S) = e
  BY ListingIsAscending
<1>2. \A k \in 1 .. Len(e) : e[k] \in S
  BY ListedInOrder
<1>. QED  BY <1>1, <1>2 DEF ElementsAt, Within, Follows

\* No position selects nothing, and one position its element.
LEMMA ElementsNone == ASSUME NEW s PROVE ElementsAt(s, {}) = << >>
BY FS_EmptySet DEF ElementsAt

LEMMA ElementsOne == ASSUME NEW s, NEW m \in Nat PROVE ElementsAt(s, {m}) = <<s[m]>>
<1>1. Lists(<<m>>, {m})
  BY DEF Lists
<1>2. {m} \in SUBSET Nat
  OBVIOUS
<1> DEFINE f == ElementsAt(s, {m})
<1>3. Follows(f, s, <<m>>, 1, {s[m]})
  <2>1. Within(s, {m}, {s[m]}) /\ 1 = Len(<<m>>)
    BY DEF Within
  <2>. QED  BY <1>1, <1>2, <2>1, ElementsListed
<1>. HIDE DEF f
<1>4. f \in [1 .. 1 -> {s[m]}] /\ f[1] = s[m]
  BY <1>3 DEF Follows
<1>5. f = <<s[m]>>
  BY <1>4
<1>. QED  BY <1>5 DEF f

\* Two sets, one below the other.
LEMMA ElementsSplit ==
    ASSUME NEW A \in SUBSET Nat, IsFiniteSet(A), NEW B \in SUBSET Nat, IsFiniteSet(B),
           \A i \in A, j \in B : i < j,
           NEW s, NEW X, Within(s, A \cup B, X)
    PROVE  ElementsAt(s, A \cup B) = ElementsAt(s, A) \o ElementsAt(s, B)
<1> DEFINE a == Ascending(A)
           b == Ascending(B)
           n == Len(a)
           m == Len(b)
           e == a \o b
<1>1. Lists(a, A) /\ Lists(b, B)
  BY AscendingLists
<1>. HIDE DEF a, b
<1>2. /\ a \in Seq(A) /\ b \in Seq(B) /\ n \in Nat /\ m \in Nat
      /\ \A i \in 1 .. n : a[i] \in A
      /\ \A i \in 1 .. m : b[i] \in B
  BY <1>1, ListedInOrder DEF Lists
<1>3. a \in Seq(A \cup B) /\ b \in Seq(A \cup B)
  BY <1>2
<1>4. /\ e \in Seq(A \cup B) /\ Len(e) = n + m
      /\ \A i \in 1 .. (n + m) : e[i] = IF i <= n THEN a[i] ELSE b[i - n]
  BY <1>3, ConcatProperties
<1>. HIDE DEF n, m, e
<1>5. \A i \in 1 .. n : e[i] = a[i] /\ e[i] \in A
  BY <1>2, <1>4
<1>6. \A i \in (n + 1) .. (n + m) : i - n \in 1 .. m /\ e[i] = b[i - n] /\ e[i] \in B
  <2>. TAKE i \in (n + 1) .. (n + m)
  <2>1. i - n \in 1 .. m /\ i \in 1 .. (n + m) /\ ~(i <= n)
    BY <1>2
  <2>. QED  BY <1>2, <1>4, <2>1
<1>7. ASSUME NEW i \in 1 .. Len(e), NEW j \in 1 .. Len(e), i < j
      PROVE  e[i] < e[j]
  <2>1. i \in Nat /\ j \in Nat
    BY <1>2, <1>4
  <2>2. CASE j <= n
    <3>1. i \in 1 .. n /\ j \in 1 .. n
      BY <1>2, <1>4, <1>7, <2>1, <2>2
    <3>2. a[i] < a[j]
      BY <1>1, <1>7, <3>1 DEF Lists, n
    <3>. QED  BY <1>5, <3>1, <3>2
  <2>3. CASE i <= n /\ ~(j <= n)
    <3>1. i \in 1 .. n /\ j \in (n + 1) .. (n + m)
      BY <1>2, <1>4, <2>1, <2>3
    <3>. QED  BY <1>5, <1>6, <3>1
  <2>4. CASE ~(i <= n)
    <3>1. i \in (n + 1) .. (n + m) /\ j \in (n + 1) .. (n + m) /\ i - n < j - n
      BY <1>2, <1>4, <1>7, <2>1, <2>4
    <3>2. b[i - n] < b[j - n]
      BY <1>1, <1>6, <3>1 DEF Lists, m
    <3>. QED  BY <1>6, <3>1, <3>2
  <2>. QED  BY <1>2, <2>1, <2>2, <2>3, <2>4
<1>8. ASSUME NEW x \in A \cup B
      PROVE  \E i \in 1 .. Len(e) : e[i] = x
  <2>1. CASE x \in A
    <3>1. PICK i \in 1 .. n : a[i] = x
      BY <1>1, <2>1 DEF Lists, n
    <3>2. i \in 1 .. Len(e)
      BY <1>2, <1>4, <3>1
    <3>. QED  BY <1>5, <3>1, <3>2
  <2>2. CASE x \in B
    <3>1. PICK i \in 1 .. m : b[i] = x
      BY <1>1, <2>2 DEF Lists, m
    <3>2. n + i \in 1 .. Len(e) /\ n + i \in (n + 1) .. (n + m) /\ (n + i) - n = i
      BY <1>2, <1>4, <3>1
    <3>3. e[n + i] = b[(n + i) - n]
      BY <1>6, <3>2
    <3>. QED  BY <3>1, <3>2, <3>3
  <2>. QED  BY <2>1, <2>2
<1>9. Lists(e, A \cup B)
  BY <1>4, <1>7, <1>8 DEF Lists
<1> DEFINE r == ElementsAt(s, A \cup B)
<1>10. Follows(r, s, e, n + m, X)
  <2>1. A \cup B \in SUBSET Nat
    OBVIOUS
  <2>. QED  BY <1>4, <1>9, <2>1, ElementsListed
<1> DEFINE p == ElementsAt(s, A)
           q == ElementsAt(s, B)
<1>11. Follows(p, s, a, n, X) /\ Follows(q, s, b, m, X)
  <2>1. Within(s, A, X) /\ Within(s, B, X)
    BY DEF Within
  <2>2. n = Len(a) /\ m = Len(b)
    BY DEF n, m
  <2>. QED  BY <1>1, <2>1, <2>2, ElementsListed
<1>12. p \in Seq(X) /\ Len(p) = n /\ q \in Seq(X) /\ Len(q) = m
  <2>. HIDE DEF p, q
  <2>1. p \in [1 .. n -> X] /\ q \in [1 .. m -> X]
    BY <1>11 DEF Follows
  <2>. QED  BY <1>2, <2>1, SequenceFrom
<1>. HIDE DEF p, q, r
<1>13. /\ p \o q \in Seq(X) /\ Len(p \o q) = n + m
       /\ \A k \in 1 .. (n + m) : (p \o q)[k] = IF k <= n THEN p[k] ELSE q[k - n]
  BY <1>12, ConcatProperties
<1>14. ASSUME NEW k \in 1 .. (n + m)
       PROVE  (p \o q)[k] = s[e[k]]
  <2>1. k \in Nat
    BY <1>2
  <2>2. CASE k <= n
    <3>1. k \in 1 .. n
      BY <1>2, <2>1, <2>2
    <3>. QED  BY <1>5, <1>11, <1>13, <2>2, <3>1 DEF Follows
  <2>3. CASE ~(k <= n)
    <3>1. k \in (n + 1) .. (n + m)
      BY <1>2, <2>1, <2>3
    <3>2. k - n \in 1 .. m /\ e[k] = b[k - n]
      BY <1>6, <3>1
    <3>. QED  BY <1>11, <1>13, <2>3, <3>2 DEF Follows
  <2>. QED  BY <2>2, <2>3
<1>15. p \o q \in [1 .. (n + m) -> X]
  BY <1>13, LenProperties
<1>16. r = p \o q
  <2>1. r \in [1 .. (n + m) -> X] /\ \A k \in 1 .. (n + m) : r[k] = (p \o q)[k]
    BY <1>10, <1>14 DEF Follows
  <2>2. n + m \in Nat
    BY <1>2
  <2>. QED  BY <1>15, <2>1, <2>2
<1>. QED  BY <1>16 DEF p, q, r

\* The same elements one position further on.
LEMMA ElementsShift ==
    ASSUME NEW S \in SUBSET (Nat \ {0}), IsFiniteSet(S), NEW s,
           NEW X, Within(s, S, X), NEW T \in SUBSET Nat, NEW t,
           \A i \in S : i - 1 \in T,
           \A i \in T : i + 1 \in S /\ t[i] = s[i + 1]
    PROVE  ElementsAt(t, T) = ElementsAt(s, S)
<1> DEFINE b == Ascending(S)
           n == Len(b)
           e == [k \in 1 .. n |-> b[k] - 1]
<1>1. S \in SUBSET Nat /\ Lists(b, S)
  BY AscendingLists
<1>. HIDE DEF b
<1>2. n \in Nat /\ \A k \in 1 .. n : b[k] \in S
  BY <1>1, ListedInOrder
<1>3. \A k \in 1 .. n : b[k] \in Nat \ {0} /\ b[k] - 1 \in T
  BY <1>2
<1>. HIDE DEF n
<1>4. e \in Seq(T) /\ Len(e) = n
  <2>1. e \in [1 .. n -> T]
    BY <1>3
  <2>. HIDE DEF e
  <2>. QED  BY <1>2, <2>1, SequenceFrom
<1>5. \A k \in 1 .. n : e[k] = b[k] - 1
  OBVIOUS
<1>. HIDE DEF e
<1>6. \A i, j \in 1 .. Len(e) : i < j => e[i] < e[j]
  <2>. SUFFICES ASSUME NEW i \in 1 .. n, NEW j \in 1 .. n, i < j PROVE e[i] < e[j]
    BY <1>4
  <2>1. b[i] < b[j]
    BY <1>1 DEF Lists, n
  <2>. QED  BY <1>3, <1>5, <2>1
<1>7. \A x \in T : \E i \in 1 .. Len(e) : e[i] = x
  <2>. TAKE x \in T
  <2>1. PICK i \in 1 .. n : b[i] = x + 1
    BY <1>1 DEF Lists, n
  <2>. QED  BY <1>3, <1>4, <1>5, <2>1
<1>8. Lists(e, T)
  BY <1>4, <1>6, <1>7 DEF Lists
<1> DEFINE f == ElementsAt(t, T)
           g == ElementsAt(s, S)
<1>9. Follows(f, t, e, n, X)
  <2>1. Within(t, T, X)
    BY DEF Within
  <2>2. n = Len(e)
    BY <1>4
  <2>. QED  BY <1>8, <2>1, <2>2, ElementsListed
<1>10. Follows(g, s, b, n, X)
  <2>1. n = Len(b)
    BY DEF n
  <2>. QED  BY <1>1, <2>1, ElementsListed
<1>11. \A k \in 1 .. n : t[e[k]] = s[b[k]]
  BY <1>3, <1>5
<1>. HIDE DEF f, g
<1>12. f = g
  <2>1. f \in [1 .. n -> X] /\ g \in [1 .. n -> X] /\ \A k \in 1 .. n : f[k] = g[k]
    BY <1>9, <1>10, <1>11 DEF Follows
  <2>. QED  BY <1>2, <2>1
<1>. QED  BY <1>12 DEF f, g

(***************************************************************************)
(* A sender's additions in a channel.                                      *)
(***************************************************************************)

Sent(p) == [i \in 1 .. Len(inbox[p]) |-> inbox[p][i].tx]

\* The additions in a channel are finitely many places with transactions.
LEMMA AddsOfFacts ==
    ASSUME Safe, NEW p \in Partitions, NEW a
    PROVE  /\ Len(inbox[p]) \in Nat
           /\ AddsOf(p, a) \in SUBSET (1 .. Len(inbox[p]))
           /\ AddsOf(p, a) \in SUBSET (Nat \ {0})
           /\ AddsOf(p, a) \in SUBSET Nat
           /\ IsFiniteSet(AddsOf(p, a))
           /\ Within(Sent(p), AddsOf(p, a), Txs)
           /\ Queued(p, a) = ElementsAt(Sent(p), AddsOf(p, a))
           /\ Queued(p, a) \in Seq(Txs)
<1>1. Len(inbox[p]) \in Nat
  BY LenProperties DEF Safe, TypeOK
<1>2. AddsOf(p, a) \in SUBSET (1 .. Len(inbox[p]))
  BY DEF AddsOf
<1>3. AddsOf(p, a) \in SUBSET (Nat \ {0}) /\ AddsOf(p, a) \in SUBSET Nat
  BY <1>1, <1>2
<1>4. IsFiniteSet(AddsOf(p, a))
  <2>1. IsFiniteSet(1 .. Len(inbox[p]))
    BY <1>1, FS_Interval
  <2>. QED  BY <1>2, <2>1, FS_Subset
<1>5. Within(Sent(p), AddsOf(p, a), Txs)
  <2>. SUFFICES ASSUME NEW i \in AddsOf(p, a) PROVE Sent(p)[i] \in Txs
    BY DEF Within
  <2>1. i \in 1 .. Len(inbox[p]) /\ inbox[p][i].kind = "add"
    BY DEF AddsOf
  <2>2. inbox[p][i].tx \in Txs
    BY <2>1 DEF Safe, RequestProtocol, CommandOk
  <2>. QED  BY <2>1, <2>2 DEF Sent
<1>6. Queued(p, a) = ElementsAt(Sent(p), AddsOf(p, a))
  BY DEF Queued, Sent
<1>7. Queued(p, a) \in Seq(Txs)
  BY <1>3, <1>4, <1>5, <1>6, ElementsTyped
<1>. QED  BY <1>1, <1>2, <1>3, <1>4, <1>5, <1>6, <1>7

\* The same additions of a at the same places.
LEMMA QueuedSame ==
    ASSUME Safe, Safe', NEW p \in Partitions, NEW a,
           AddsOf(p, a)' = AddsOf(p, a),
           \A i \in AddsOf(p, a) : inbox'[p][i].tx = inbox[p][i].tx
    PROVE  Queued(p, a)' = Queued(p, a)
<1> DEFINE A == AddsOf(p, a)
           s == Sent(p)
           t == [i \in 1 .. Len(inbox'[p]) |-> inbox'[p][i].tx]
<1>1. A \in SUBSET Nat /\ IsFiniteSet(A) /\ A \in SUBSET (1 .. Len(inbox[p]))
  BY AddsOfFacts
<1>2. A \in SUBSET (1 .. Len(inbox'[p]))
  BY DEF AddsOf
<1>3. \A i \in A : t[i] = s[i]
  BY <1>1, <1>2 DEF Sent
<1>4. Queued(p, a) = ElementsAt(s, A)
  BY AddsOfFacts
<1>5. Queued(p, a)' = ElementsAt(t, A)
  BY DEF Queued
<1>. HIDE DEF A, s, t
<1>. QED  BY <1>1, <1>3, <1>4, <1>5, ElementsSame

\* The transactions of a sender at positions of a log are as many as the positions.
LEMMA ElementsOfLog ==
    ASSUME Safe, NEW p \in Partitions, NEW S \in SUBSET (1 .. Len(log[p])), NEW a
    PROVE  /\ OfSender(p, S, a) \in SUBSET Nat
           /\ IsFiniteSet(OfSender(p, S, a))
           /\ Within(log[p], OfSender(p, S, a), Txs)
           /\ TxsAt(p, S, a) = ElementsAt(log[p], OfSender(p, S, a))
           /\ TxsAt(p, S, a) \in Seq(Txs)
           /\ Len(TxsAt(p, S, a)) = Cardinality(OfSender(p, S, a))
<1> DEFINE A == OfSender(p, S, a)
<1>1. log[p] \in Seq(Txs) /\ Len(log[p]) \in Nat
  BY LenProperties DEF Safe, TypeOK
<1>2. A \in SUBSET (1 .. Len(log[p])) /\ A \in SUBSET Nat
  <2>1. \A i \in A : i \in S
    BY DEF OfSender
  <2>2. \A i \in S : i \in 1 .. Len(log[p]) /\ i \in Nat
    BY <1>1
  <2>. QED  BY <2>1, <2>2
<1>. HIDE DEF A
<1>3. IsFiniteSet(A)
  <2>1. IsFiniteSet(1 .. Len(log[p]))
    BY <1>1, FS_Interval
  <2>. QED  BY <1>2, <2>1, FS_Subset
<1>4. Within(log[p], A, Txs)
  BY <1>1, <1>2, ElementOfSeq DEF Within
<1>5. TxsAt(p, S, a) = ElementsAt(log[p], A)
  BY DEF TxsAt, A
<1>6. TxsAt(p, S, a) \in Seq(Txs) /\ Len(TxsAt(p, S, a)) = Cardinality(A)
  BY <1>2, <1>3, <1>4, <1>5, ElementsTyped
<1>. QED  BY <1>2, <1>3, <1>4, <1>5, <1>6 DEF A

\* Serving the head of a channel: an addition of a leaves it, anything else
\* leaves a's additions as they are.
LEMMA QueuedServed ==
    ASSUME Safe, Safe', NEW p \in Partitions, NEW a, inbox[p] # << >>,
           inbox'[p] = Tail(inbox[p])
    PROVE  IF Head(inbox[p]).kind = "add" /\ From[Head(inbox[p]).tx] = a
           THEN Queued(p, a) = <<Head(inbox[p]).tx>> \o Queued(p, a)'
           ELSE Queued(p, a)' = Queued(p, a)
<1> DEFINE A == AddsOf(p, a)
           s == Sent(p)
           t == [i \in 1 .. Len(inbox'[p]) |-> inbox'[p][i].tx]
           T == {i \in 1 .. Len(inbox'[p]) :
                    inbox'[p][i].kind = "add" /\ From[inbox'[p][i].tx] = a}
           S == A \ {1}
<1>1. /\ Len(inbox[p]) \in Nat \ {0}
      /\ Head(inbox[p]) = inbox[p][1]
      /\ Len(inbox'[p]) = Len(inbox[p]) - 1
      /\ \A i \in 1 .. Len(inbox'[p]) : inbox'[p][i] = inbox[p][i + 1]
  BY ChannelHead DEF Safe
<1>2. /\ A \in SUBSET (1 .. Len(inbox[p])) /\ A \in SUBSET (Nat \ {0}) /\ A \in SUBSET Nat
      /\ IsFiniteSet(A) /\ Within(s, A, Txs) /\ Queued(p, a) = ElementsAt(s, A)
  BY AddsOfFacts
<1>3. Queued(p, a)' = ElementsAt(t, T)
  BY DEF Queued, AddsOf
<1>4. \A i \in T : i + 1 \in S /\ t[i] = s[i + 1]
  BY <1>1 DEF AddsOf, Sent
<1>5. \A i \in S : i - 1 \in T
  BY <1>1, <1>2 DEF AddsOf
<1>6. T \in SUBSET Nat
  BY <1>1
<1>7. S \in SUBSET (Nat \ {0}) /\ S \in SUBSET Nat /\ IsFiniteSet(S) /\ Within(s, S, Txs)
  <2>1. S \in SUBSET A
    OBVIOUS
  <2>. HIDE DEF A, s, S
  <2>. QED  BY <1>2, <2>1, FS_Subset DEF Within
<1>8. ElementsAt(t, T) = ElementsAt(s, S)
  <2>. HIDE DEF A, s, t, T, S
  <2>. QED  BY <1>4, <1>5, <1>6, <1>7, ElementsShift
<1>9. CASE Head(inbox[p]).kind = "add" /\ From[Head(inbox[p]).tx] = a
  <2>1. 1 \in A /\ s[1] = Head(inbox[p]).tx
    BY <1>1, <1>9 DEF AddsOf, Sent
  <2>2. A = {1} \cup S /\ \A i \in {1}, j \in S : i < j
    BY <1>2, <2>1
  <2>3. {1} \in SUBSET Nat /\ IsFiniteSet({1})
    <3>1. IsFiniteSet({1})
      BY FS_Singleton
    <3>. QED  BY <3>1
  <2>4. ElementsAt(s, {1}) = <<s[1]>>
    BY ElementsOne
  <2>5. ElementsAt(s, A) = ElementsAt(s, {1}) \o ElementsAt(s, S)
    <3>1. Within(s, {1} \cup S, Txs)
      BY <1>2, <2>2
    <3>2. ElementsAt(s, {1} \cup S) = ElementsAt(s, {1}) \o ElementsAt(s, S)
      <4>. HIDE DEF A, s, S
      <4>. QED  BY <1>7, <2>2, <2>3, <3>1, ElementsSplit
    <3>. QED  BY <2>2, <3>2
  <2>. HIDE DEF A, s, t, T, S
  <2>. QED  BY <1>2, <1>3, <1>8, <1>9, <2>1, <2>4, <2>5
<1>10. CASE ~(Head(inbox[p]).kind = "add" /\ From[Head(inbox[p]).tx] = a)
  <2>1. S = A
    BY <1>1, <1>10 DEF AddsOf
  <2>. HIDE DEF A, s, t, T, S
  <2>. QED  BY <1>2, <1>3, <1>8, <1>10, <2>1
<1>. QED  BY <1>9, <1>10

\* Sending a command: an addition of a joins its additions at the end, anything
\* else leaves them as they are.
LEMMA QueuedSent ==
    ASSUME Safe, Safe', NEW p \in Partitions, NEW a, NEW m \in Commands,
           inbox'[p] = Append(inbox[p], m)
    PROVE  IF m.kind = "add" /\ From[m.tx] = a
           THEN Queued(p, a)' = Queued(p, a) \o <<m.tx>>
           ELSE Queued(p, a)' = Queued(p, a)
<1> DEFINE A == AddsOf(p, a)
           s == Sent(p)
           t == [i \in 1 .. Len(inbox'[p]) |-> inbox'[p][i].tx]
           T == {i \in 1 .. Len(inbox'[p]) :
                    inbox'[p][i].kind = "add" /\ From[inbox'[p][i].tx] = a}
           n == Len(inbox[p]) + 1
<1>1. /\ Len(inbox[p]) \in Nat
      /\ Len(inbox'[p]) = n
      /\ \A i \in 1 .. Len(inbox[p]) : inbox'[p][i] = inbox[p][i]
      /\ inbox'[p][n] = m
  BY AppendProperties, LenProperties DEF Safe, TypeOK
<1>2. /\ A \in SUBSET (1 .. Len(inbox[p])) /\ A \in SUBSET Nat
      /\ IsFiniteSet(A) /\ Within(s, A, Txs) /\ Queued(p, a) = ElementsAt(s, A)
  BY AddsOfFacts
<1>3. Queued(p, a)' = ElementsAt(t, T)
  BY DEF Queued, AddsOf
<1>4. \A i \in A : t[i] = s[i]
  BY <1>1, <1>2 DEF Sent
<1>5. n \in Nat /\ \A i \in A : i < n
  BY <1>1, <1>2
<1>6. ElementsAt(t, A) = ElementsAt(s, A)
  <2>. HIDE DEF A, s, t
  <2>. QED  BY <1>2, <1>4, ElementsSame
<1>7. CASE m.kind = "add" /\ From[m.tx] = a
  <2>1. T = A \cup {n} /\ t[n] = m.tx
    BY <1>1, <1>7 DEF AddsOf
  <2>2. m.tx \in Txs
    BY <1>1, <1>7 DEF Safe, RequestProtocol, CommandOk
  <2>3. Within(t, A \cup {n}, Txs)
    <3>. HIDE DEF A, s, t, n
    <3>. QED  BY <1>2, <1>4, <2>1, <2>2 DEF Within
  <2>4. {n} \in SUBSET Nat /\ IsFiniteSet({n})
    BY <1>5, FS_Singleton
  <2>5. \A i \in A, j \in {n} : i < j
    BY <1>5
  <2>6. ElementsAt(t, A \cup {n}) = ElementsAt(t, A) \o ElementsAt(t, {n})
    <3>. HIDE DEF A, s, t, n
    <3>. QED  BY <1>2, <2>3, <2>4, <2>5, ElementsSplit
  <2>7. ElementsAt(t, {n}) = <<t[n]>>
    <3>. HIDE DEF t, n
    <3>. QED  BY <1>5, ElementsOne
  <2>. HIDE DEF A, s, t, n, T
  <2>. QED  BY <1>2, <1>3, <1>6, <1>7, <2>1, <2>6, <2>7
<1>8. CASE ~(m.kind = "add" /\ From[m.tx] = a)
  <2>1. T = A
    BY <1>1, <1>8 DEF AddsOf
  <2>. HIDE DEF A, s, t, n, T
  <2>. QED  BY <1>2, <1>3, <1>6, <1>8, <2>1
<1>. QED  BY <1>7, <1>8

(***************************************************************************)
(* Steps that move no transaction leave every sender's queue as it was.    *)
(***************************************************************************)

\* The positions of sender a in the Vec of partition p, and those it has left.
VecOf(p, a) == OfSender(p, transactions[p], a)

OutOf(p, a) == OfSender(p, (1 .. Len(log[p])) \ transactions[p], a)

\* What a sender has in the Vec and what it has been handed out, typed.
LEMMA MappedFacts ==
    ASSUME Safe, NEW a \in Addresses, NEW p, p = PartitionForAddress[a]
    PROVE  /\ p \in Partitions
           /\ VecOf(p, a) \in SUBSET Nat /\ IsFiniteSet(VecOf(p, a))
           /\ Within(log[p], VecOf(p, a), Txs)
           /\ OutOf(p, a) \in SUBSET Nat /\ IsFiniteSet(OutOf(p, a))
           /\ Within(log[p], OutOf(p, a), Txs)
           /\ Queued(p, a) \in Seq(Txs)
           /\ ElementsAt(log[p], VecOf(p, a)) \in Seq(Txs)
           /\ ElementsAt(log[p], OutOf(p, a)) \in Seq(Txs)
           /\ PendingOf(a) = ElementsAt(log[p], VecOf(p, a)) \o Queued(p, a)
           /\ PendingOf(a) \in Seq(Txs)
           /\ HandedOut(a) = ElementsAt(log[p], OutOf(p, a))
<1>1. p \in Partitions
  BY MempoolAssumption
<1>2. transactions[p] \in SUBSET (1 .. Len(log[p]))
  BY <1>1 DEF Safe, TypeOK
<1>3. ((1 .. Len(log[p])) \ transactions[p]) \in SUBSET (1 .. Len(log[p]))
  OBVIOUS
<1>4. /\ VecOf(p, a) \in SUBSET Nat /\ IsFiniteSet(VecOf(p, a))
      /\ Within(log[p], VecOf(p, a), Txs)
      /\ TxsAt(p, transactions[p], a) = ElementsAt(log[p], VecOf(p, a))
      /\ TxsAt(p, transactions[p], a) \in Seq(Txs)
  BY <1>1, <1>2, ElementsOfLog DEF VecOf
<1>5. /\ OutOf(p, a) \in SUBSET Nat /\ IsFiniteSet(OutOf(p, a))
      /\ Within(log[p], OutOf(p, a), Txs)
      /\ TxsAt(p, (1 .. Len(log[p])) \ transactions[p], a) = ElementsAt(log[p], OutOf(p, a))
      /\ TxsAt(p, (1 .. Len(log[p])) \ transactions[p], a) \in Seq(Txs)
  BY <1>1, <1>3, ElementsOfLog DEF OutOf
<1>6. Queued(p, a) \in Seq(Txs)
  BY <1>1, AddsOfFacts
<1>7. /\ PendingOf(a) = ElementsAt(log[p], VecOf(p, a)) \o Queued(p, a)
      /\ HandedOut(a) = ElementsAt(log[p], OutOf(p, a))
  BY <1>4, <1>5 DEF PendingOf, HandedOut
<1>8. PendingOf(a) \in Seq(Txs)
  BY <1>4, <1>6, <1>7, ConcatProperties
<1>. QED  BY <1>1, <1>4, <1>5, <1>6, <1>7, <1>8

\* A step that a sender does not notice.
Unnoticed(a) == PendingOf(a)' = PendingOf(a) /\ HandedOut(a)' = HandedOut(a)

\* A sender notices no step that leaves its partition's log, Vec and queued additions.
LEMMA Untouched ==
    ASSUME NEW a \in Addresses, NEW p, p = PartitionForAddress[a],
           log'[p] = log[p], transactions'[p] = transactions[p],
           Queued(p, a)' = Queued(p, a)
    PROVE  Unnoticed(a)
<1>1. TxsAt(p, transactions[p], a)' = TxsAt(p, transactions[p], a)
  BY DEF TxsAt, OfSender, SenderAt
<1>2. TxsAt(p, (1 .. Len(log[p])) \ transactions[p], a)'
        = TxsAt(p, (1 .. Len(log[p])) \ transactions[p], a)
  BY DEF TxsAt, OfSender, SenderAt
<1>. QED  BY <1>1, <1>2 DEF PendingOf, HandedOut, Unnoticed

\* An untouched channel holds the same additions.
LEMMA SameChannel ==
    ASSUME NEW p, NEW a, inbox'[p] = inbox[p]
    PROVE  Queued(p, a)' = Queued(p, a)
BY DEF Queued, AddsOf

\* Requests join the channels and are served without moving a transaction.
LEMMA QuietRequest ==
    ASSUME Safe, Safe', NEW c \in Clients, Request(c), NEW a \in Addresses
    PROVE  Unnoticed(a)
<1> DEFINE p == PartitionForAddress[a]
           q == part[c]
           m == [kind |-> KindOf(pc[c]), tx |-> NoTx, client |-> c,
                 max |-> IF pc[c] = "take" THEN limit[c] - Cardinality(acc[c]) ELSE 0]
<1>1. p \in Partitions /\ q \in Partitions
  BY MempoolAssumption DEF Safe, TypeOK
<1>2. /\ UNCHANGED <<log, transactions>>
      /\ inbox' = [inbox EXCEPT ![q] = Append(inbox[q], m)]
      /\ pc[c] \in Loops
  BY DEF Request
<1>3. /\ inbox'[q] = Append(inbox[q], m)
      /\ \A r \in Partitions : r # q => inbox'[r] = inbox[r]
  BY <1>1, <1>2 DEF Safe, TypeOK
<1>4. m.kind # "add"
  BY <1>2 DEF KindOf, Loops, LenLoops
<1>5. Queued(p, a)' = Queued(p, a)
  <2>1. CASE p = q
    <3>1. /\ Len(inbox[p]) \in Nat
          /\ Len(inbox'[p]) = Len(inbox[p]) + 1
          /\ \A i \in 1 .. Len(inbox[p]) : inbox'[p][i] = inbox[p][i]
          /\ inbox'[p][Len(inbox[p]) + 1] = m
      <4>. HIDE DEF m, p, q
      <4>1. inbox[p] \in Seq(Commands) /\ inbox'[p] \in Seq(Commands)
        BY <1>1 DEF Safe, TypeOK
      <4>2. inbox[p] \in Seq(Commands \cup {m})
        BY <4>1
      <4>. QED  BY <1>3, <2>1, <4>2, AppendProperties, LenProperties
    <3>2. AddsOf(p, a)' = AddsOf(p, a)
      <4>. HIDE DEF m, p, q
      <4>. QED  BY <1>4, <3>1 DEF AddsOf
    <3>3. \A i \in AddsOf(p, a) : inbox'[p][i].tx = inbox[p][i].tx
      <4>. HIDE DEF m, p, q
      <4>. QED  BY <3>1 DEF AddsOf
    <3>. HIDE DEF m, p, q
    <3>. QED  BY <1>1, <3>2, <3>3, QueuedSame
  <2>2. CASE p # q
    BY <1>1, <1>3, <2>2, SameChannel
  <2>. QED  BY <2>1, <2>2
<1>. QED  BY <1>2, <1>5, Untouched

\* A dropped call only disowns its requests.
LEMMA QuietCancel ==
    ASSUME Safe, Safe', NEW c \in Clients, Cancel(c), NEW a \in Addresses
    PROVE  Unnoticed(a)
<1> DEFINE p == PartitionForAddress[a]
<1>1. p \in Partitions
  BY MempoolAssumption
<1>2. /\ UNCHANGED <<log, transactions>>
      /\ inbox'[p] = [i \in DOMAIN inbox[p] |-> Orphan(inbox[p][i], c)]
  BY <1>1 DEF Cancel
<1>. HIDE DEF p
<1>3. inbox[p] \in Seq(Commands) /\ inbox'[p] \in Seq(Commands)
  BY <1>1 DEF Safe, TypeOK
<1>4. DOMAIN inbox[p] = 1 .. Len(inbox[p]) /\ DOMAIN inbox'[p] = DOMAIN inbox[p]
  BY <1>2, <1>3, LenProperties
<1>5. Len(inbox'[p]) = Len(inbox[p])
  BY <1>3, <1>4, LenProperties
<1>6. ASSUME NEW i \in 1 .. Len(inbox[p])
      PROVE  inbox'[p][i].kind = inbox[p][i].kind /\ inbox'[p][i].tx = inbox[p][i].tx
  <2>1. inbox[p][i] \in Commands /\ inbox'[p][i] = Orphan(inbox[p][i], c)
    BY <1>2, <1>3, <1>4, ElementOfSeq
  <2>. QED  BY <2>1 DEF Orphan, Commands
<1>7. AddsOf(p, a)' = AddsOf(p, a) /\ \A i \in AddsOf(p, a) : inbox'[p][i].tx = inbox[p][i].tx
  BY <1>5, <1>6 DEF AddsOf
<1>8. Queued(p, a)' = Queued(p, a)
  BY <1>1, <1>7, QueuedSame
<1>. QED  BY <1>2, <1>8, Untouched DEF p

\* Serving a request for a length or for pending transactions moves no transaction.
LEMMA QuietServe ==
    ASSUME Safe, Safe', NEW p \in Partitions, NEW kind, kind # "add", Serve(p, kind),
           UNCHANGED <<log, transactions>>, NEW a \in Addresses
    PROVE  Unnoticed(a)
<1>1. PICK q \in Partitions : q = PartitionForAddress[a]
  BY MempoolAssumption
<1>2. /\ inbox[p] # << >> /\ Head(inbox[p]).kind # "add"
      /\ inbox'[p] = Tail(inbox[p])
      /\ \A r \in Partitions : r # p => inbox'[r] = inbox[r]
  BY DEF Serve, Safe, TypeOK
<1>3. Queued(q, a)' = Queued(q, a)
  <2>1. CASE q = p
    BY <1>2, <2>1, QueuedServed
  <2>2. CASE q # p
    BY <1>2, <2>2, SameChannel
  <2>. QED  BY <2>1, <2>2
<1>. QED  BY <1>1, <1>3, Untouched

(***************************************************************************)
(* The actor receives an addition that its sender's queue already holds.   *)
(***************************************************************************)

\* A concatenation is cut where it was joined.
LEMMA CutConcat ==
    ASSUME NEW X, NEW s \in Seq(X), NEW t \in Seq(X), NEW n, n = Len(s)
    PROVE  /\ n <= Len(s \o t)
           /\ SubSeq(s \o t, 1, n) = s
           /\ SubSeq(s \o t, n + 1, Len(s \o t)) = t
<1> DEFINE u == s \o t
<1>1. /\ u \in Seq(X) /\ Len(u) = Len(s) + Len(t) /\ n \in Nat /\ Len(t) \in Nat
      /\ \A i \in 1 .. (Len(s) + Len(t)) : u[i] = IF i <= Len(s) THEN s[i] ELSE t[i - Len(s)]
  BY ConcatProperties, LenProperties
<1>. HIDE DEF u
<1>2. \A i \in 1 .. Len(u) : u[i] \in X
  BY <1>1, ElementOfSeq
<1>3. SubSeq(u, 1, n) = s
  <2> DEFINE v == SubSeq(u, 1, n)
  <2>1. \A i \in 1 .. n : i \in 1 .. Len(u) /\ u[i] \in X
    BY <1>1, <1>2
  <2>2. v \in Seq(X) /\ Len(v) = n /\ \A i \in 1 .. n : v[i] = u[1 + i - 1]
    BY <1>1, <2>1, SubSeqProperties
  <2>. HIDE DEF v
  <2>3. \A i \in 1 .. n : v[i] = s[i]
    <3>. TAKE i \in 1 .. n
    <3>1. 1 + i - 1 = i /\ i <= Len(s) /\ i \in 1 .. (Len(s) + Len(t))
      BY <1>1
    <3>. QED  BY <1>1, <2>2, <3>1
  <2>4. v = s
    BY <2>2, <2>3, SeqEqual
  <2>. QED  BY <2>4 DEF v
<1>4. SubSeq(u, n + 1, Len(u)) = t
  <2> DEFINE v == SubSeq(u, n + 1, Len(u))
  <2>1. \A i \in (n + 1) .. Len(u) : i \in 1 .. Len(u) /\ u[i] \in X
    BY <1>1, <1>2
  <2>2. /\ v \in Seq(X)
        /\ Len(v) = IF n + 1 <= Len(u) THEN Len(u) - (n + 1) + 1 ELSE 0
        /\ \A i \in 1 .. (Len(u) - (n + 1) + 1) : v[i] = u[(n + 1) + i - 1]
    BY <1>1, <2>1, SubSeqProperties
  <2>. HIDE DEF v
  <2>3. Len(v) = Len(t)
    BY <1>1, <2>2
  <2>4. \A i \in 1 .. Len(v) : v[i] = t[i]
    <3>. TAKE i \in 1 .. Len(v)
    <3>0. i \in Nat /\ 1 <= i /\ i <= Len(t)
      BY <1>1, <2>3
    <3> DEFINE j == n + i
    <3>1. (n + 1) + i - 1 = j /\ j \in Nat
      BY <1>1, <3>0
    <3>2. i \in 1 .. (Len(u) - (n + 1) + 1)
      BY <1>1, <2>3
    <3>3. v[i] = u[j]
      <4>. HIDE DEF j
      <4>. QED  BY <2>2, <3>1, <3>2
    <3>4. j \in 1 .. (Len(s) + Len(t)) /\ ~(j <= Len(s)) /\ j - Len(s) = i
      BY <1>1, <3>0, <3>1
    <3>. HIDE DEF j
    <3>5. u[j] = t[j - Len(s)]
      BY <1>1, <3>4
    <3>. QED  BY <3>3, <3>4, <3>5
  <2>5. v = t
    BY <2>2, <2>3, <2>4, SeqEqual
  <2>. QED  BY <2>5 DEF v
<1>5. n <= Len(u)
  BY <1>1
<1>. QED  BY <1>3, <1>4, <1>5 DEF u

\* What travels through a channel are transactions, before a step and after it.
LEMMA QueuedTyped == Safe => \A p \in Partitions : \A a : Queued(p, a) \in Seq(Txs)
BY AddsOfFacts

LEMMA QueuedTypedNext == Safe' => (\A p \in Partitions : \A a : Queued(p, a) \in Seq(Txs))'
BY QueuedTyped, PTL

\* A transaction that goes from the channel into the Vec stays where it is in the
\* queue of its sender.
LEMMA QuietAdd ==
    ASSUME Safe, Safe', NEW p \in Partitions, HandleAdd(p), NEW a \in Addresses
    PROVE  Unnoticed(a)
<1> DEFINE q == PartitionForAddress[a]
           t == Head(inbox[p]).tx
           n == Len(log[p]) + 1
<1>1. /\ inbox[p] # << >> /\ Head(inbox[p]).kind = "add"
      /\ inbox'[p] = Tail(inbox[p])
      /\ \A r \in Partitions : r # p => inbox'[r] = inbox[r]
      /\ log'[p] = Append(log[p], t)
      /\ transactions'[p] = transactions[p] \cup {n}
      /\ \A r \in Partitions : r # p => log'[r] = log[r] /\ transactions'[r] = transactions[r]
  BY DEF HandleAdd, Serve, Safe, TypeOK
<1>2. q \in Partitions
  BY MempoolAssumption
<1>3. t \in Txs
  <2>1. Head(inbox[p]) = inbox[p][1] /\ 1 \in 1 .. Len(inbox[p])
    BY <1>1, ChannelHead DEF Safe
  <2>. QED  BY <1>1, <2>1 DEF Safe, RequestProtocol, CommandOk
<1>4. CASE q # p
  BY <1>1, <1>2, <1>4, SameChannel, Untouched
<1>5. CASE q = p
  <2>. HIDE DEF q, t
  <2>1. /\ Len(log[p]) \in Nat /\ n \in Nat /\ Len(log'[p]) = n
        /\ log'[p][n] = t
        /\ \A i \in 1 .. Len(log[p]) : log'[p][i] = log[p][i]
    BY <1>1, <1>3, AppendProperties, LenProperties DEF Safe, TypeOK
  <2>2. transactions[p] \in SUBSET (1 .. Len(log[p]))
    BY DEF Safe, TypeOK
  <2> DEFINE V == VecOf(p, a)
             O == OutOf(p, a)
             z == Queued(p, a)
             y == ElementsAt(log[p], V)
  <2>3. /\ V \in SUBSET Nat /\ IsFiniteSet(V) /\ Within(log[p], V, Txs)
        /\ O \in SUBSET Nat /\ IsFiniteSet(O) /\ Within(log[p], O, Txs)
        /\ z \in Seq(Txs) /\ y \in Seq(Txs)
        /\ PendingOf(a) = y \o z
        /\ HandedOut(a) = ElementsAt(log[p], O)
    BY <1>5, MappedFacts DEF q
  <2>4. /\ PendingOf(a)' = ElementsAt(log[p], VecOf(p, a))' \o Queued(p, a)'
        /\ HandedOut(a)' = ElementsAt(log[p], OutOf(p, a))'
        /\ Queued(p, a)' \in Seq(Txs)
    <3>1. p = PartitionForAddress[a]
      BY <1>5 DEF q
    <3>. QED  BY <3>1, QueuedTypedNext DEF PendingOf, HandedOut, TxsAt, VecOf, OutOf
  <2>5. V \in SUBSET (1 .. Len(log[p])) /\ O \in SUBSET (1 .. Len(log[p]))
    BY <2>2 DEF VecOf, OutOf, OfSender
  <2>6. OutOf(p, a)' = O
    BY <1>1, <2>1, <2>2 DEF OutOf, OfSender, SenderAt
  <2>7. HandedOut(a)' = HandedOut(a)
    <3>1. \A i \in O : log'[p][i] = log[p][i]
      BY <2>1, <2>5
    <3>2. ElementsAt(log'[p], O) = ElementsAt(log[p], O)
      <4>. HIDE DEF O
      <4>. QED  BY <2>3, <3>1, ElementsSame
    <3>. QED  BY <2>3, <2>4, <2>6, <3>2
  <2>8. ElementsAt(log'[p], V) = y
    <3>1. \A i \in V : log'[p][i] = log[p][i]
      BY <2>1, <2>5
    <3>. HIDE DEF V
    <3>. QED  BY <2>3, <3>1, ElementsSame
  <2>9. CASE From[t] # a
    <3>1. VecOf(p, a)' = V
      BY <1>1, <2>1, <2>2, <2>9 DEF VecOf, OfSender, SenderAt
    <3>2. Queued(p, a)' = z
      BY <1>1, <2>9, QueuedServed DEF t
    <3>3. PendingOf(a)' = PendingOf(a)
      <4>. HIDE DEF V, z
      <4>. QED  BY <2>3, <2>4, <2>8, <3>1, <3>2
    <3>. QED  BY <2>7, <3>3 DEF Unnoticed
  <2>10. CASE From[t] = a
    <3>1. VecOf(p, a)' = V \cup {n}
      BY <1>1, <2>1, <2>2, <2>10 DEF VecOf, OfSender, SenderAt
    <3>2. z = <<t>> \o Queued(p, a)'
      BY <1>1, <2>10, QueuedServed DEF t
    <3>3. {n} \in SUBSET Nat /\ IsFiniteSet({n}) /\ \A i \in V, j \in {n} : i < j
      <4>1. IsFiniteSet({n})
        BY FS_Singleton
      <4>2. \A i \in V : i < n
        BY <2>1, <2>5
      <4>. QED  BY <2>1, <4>1, <4>2
    <3>4. Within(log'[p], V \cup {n}, Txs)
      <4>1. \A i \in V : log'[p][i] = log[p][i]
        BY <2>1, <2>5
      <4>. HIDE DEF V, n
      <4>. QED  BY <1>3, <2>1, <2>3, <4>1 DEF Within, t
    <3>5. ElementsAt(log'[p], V \cup {n}) = ElementsAt(log'[p], V) \o ElementsAt(log'[p], {n})
      <4>. HIDE DEF V, n
      <4>. QED  BY <2>3, <3>3, <3>4, ElementsSplit
    <3>6. ElementsAt(log'[p], {n}) = <<t>>
      <4>. HIDE DEF n
      <4>. QED  BY <2>1, ElementsOne
    <3>7. PendingOf(a)' = (y \o <<t>>) \o Queued(p, a)'
      <4>. HIDE DEF V, n, y, z
      <4>. QED  BY <2>4, <2>8, <3>1, <3>5, <3>6
    <3>8. (y \o <<t>>) \o Queued(p, a)' = y \o (<<t>> \o Queued(p, a)')
      <4>1. <<t>> \in Seq(Txs)
        BY <1>3
      <4>. HIDE DEF y
      <4>. QED  BY <2>3, <2>4, <4>1, ConcatAssociative
    <3>9. PendingOf(a)' = PendingOf(a)
      <4>. HIDE DEF V, n, y, z
      <4>. QED  BY <2>3, <3>2, <3>7, <3>8
    <3>. QED  BY <2>7, <3>9 DEF Unnoticed
  <2>. QED  BY <2>9, <2>10
<1>. QED  BY <1>4, <1>5

(***************************************************************************)
(* Additions join a queue, and a selection is a prefix of every queue.     *)
(***************************************************************************)

\* An acknowledged addition is at the end of its sender's queue.
LEMMA AddSubmits ==
    ASSUME Safe, Safe', NEW c \in Clients, SendAdd(c),
           NEW t, t = tx[c], NEW b, b = From[t]
    PROVE  /\ t \in Txs
           /\ b \in Addresses
           /\ PendingOf(b)' = Append(PendingOf(b), t)
           /\ \A a \in Addresses : a # b => PendingOf(a)' = PendingOf(a)
           /\ \A a \in Addresses : HandedOut(a)' = HandedOut(a)
<1> DEFINE p == PartitionForAddress[b]
           m == [kind |-> "add", tx |-> t, client |-> NoClient, max |-> 0]
<1>1. t \in Txs
  BY DEF Safe, RequestProtocol, ClientOk, SendAdd
<1>2. b \in Addresses /\ p \in Partitions
  BY <1>1, MempoolAssumption
<1>3. m \in Commands /\ m.kind = "add" /\ m.tx = t
  BY <1>1 DEF Commands
<1>4. /\ inbox' = [inbox EXCEPT ![p] = Append(inbox[p], m)]
      /\ UNCHANGED <<log, transactions>>
  BY DEF SendAdd, AddPartition
<1>. HIDE DEF m
<1>5. /\ inbox'[p] = Append(inbox[p], m)
      /\ \A r \in Partitions : r # p => inbox'[r] = inbox[r]
  BY <1>2, <1>4 DEF Safe, TypeOK
<1>. HIDE DEF p
<1>6. ASSUME NEW a \in Addresses, a # b
      PROVE  Unnoticed(a)
  <2>1. PICK q \in Partitions : q = PartitionForAddress[a]
    BY MempoolAssumption
  <2>2. Queued(q, a)' = Queued(q, a)
    <3>1. CASE q = p
      BY <1>3, <1>5, <1>6, <3>1, QueuedSent
    <3>2. CASE q # p
      BY <1>5, <3>2, SameChannel
    <3>. QED  BY <3>1, <3>2
  <2>. QED  BY <1>4, <2>1, <2>2, Untouched
<1>7. PendingOf(b)' = Append(PendingOf(b), t) /\ HandedOut(b)' = HandedOut(b)
  <2>1. p = PartitionForAddress[b]
    BY DEF p
  <2> DEFINE y == ElementsAt(log[p], VecOf(p, b))
             z == Queued(p, b)
  <2>2. z' = z \o <<t>>
    BY <1>2, <1>3, <1>5, QueuedSent
  <2>3. y \in Seq(Txs) /\ z \in Seq(Txs) /\ PendingOf(b) = y \o z /\ PendingOf(b) \in Seq(Txs)
    BY <1>2, <2>1, MappedFacts
  <2>4. PendingOf(b)' = y \o z'
    BY <1>4, <2>1 DEF PendingOf, TxsAt, VecOf, OfSender, SenderAt
  <2>5. HandedOut(b)' = HandedOut(b)
    BY <1>4, <2>1 DEF HandedOut, TxsAt, OfSender, SenderAt
  <2>6. y \o (z \o <<t>>) = (y \o z) \o <<t>>
    <3>1. <<t>> \in Seq(Txs)
      BY <1>1
    <3>. HIDE DEF y, z
    <3>. QED  BY <2>3, <3>1, ConcatAssociative
  <2>7. PendingOf(b) \o <<t>> = Append(PendingOf(b), t)
    <3>1. PICK w \in Seq(Txs) : w = PendingOf(b)
      BY <2>3
    <3>2. w \o <<t>> = Append(w, t)
      BY <1>1
    <3>. QED  BY <3>1, <3>2
  <2>. HIDE DEF y, z
  <2>. QED  BY <2>2, <2>3, <2>4, <2>5, <2>6, <2>7
<1>. QED  BY <1>1, <1>2, <1>6, <1>7 DEF Unnoticed

\* A running take_for_block has one of the limits its callers give.
LimitGiven ==
    \A c \in Clients : pc[c] \in {"take_len", "take_empty", "take"} => limit[c] \in BlockLimits

\* A caller that collects a block keeps a limit it was allowed to give.
LEMMA LimitStep ==
    ASSUME Safe, LimitGiven, [Next]_vars
    PROVE  LimitGiven'
<1>. USE DEF LimitGiven, Safe, TypeOK
<1>1. ASSUME NEW c \in Clients, NEW t \in Txs, BeginAdd(c, t)  PROVE LimitGiven'
  BY <1>1 DEF BeginAdd
<1>2. ASSUME NEW c \in Clients, SendAdd(c)  PROVE LimitGiven'
  BY <1>2 DEF SendAdd
<1>3. ASSUME NEW c \in Clients, BeginLen(c)  PROVE LimitGiven'
  BY <1>3 DEF BeginLen, Enter
<1>4. ASSUME NEW c \in Clients, BeginPending(c)  PROVE LimitGiven'
  BY <1>4 DEF BeginPending, Enter
<1>5. ASSUME NEW c \in Clients, NEW max \in BlockLimits, BeginTake(c, max)  PROVE LimitGiven'
  BY <1>5 DEF BeginTake, Enter
<1>6. ASSUME NEW c \in Clients, Request(c)  PROVE LimitGiven'
  BY <1>6 DEF Request
<1>a. ASSUME NEW c \in Clients, Return(c)  PROVE LimitGiven'
  BY <1>a DEF Return
<1>b. ASSUME NEW c \in Clients, NEW loop \in {"pending", "take_empty", "take"},
             Enter(c, loop), UNCHANGED limit,
             loop = "pending" \/ pc[c] \in {"take_len", "take_empty"}
      PROVE  LimitGiven'
  BY <1>b DEF Enter
<1>7. ASSUME NEW c \in Clients, ReceiveLen(c)  PROVE LimitGiven'
  <2>1. CASE LastPartition(c)
    <3>1. AfterLen(c, total[c] + reply[c].len)
      BY <1>7, <2>1 DEF ReceiveLen
    <3>. QED  BY <1>a, <1>b, <3>1 DEF AfterLen
  <2>2. CASE ~LastPartition(c)
    BY <1>7, <2>2 DEF ReceiveLen
  <2>. QED  BY <2>1, <2>2
<1>8. ASSUME NEW c \in Clients, ReceivePending(c)  PROVE LimitGiven'
  <2>1. CASE LastPartition(c)
    BY <1>8, <1>a, <2>1 DEF ReceivePending
  <2>2. CASE ~LastPartition(c)
    BY <1>8, <2>2 DEF ReceivePending
  <2>. QED  BY <2>1, <2>2
<1>9. ASSUME NEW c \in Clients, ReceiveTake(c)  PROVE LimitGiven'
  <2>1. Return(c) \/ UNCHANGED <<pc, limit>>
    BY <1>9 DEF ReceiveTake
  <2>. QED  BY <1>a, <2>1
<1>10. ASSUME NEW c \in Clients, Cancel(c)  PROVE LimitGiven'
  BY <1>10, <1>a DEF Cancel
<1>11. ASSUME NEW p \in Partitions,
              HandleAdd(p) \/ HandleTake(p) \/ HandleLen(p) \/ HandlePending(p)
       PROVE  LimitGiven'
  <2>1. UNCHANGED <<pc, limit>>
    BY <1>11 DEF HandleAdd, HandleTake, HandleLen, HandlePending, Serve
  <2>. QED  BY <2>1
<1>12. ASSUME UNCHANGED vars  PROVE LimitGiven'
  BY <1>12 DEF vars, clientVars
<1>. HIDE DEF LimitGiven, Safe, TypeOK
<1>. QED  BY <1>1, <1>2, <1>3, <1>4, <1>5, <1>6, <1>7, <1>8, <1>9, <1>10, <1>11, <1>12, StepCases

\* What a TakeForBlock command does to one sender: the selected transactions are the
\* first of its queue and go to the end of what it had handed out.
LEMMA TakenPrefix ==
    ASSUME Safe, Safe', Conserved, Routed, NEW p \in Partitions, HandleTake(p),
           Head(inbox[p]).max \in Nat, NEW Sel, Sel = SelectForBlock(p, Head(inbox[p]).max),
           NEW a \in Addresses, NEW n, n = Cardinality(OfSender(p, Sel, a))
    PROVE  /\ n \in 0 .. MaxPerAddress
           /\ n <= Len(PendingOf(a))
           /\ PendingOf(a)' = SubSeq(PendingOf(a), n + 1, Len(PendingOf(a)))
           /\ HandedOut(a)' = HandedOut(a) \o SubSeq(PendingOf(a), 1, n)
<1> DEFINE q == PartitionForAddress[a]
           A == OfSender(p, Sel, a)
<1>1. /\ inbox[p] # << >> /\ Head(inbox[p]).kind = "take"
      /\ inbox'[p] = Tail(inbox[p])
      /\ \A r \in Partitions : r # p => inbox'[r] = inbox[r]
      /\ UNCHANGED log
      /\ transactions'[p] = transactions[p] \ Sel
      /\ \A r \in Partitions : r # p => transactions'[r] = transactions[r]
  BY DEF HandleTake, Serve, Safe, TypeOK
<1>2. Len(log[p]) \in Nat /\ transactions[p] \in SUBSET (1 .. Len(log[p]))
  BY LenProperties DEF Safe, TypeOK
<1>3. /\ Sel \subseteq transactions[p]
      /\ IsFiniteSet(Sel)
      /\ Cardinality({i \in Sel : SenderAt(p, i) = a}) <= MaxPerAddress
      /\ \A i \in transactions[p], j \in Sel :
             SenderAt(p, i) = SenderAt(p, j) /\ i <= j => i \in Sel
  BY <1>2, SelectionFacts
<1>4. n \in 0 .. MaxPerAddress
  <2>1. A = {i \in Sel : SenderAt(p, i) = a}
    BY DEF OfSender
  <2>2. A \in SUBSET Sel
    BY <2>1
  <2>3. IsFiniteSet(A)
    <3>. HIDE DEF A
    <3>. QED  BY <1>3, <2>2, FS_Subset
  <2>4. n \in Nat
    BY <2>3, FS_CardinalityType
  <2>5. n <= MaxPerAddress
    BY <1>3, <2>1
  <2>. QED  BY <2>4, <2>5, MempoolAssumption
<1>5. q \in Partitions
  BY MempoolAssumption
<1>6. CASE q # p
  <2>1. A = {}
    <3>1. \A i \in Sel : PartitionForAddress[SenderAt(p, i)] = p
      BY <1>2, <1>3 DEF Routed
    <3>. QED  BY <1>6, <3>1 DEF OfSender
  <2>2. n = 0
    BY <2>1, FS_EmptySet
  <2>3. Unnoticed(a)
    BY <1>1, <1>5, <1>6, SameChannel, Untouched
  <2>4. PICK u \in Seq(Txs) : u = PendingOf(a)
    BY MappedFacts
  <2>5. PICK v \in Seq(Txs) : v = HandedOut(a)
    BY MappedFacts
  <2>6. SubSeq(u, 1, Len(u)) = u /\ SubSeq(u, 1, 0) = << >> /\ v \o << >> = v /\ Len(u) \in Nat
    BY SubSeqFull, SubSeqEmpty, ConcatEmptySeq, LenProperties
  <2>. QED  BY <1>4, <2>2, <2>3, <2>4, <2>5, <2>6 DEF Unnoticed
<1>7. CASE q = p
  <2> DEFINE V == VecOf(p, a)
             R == V \ A
             O == OutOf(p, a)
             x == ElementsAt(log[p], A)
             y == ElementsAt(log[p], R)
             z == Queued(p, a)
             o == ElementsAt(log[p], O)
  <2>1. p = PartitionForAddress[a]
    BY <1>7
  <2>2. /\ V \in SUBSET Nat /\ IsFiniteSet(V) /\ Within(log[p], V, Txs)
        /\ O \in SUBSET Nat /\ IsFiniteSet(O) /\ Within(log[p], O, Txs)
        /\ z \in Seq(Txs) /\ o \in Seq(Txs)
        /\ PendingOf(a) = ElementsAt(log[p], V) \o z
        /\ HandedOut(a) = o
    BY <2>1, MappedFacts
  <2>3. A \in SUBSET V
    BY <1>3 DEF VecOf, OfSender
  <2>4. /\ A \in SUBSET Nat /\ IsFiniteSet(A) /\ Within(log[p], A, Txs)
        /\ R \in SUBSET Nat /\ IsFiniteSet(R) /\ Within(log[p], R, Txs)
        /\ V = A \cup R
    <3>. HIDE DEF A, V
    <3>1. R \in SUBSET V
      OBVIOUS
    <3>2. IsFiniteSet(A) /\ IsFiniteSet(R)
      BY <2>2, <2>3, <3>1, FS_Subset
    <3>. QED  BY <2>2, <2>3, <3>2 DEF Within
  <2>5. \A i \in A, j \in R : i < j
    <3>. SUFFICES ASSUME NEW i \in A, NEW j \in R PROVE i < j
      OBVIOUS
    <3>1. i \in Sel /\ SenderAt(p, i) = a /\ j \in transactions[p] /\ SenderAt(p, j) = a /\ j \notin Sel
      BY DEF OfSender, VecOf
    <3>2. ~(j <= i)
      BY <1>3, <3>1
    <3>3. i \in Nat /\ j \in Nat
      BY <2>4
    <3>. QED  BY <3>2, <3>3
  <2>6. ElementsAt(log[p], V) = x \o y
    <3>1. ElementsAt(log[p], A \cup R) = x \o y
      <4>1. Within(log[p], A \cup R, Txs)
        BY <2>2, <2>4
      <4>. HIDE DEF A, R, V
      <4>. QED  BY <2>4, <2>5, <4>1, ElementsSplit
    <3>. QED  BY <2>4, <3>1
  <2>7. x \in Seq(Txs) /\ Len(x) = n /\ y \in Seq(Txs)
    <3>. HIDE DEF A, R, V
    <3>1. x \in Seq(Txs) /\ Len(x) = Cardinality(A) /\ y \in Seq(Txs)
      BY <2>4, ElementsTyped
    <3>. QED  BY <3>1 DEF A
  <2>8. VecOf(p, a)' = R
    BY <1>1 DEF VecOf, OfSender, SenderAt
  <2>9. OutOf(p, a)' = O \cup A
    BY <1>1, <1>2, <1>3 DEF OutOf, OfSender, SenderAt
  <2>10. Queued(p, a)' = z
    BY <1>1, QueuedServed
  <2>11. PendingOf(a)' = y \o z
    BY <1>1, <2>1, <2>8, <2>10 DEF PendingOf, TxsAt, VecOf
  <2>12. PendingOf(a) = x \o (y \o z)
    <3>. HIDE DEF x, y, z, V
    <3>. QED  BY <2>2, <2>6, <2>7, ConcatAssociative
  <2>13. /\ n <= Len(PendingOf(a))
         /\ SubSeq(PendingOf(a), 1, n) = x
         /\ SubSeq(PendingOf(a), n + 1, Len(PendingOf(a))) = y \o z
    <3>. HIDE DEF x, y, z, V, O
    <3>1. y \o z \in Seq(Txs)
      BY <2>2, <2>7, ConcatProperties
    <3>2. PICK w \in Seq(Txs) : w = y \o z
      BY <3>1
    <3>3. /\ n <= Len(x \o w)
          /\ SubSeq(x \o w, 1, n) = x
          /\ SubSeq(x \o w, n + 1, Len(x \o w)) = w
      BY <2>7, CutConcat
    <3>. QED  BY <2>12, <3>2, <3>3
  <2>14. HandedOut(a)' = o \o x
    <3>1. HandedOut(a)' = ElementsAt(log[p], O \cup A)
      BY <1>1, <2>1, <2>9 DEF HandedOut, TxsAt, OutOf
    <3>2. \A i \in O, j \in A : i < j
      <4>. SUFFICES ASSUME NEW i \in O, NEW j \in A PROVE i < j
        OBVIOUS
      <4>1. /\ i \in 1 .. Len(log[p]) /\ i \notin transactions[p]
            /\ SenderAt(p, i) = SenderAt(p, j) /\ j \in transactions[p]
        BY <1>3 DEF OutOf, OfSender
      <4>2. Held(p, i) \/ InBlock(p, i)
        BY <4>1 DEF Conserved, NoTransactionLost
      <4>. QED  BY <4>1, <4>2 DEF Conserved, SenderFifo
    <3>3. Within(log[p], O \cup A, Txs)
      <4>. HIDE DEF A, O
      <4>. QED  BY <2>2, <2>4 DEF Within
    <3>. HIDE DEF A, O, V, R
    <3>. QED  BY <2>2, <2>4, <3>1, <3>2, <3>3, ElementsSplit
  <2>. HIDE DEF x, y, z, o, V, O, A, R
  <2>. QED  BY <1>4, <2>2, <2>11, <2>13, <2>14
<1>. QED  BY <1>6, <1>7

(***************************************************************************)
(* The refinement: every step of the mempool is one of the sender queues.  *)
(***************************************************************************)

\* The transactions handed out, counted by sender and rank, are no more than the
\* positions selected.
LEMMA HandedIsSelected ==
    ASSUME NEW p \in Partitions, NEW Sel \in SUBSET Nat, IsFiniteSet(Sel),
           NEW n, n = [a \in Addresses |-> Cardinality(OfSender(p, Sel, a))]
    PROVE  /\ IsFiniteSet(SQ!Handed(n))
           /\ Cardinality(SQ!Handed(n)) <= Cardinality(Sel)
<1> DEFINE H == SQ!Handed(n)
           A(a) == OfSender(p, Sel, a)
           g == [h \in H |-> Ascending(A(h[1]))[h[2]]]
<1>1. ASSUME NEW a
      PROVE  A(a) \in SUBSET Nat /\ IsFiniteSet(A(a)) /\ A(a) \in SUBSET Sel
  <2>1. A(a) \in SUBSET Sel
    BY DEF OfSender
  <2>. HIDE DEF A
  <2>. QED  BY <2>1, FS_Subset
<1>2. ASSUME NEW a
      PROVE  /\ Cardinality(A(a)) \in Nat
             /\ \A i \in 1 .. Cardinality(A(a)) : Ascending(A(a))[i] \in A(a)
             /\ \A i, j \in 1 .. Cardinality(A(a)) :
                    Ascending(A(a))[i] = Ascending(A(a))[j] => i = j
  <2>1. A(a) \in SUBSET Nat /\ IsFiniteSet(A(a))
    BY <1>1
  <2>. HIDE DEF A
  <2>2. /\ Cardinality(A(a)) \in Nat /\ Lists(Ascending(A(a)), A(a))
        /\ Len(Ascending(A(a))) = Cardinality(A(a))
    BY <2>1, AscendingLists
  <2>3. PICK e : e = Ascending(A(a))
    OBVIOUS
  <2>4. PICK T \in SUBSET Nat : T = A(a)
    BY <2>1
  <2>5. Lists(e, T)
    BY <2>2, <2>3, <2>4
  <2>6. /\ \A i \in 1 .. Len(e) : e[i] \in T
        /\ \A i, j \in 1 .. Len(e) : e[i] = e[j] => i = j
    BY <2>5, ListedInOrder
  <2>. QED  BY <2>2, <2>3, <2>4, <2>6
<1>3. \A h \in H : h = <<h[1], h[2]>> /\ h[1] \in Addresses /\ h[2] \in 1 .. Cardinality(A(h[1]))
  BY DEF SQ!Handed
<1>4. \A a, b : \A i \in A(a) : i \in A(b) => a = b
  BY DEF OfSender
<1>. HIDE DEF H, A
<1>5. \A h \in H : g[h] \in A(h[1]) /\ g[h] \in Sel
  BY <1>1, <1>2, <1>3
<1>6. ASSUME NEW h \in H, NEW k \in H, g[h] = g[k]
      PROVE  h = k
  <2>1. h[1] = k[1]
    BY <1>4, <1>5, <1>6
  <2>2. PICK a : a = h[1]
    OBVIOUS
  <2>3. Ascending(A(a))[h[2]] = Ascending(A(a))[k[2]]
    BY <1>6, <2>1, <2>2
  <2>4. h[2] \in 1 .. Cardinality(A(a)) /\ k[2] \in 1 .. Cardinality(A(a))
    BY <1>3, <2>1, <2>2
  <2>5. h[2] = k[2]
    BY <1>2, <2>3, <2>4
  <2>. QED  BY <1>3, <2>1, <2>5
<1>7. g \in Injection(H, Sel)
  <2>1. g \in [H -> Sel]
    BY <1>5
  <2>. HIDE DEF g
  <2>. QED  BY <1>6, <2>1 DEF Injection, IsInjective
<1>8. IsFiniteSet(H) /\ Cardinality(H) <= Cardinality(Sel)
  <2>. HIDE DEF g
  <2>. QED  BY <1>7, FS_Injection
<1>. QED  BY <1>8 DEF H

\* Serving a TakeForBlock command hands out a prefix of the queues.
LEMMA TakeHandsOut ==
    ASSUME Safe, Safe', Conserved, Routed, LimitGiven, NEW p \in Partitions, HandleTake(p)
    PROVE  \E max \in BlockLimits, n \in [Addresses -> 0 .. MaxPerAddress] : SQ!HandOut(n, max)
<1>. USE MempoolAssumption
<1>1. PICK cmd : cmd = Head(inbox[p])
  OBVIOUS
<1>2. inbox[p] # << >> /\ cmd.kind = "take" /\ added' = added
  BY <1>1 DEF HandleTake, Serve, historyVars
<1>3. CommandOk(p, cmd)
  <2>1. Head(inbox[p]) = inbox[p][1] /\ 1 \in 1 .. Len(inbox[p])
    BY <1>2, ChannelHead DEF Safe
  <2>. QED  BY <1>1, <2>1 DEF Safe, RequestProtocol
<1>4. PICK c \in Clients : c = cmd.client
  BY <1>2, <1>3 DEF CommandOk
<1>5. pc[c] = "take" /\ cmd.max = limit[c] - Cardinality(acc[c])
  <2>1. cmd.kind = KindOf(pc[c]) /\ cmd.max = limit[c] - Cardinality(acc[c])
    BY <1>2, <1>3, <1>4 DEF CommandOk
  <2>. QED  BY <1>2, <2>1 DEF KindOf
<1>6. limit[c] \in BlockLimits
  BY <1>5 DEF LimitGiven
<1>7. cmd.max \in Nat /\ cmd.max <= limit[c]
  <2>1. IsFiniteSet(acc[c]) /\ Cardinality(acc[c]) < limit[c] /\ limit[c] \in Nat
    BY <1>5 DEF Safe, Gathering, GatherOk, TypeOK
  <2>2. Cardinality(acc[c]) \in Nat
    BY <2>1, FS_CardinalityType
  <2>. QED  BY <1>5, <2>1, <2>2
<1>8. PICK Sel : Sel = SelectForBlock(p, cmd.max)
  OBVIOUS
<1>9. Sel \in SUBSET Nat /\ IsFiniteSet(Sel) /\ Cardinality(Sel) <= cmd.max
  <2>1. Len(log[p]) \in Nat /\ transactions[p] \subseteq 1 .. Len(log[p])
    BY VecFinite DEF Safe
  <2>2. Sel \subseteq transactions[p] /\ IsFiniteSet(Sel) /\ Cardinality(Sel) <= cmd.max
    BY <1>7, <1>8, <2>1, SelectionFacts
  <2>. QED  BY <2>1, <2>2
<1> DEFINE n == [a \in Addresses |-> Cardinality(OfSender(p, Sel, a))]
<1>10. ASSUME NEW a \in Addresses
       PROVE  /\ n[a] \in 0 .. MaxPerAddress
              /\ n[a] <= Len(PendingOf(a))
              /\ PendingOf(a)' = SubSeq(PendingOf(a), n[a] + 1, Len(PendingOf(a)))
              /\ HandedOut(a)' = HandedOut(a) \o SubSeq(PendingOf(a), 1, n[a])
  <2>1. PICK k : k = Cardinality(OfSender(p, Sel, a))
    OBVIOUS
  <2>2. n[a] = k
    BY <2>1
  <2>3. Sel = SelectForBlock(p, Head(inbox[p]).max) /\ Head(inbox[p]).max \in Nat
    BY <1>1, <1>7, <1>8
  <2>. HIDE DEF n
  <2>4. /\ k \in 0 .. MaxPerAddress
        /\ k <= Len(PendingOf(a))
        /\ PendingOf(a)' = SubSeq(PendingOf(a), k + 1, Len(PendingOf(a)))
        /\ HandedOut(a)' = HandedOut(a) \o SubSeq(PendingOf(a), 1, k)
    BY <2>1, <2>3, TakenPrefix
  <2>. QED  BY <2>2, <2>4
<1>11. n \in [Addresses -> 0 .. MaxPerAddress]
  BY <1>10
<1>12. PICK m : m = n
  OBVIOUS
<1>13. Cardinality(SQ!Handed(m)) <= limit[c]
  <2>1. IsFiniteSet(SQ!Handed(m)) /\ Cardinality(SQ!Handed(m)) <= Cardinality(Sel)
    BY <1>9, <1>12, HandedIsSelected
  <2>2. Cardinality(SQ!Handed(m)) \in Nat /\ Cardinality(Sel) \in Nat
    BY <1>9, <2>1, FS_CardinalityType
  <2>3. limit[c] \in Nat
    BY DEF Safe, TypeOK
  <2>. QED  BY <1>7, <1>9, <2>1, <2>2, <2>3
<1>. HIDE DEF n
<1>14. PICK max \in BlockLimits : max = limit[c]
  BY <1>6
<1>15. SQ!HandOut(m, max)
  <2>1. \A a \in Addresses :
            /\ m[a] <= Len(PendingOf(a))
            /\ PendingOf(a)' = SubSeq(PendingOf(a), m[a] + 1, Len(PendingOf(a)))
            /\ HandedOut(a)' = HandedOut(a) \o SubSeq(PendingOf(a), 1, m[a])
    BY <1>10, <1>12
  <2> DEFINE queue == [a \in Addresses |-> PendingOf(a)]
             out == [a \in Addresses |-> HandedOut(a)]
  <2>2. \A a \in Addresses : m[a] <= Len(queue[a])
    BY <2>1
  <2>3. queue' = [a \in Addresses |-> SubSeq(queue[a], m[a] + 1, Len(queue[a]))]
    BY <2>1
  <2>4. out' = [a \in Addresses |-> out[a] \o SubSeq(queue[a], 1, m[a])]
    BY <2>1
  <2>5. Cardinality(SQ!Handed(m)) <= max
    BY <1>13, <1>14
  <2>6. SQ!Cardinality(SQ!Handed(m)) = Cardinality(SQ!Handed(m))
    BY DEF SQ!Cardinality, Cardinality
  <2>7. added' = added
    BY <1>2
  <2>. QED  BY <2>2, <2>3, <2>4, <2>5, <2>6, <2>7 DEF SQ!HandOut
<1>. QED  BY <1>11, <1>12, <1>14, <1>15

\* The empty mempool maps to empty queues.
LEMMA AbstractInit == Init => SQ!Init
<1>. SUFFICES ASSUME Init PROVE SQ!Init
  OBVIOUS
<1>1. ASSUME NEW a \in Addresses
      PROVE  PendingOf(a) = << >> /\ HandedOut(a) = << >>
  <2>1. PICK p \in Partitions : p = PartitionForAddress[a]
    BY MempoolAssumption
  <2>2. inbox[p] = << >> /\ log[p] = << >> /\ transactions[p] = {}
    BY DEF Init
  <2>3. AddsOf(p, a) = {} /\ VecOf(p, a) = {} /\ OutOf(p, a) = {}
    BY <2>2 DEF AddsOf, VecOf, OutOf, OfSender
  <2>4. Queued(p, a) = << >>
    BY <2>3, ElementsNone DEF Queued
  <2>5. ElementsAt(log[p], VecOf(p, a)) = << >> /\ ElementsAt(log[p], OutOf(p, a)) = << >>
    BY <2>3, ElementsNone
  <2>. QED  BY <2>1, <2>4, <2>5 DEF PendingOf, HandedOut, TxsAt, VecOf, OutOf
<1>. QED  BY <1>1 DEF SQ!Init, Init

\* Every step of the mempool is a step of the sender queues or leaves them alone.
LEMMA AbstractStep ==
    ASSUME Safe, Safe', Conserved, Routed, LimitGiven, [Next]_vars
    PROVE  SQ!Next \/ (UNCHANGED added /\ \A a \in Addresses : Unnoticed(a))
<1>. USE MempoolAssumption
<1>1. ASSUME UNCHANGED partitionVars
      PROVE  \A a \in Addresses : Unnoticed(a)
  BY <1>1, SameChannel, Untouched DEF partitionVars
<1>2. ASSUME NEW c \in Clients,
             \/ \E t \in Txs : BeginAdd(c, t)
             \/ BeginLen(c) \/ BeginPending(c) \/ \E max \in BlockLimits : BeginTake(c, max)
             \/ ReceiveLen(c) \/ ReceivePending(c) \/ ReceiveTake(c)
      PROVE  UNCHANGED added /\ UNCHANGED partitionVars
  BY <1>2 DEF BeginAdd, BeginLen, BeginPending, BeginTake, ReceiveLen, ReceivePending,
              ReceiveTake, Consume, historyVars
<1>3. ASSUME NEW c \in Clients, Request(c)
      PROVE  UNCHANGED added /\ \A a \in Addresses : Unnoticed(a)
  BY <1>3, QuietRequest DEF Request, historyVars
<1>4. ASSUME NEW c \in Clients, Cancel(c)
      PROVE  UNCHANGED added /\ \A a \in Addresses : Unnoticed(a)
  BY <1>4, QuietCancel DEF Cancel, historyVars
<1>5. ASSUME NEW p \in Partitions, HandleLen(p) \/ HandlePending(p)
      PROVE  UNCHANGED added /\ \A a \in Addresses : Unnoticed(a)
  <2>1. (Serve(p, "len") \/ Serve(p, "pending")) /\ UNCHANGED <<log, transactions>>
    BY <1>5 DEF HandleLen, HandlePending
  <2>2. UNCHANGED added
    BY <2>1 DEF Serve, historyVars
  <2>. QED  BY <2>1, <2>2, QuietServe
<1>6. ASSUME NEW p \in Partitions, HandleAdd(p)
      PROVE  UNCHANGED added /\ \A a \in Addresses : Unnoticed(a)
  BY <1>6, QuietAdd DEF HandleAdd, Serve, historyVars
<1>7. ASSUME NEW p \in Partitions, HandleTake(p)
      PROVE  SQ!Next
  BY <1>7, TakeHandsOut DEF SQ!Next
<1>8. ASSUME NEW c \in Clients, SendAdd(c)
      PROVE  SQ!Next
  <2>1. PICK t : t = tx[c]
    OBVIOUS
  <2>2. PICK b : b = From[t]
    OBVIOUS
  <2>3. /\ t \in Txs /\ b \in Addresses
        /\ PendingOf(b)' = Append(PendingOf(b), t)
        /\ \A a \in Addresses : a # b => PendingOf(a)' = PendingOf(a)
        /\ \A a \in Addresses : HandedOut(a)' = HandedOut(a)
    BY <1>8, <2>1, <2>2, AddSubmits
  <2>4. added' = [added EXCEPT ![c] = added[c] + 1]
    BY <1>8 DEF SendAdd
  <2>5. SQ!Submit(c, t)
    BY <2>2, <2>3, <2>4 DEF SQ!Submit
  <2>. QED  BY <2>3, <2>5 DEF SQ!Next
<1>9. ASSUME UNCHANGED vars
      PROVE  UNCHANGED added /\ UNCHANGED partitionVars
  BY <1>9 DEF vars, historyVars
<1>. QED  BY <1>1, <1>2, <1>3, <1>4, <1>5, <1>6, <1>7, <1>8, <1>9, StepCases

\* The partitioned mempool implements one FIFO queue per sender, for any clients,
\* partitions, channel capacity and transactions: an acknowledged addition is at the
\* end of its sender's queue although it may still travel through a channel, calls
\* that are dropped and requests for lengths change nothing, and every TakeForBlock
\* command hands out a prefix of the queues of its partition, within the cap per
\* sender and a limit that some caller of take_for_block gave.
THEOREM MempoolIsSenderQueues == Spec => ImplementsSenderQueues
<1>1. Init => LimitGiven
  BY DEF Init, LimitGiven
<1>2. Spec => []LimitGiven
  BY <1>1, LimitStep, Safety, PTL DEF Spec
<1>3. Spec => []Capped
  BY Safety, ConservedAlways, CappedInit, CappedStep, PTL DEF Spec
<1>4. Capped => Routed
  BY DEF Capped
<1>5. ASSUME Safe, Safe', Conserved, Routed, LimitGiven, [Next]_vars
      PROVE  [SQ!Next]_<<[a \in Addresses |-> PendingOf(a)],
                         [a \in Addresses |-> HandedOut(a)], added>>
  BY <1>5, AbstractStep DEF Unnoticed
<1>. QED  BY <1>2, <1>3, <1>4, <1>5, Safety, ConservedAlways, AbstractInit, PTL
          DEF Spec, ImplementsSenderQueues, SQ!Spec

=============================================================================
