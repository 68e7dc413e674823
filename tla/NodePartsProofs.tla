-------------------------- MODULE NodePartsProofs --------------------------
(***************************************************************************)
(* Proofs about the parts of a node and its tools that share no state:     *)
(* PeerPenalty, NodeStorage, KeyFiles, SetupCeremony, Gossip, and the fork *)
(* choice and the block bodies of Blocks, each for any value of its        *)
(* constants.                                                              *)
(***************************************************************************)
EXTENDS NodeStorage, Blocks, PeerPenalty, KeyFiles, SetupCeremony, Gossip,
        FiniteSetTheorems, SequenceTheorems, WellFoundedInduction, TLAPS

-----------------------------------------------------------------------------
\* Counting modulo a limit: the remainder is unique, and adding one either
\* increments it or starts again at 0.
LEMMA RemainderIsUnique ==
    ASSUME NEW n \in Nat, NEW limit \in Nat \ {0}, NEW k \in Nat,
           NEW rest \in 0 .. (limit - 1), n = (limit * k) + rest
    PROVE  n % limit = rest
  OBVIOUS

LEMMA RemainderFacts ==
    ASSUME NEW n \in Nat, NEW limit \in Nat \ {0}
    PROVE  /\ (n % limit) \in 0 .. (limit - 1)
           /\ n < limit => n % limit = n
           /\ (n + 1) % limit = IF (n % limit) + 1 = limit THEN 0 ELSE (n % limit) + 1
<1>1. (n % limit) \in 0 .. (limit - 1)
  OBVIOUS
<1>2. n < limit => n % limit = n
  OBVIOUS
<1>3. PICK k \in Nat : n = (limit * k) + (n % limit)
  <2>1. n = (limit * (n \div limit)) + (n % limit)
    OBVIOUS
  <2>2. n \div limit \in Nat
    OBVIOUS
  <2>3. QED
    BY <2>1, <2>2, Zenon
<1>4. CASE (n % limit) + 1 = limit
  <2>1. n + 1 = (limit * (k + 1)) + 0
    BY <1>3, <1>4
  <2>2. n + 1 \in Nat /\ k + 1 \in Nat /\ 0 \in 0 .. (limit - 1)
    OBVIOUS
  <2>3. (n + 1) % limit = 0
    BY <2>1, <2>2, RemainderIsUnique, Zenon
  <2>4. QED
    BY <1>1, <1>2, <1>4, <2>3
<1>5. CASE (n % limit) + 1 # limit
  <2>1. n + 1 = (limit * k) + ((n % limit) + 1)
    BY <1>1, <1>3
  <2>2. n + 1 \in Nat /\ ((n % limit) + 1) \in 0 .. (limit - 1)
    BY <1>1, <1>5
  <2>3. (n + 1) % limit = (n % limit) + 1
    BY <2>1, <2>2, RemainderIsUnique, Zenon
  <2>4. QED
    BY <1>1, <1>2, <1>5, <2>3
<1>6. QED
  BY <1>4, <1>5

-----------------------------------------------------------------------------
(* Penalties of peers *)

\* The end of the ban that an offence at time t earns.
EndOfBan(t) == IF t + BanSecs <= MaxTime THEN t + BanSecs ELSE MaxTime

\* What ties the two Option fields of a peer to its last ban: a recorded ban
\* ends when it should, and one that is no longer recorded is over.
BanMatches(p) ==
    /\ offence[p] # Never =>
           /\ offence[p] <= now
           /\ banned_until_unix[p] \in {Never, EndOfBan(offence[p])}
           /\ banned_until_unix[p] = Never => now >= EndOfBan(offence[p])
    /\ offence[p] = Never => banned_until_unix[p] = Never
    /\ last_disconnect_unix[p] # Never => last_disconnect_unix[p] <= now

PenaltyInv == TypeOK /\ \A p \in Peers : BanMatches(p)

LEMMA PenaltyInvInit == Init => PenaltyInv
  BY PenaltyAssumption DEF Init, PenaltyInv, TypeOK, BanMatches, Times

LEMMA PenaltyTypeStep ==
    ASSUME TypeOK, [Next]_vars
    PROVE  TypeOK'
<1> USE PenaltyAssumption DEF TypeOK, Times, penalties
<1>1. CASE UNCHANGED vars
  BY <1>1 DEF vars
<1>2. ASSUME NEW p \in Peers, CanAcceptPeer(p) PROVE TypeOK'
  BY <1>2 DEF CanAcceptPeer, ClearExpiredBan
<1>3. ASSUME NEW p \in Peers, RegisterPeerDisconnect(p) PROVE TypeOK'
  BY <1>3 DEF RegisterPeerDisconnect
<1>4. ASSUME NEW p \in Peers, RegisterInvalidMessage(p) PROVE TypeOK'
  <2>1. CASE invalid_messages[p] + 1 >= MaxInvalid
    <3>1. Later(BanSecs) \in Times
      BY DEF Later
    <3>2. QED
      BY <1>4, <2>1, <3>1 DEF RegisterInvalidMessage, Ban
  <2>2. CASE ~(invalid_messages[p] + 1 >= MaxInvalid)
    BY <1>4, <2>2 DEF RegisterInvalidMessage
  <2>3. QED
    BY <2>1, <2>2
<1>5. CASE Tick
  BY <1>5 DEF Tick
<1>6. QED
  BY <1>1, <1>2, <1>3, <1>4, <1>5 DEF Next

LEMMA BanStep ==
    ASSUME PenaltyInv, [Next]_vars, NEW q \in Peers
    PROVE  BanMatches(q)'
<1> USE PenaltyAssumption DEF PenaltyInv, TypeOK, Times, penalties, BanMatches, EndOfBan
<1>1. CASE UNCHANGED vars
  BY <1>1 DEF vars
<1>2. ASSUME NEW p \in Peers, CanAcceptPeer(p) PROVE BanMatches(q)'
  BY <1>2 DEF CanAcceptPeer, ClearExpiredBan
<1>3. ASSUME NEW p \in Peers, RegisterPeerDisconnect(p) PROVE BanMatches(q)'
  BY <1>3 DEF RegisterPeerDisconnect
<1>4. ASSUME NEW p \in Peers, RegisterInvalidMessage(p) PROVE BanMatches(q)'
  BY <1>4 DEF RegisterInvalidMessage, Ban, Later
<1>5. CASE Tick
  BY <1>5 DEF Tick
<1>6. QED
  BY <1>1, <1>2, <1>3, <1>4, <1>5 DEF Next

LEMMA PenaltyInductive == Spec => []PenaltyInv
<1>1. PenaltyInv /\ [Next]_vars => PenaltyInv'
  BY PenaltyTypeStep, BanStep DEF PenaltyInv
<1>2. QED
  BY PenaltyInvInit, <1>1, PTL DEF Spec

\* Bans are served in full and no longer: clearing expired bans, disconnections
\* and further offences never shorten one, and nothing can_accept_peer looks at
\* keeps a peer out once ban and delay are over.
THEOREM BansServedAndLifted == Spec => [](TypeOK /\ BansAreExact)
<1>1. PenaltyInv => TypeOK /\ BanIsServed
  BY PenaltyAssumption
     DEF PenaltyInv, TypeOK, Times, BanMatches, EndOfBan, BanIsServed, CanAccept,
         IsBanned
<1>2. PenaltyInv => PenaltyExpires
  BY PenaltyAssumption
     DEF PenaltyInv, TypeOK, Times, BanMatches, EndOfBan, PenaltyExpires, CanAccept,
         IsBanned, CanReconnect
<1>3. PenaltyInv => TypeOK /\ BansAreExact
  BY <1>1, <1>2 DEF BansAreExact
<1>4. QED
  BY PenaltyInductive, <1>3, PTL

LEMMA CountStep ==
    ASSUME TypeOK, OffencesAreCounted, [Next]_vars
    PROVE  OffencesAreCounted'
<1> DEFINE limit == IF MaxInvalid = 0 THEN 1 ELSE MaxInvalid
           Counted(p) == /\ invalid_messages[p] = received[p] % limit
                         /\ offence[p] # Never <=> received[p] >= limit
<1>1. limit \in Nat \ {0}
  BY PenaltyAssumption
<1>2. SUFFICES ASSUME NEW q \in Peers PROVE Counted(q)'
  BY DEF OffencesAreCounted
<1>3. Counted(q)
  BY DEF OffencesAreCounted
<1>4. CASE UNCHANGED <<invalid_messages, offence, received>>
  BY <1>3, <1>4
<1>5. ASSUME NEW p \in Peers, RegisterInvalidMessage(p)
      PROVE  Counted(q)'
  <2>1. CASE p # q
    <3>1. /\ invalid_messages'[q] = invalid_messages[q] /\ received'[q] = received[q]
          /\ offence'[q] = offence[q]
      BY <1>5, <2>1 DEF RegisterInvalidMessage, Ban, TypeOK
    <3>2. QED
      BY <1>3, <3>1
  <2>2. CASE p = q
    <3>1. received[q] \in Nat /\ invalid_messages[q] \in Nat /\ received'[q] = received[q] + 1
      BY <1>5, <2>2, PenaltyAssumption DEF RegisterInvalidMessage, TypeOK
    <3> DEFINE n == received[q]
    <3>2. /\ (n % limit) \in 0 .. (limit - 1)
          /\ n < limit => n % limit = n
          /\ (n + 1) % limit = IF (n % limit) + 1 = limit THEN 0 ELSE (n % limit) + 1
      BY <1>1, <3>1, RemainderFacts
    <3>3. CASE invalid_messages[q] + 1 >= MaxInvalid
      <4>1. invalid_messages'[q] = 0 /\ offence'[q] = now /\ now # Never
        BY <1>5, <2>2, <3>3, PenaltyAssumption DEF RegisterInvalidMessage, Ban, TypeOK, Times
      <4>2. (n % limit) + 1 = limit
        BY <1>3, <3>2, <3>3, PenaltyAssumption
      <4>3. n + 1 >= limit
        BY <1>1, <3>1, <3>2, <4>2
      <4>4. QED
        BY <3>1, <3>2, <4>1, <4>2, <4>3
    <3>4. CASE ~(invalid_messages[q] + 1 >= MaxInvalid)
      <4>1. invalid_messages'[q] = invalid_messages[q] + 1 /\ offence'[q] = offence[q]
        BY <1>5, <2>2, <3>4 DEF RegisterInvalidMessage, TypeOK
      <4>2. (n % limit) + 1 # limit
        BY <1>3, <3>1, <3>4, PenaltyAssumption
      <4>3. n + 1 >= limit <=> n >= limit
        BY <1>1, <3>1, <3>2, <4>2
      <4>4. QED
        BY <1>3, <3>1, <3>2, <4>1, <4>2, <4>3
    <3>5. QED
      BY <3>3, <3>4
  <2>3. QED
    BY <2>1, <2>2
<1>6. QED
  BY <1>4, <1>5 DEF Next, vars, penalties, CanAcceptPeer, RegisterPeerDisconnect, Tick

\* No invalid message is forgotten (register_invalid_message): over bans, ended
\* bans and reconnections the counter is the number of messages received modulo
\* max_invalid_messages, and a peer was banned exactly if that many have arrived.
THEOREM NoOffenceIsForgotten == Spec => []OffencesAreCounted
<1>1. Init => OffencesAreCounted
  <2> DEFINE limit == IF MaxInvalid = 0 THEN 1 ELSE MaxInvalid
  <2>1. limit \in Nat \ {0} /\ 0 % limit = 0
    BY PenaltyAssumption
  <2>2. ASSUME Init, NEW p \in Peers
        PROVE  /\ invalid_messages[p] = received[p] % limit
               /\ offence[p] # Never <=> received[p] >= limit
    <3>1. invalid_messages[p] = 0 /\ received[p] = 0 /\ offence[p] = Never
      BY <2>2 DEF Init
    <3>2. ~(0 >= limit)
      BY <2>1
    <3> HIDE DEF limit
    <3>3. QED
      BY <2>1, <3>1, <3>2
  <2>3. QED
    BY <2>2 DEF OffencesAreCounted
<1>2. TypeOK /\ OffencesAreCounted /\ [Next]_vars => OffencesAreCounted'
  BY CountStep
<1>3. Spec => []TypeOK
  BY BansServedAndLifted, PTL
<1>4. QED
  BY <1>1, <1>2, <1>3, PTL DEF Spec

-----------------------------------------------------------------------------
(* Blocks and notes in the database *)

\* Every nonempty set of naturals has a least element, and every nonempty set of
\* integers up to a bound a greatest.
LEMMA LeastNatural ==
    ASSUME NEW T \in SUBSET Nat, T # {}
    PROVE  \E m \in T : \A k \in T : m <= k
<1> DEFINE R == OpToRel(<, Nat)
<1>1. IsWellFoundedOn(R, Nat)
  BY NatLessThanWellFounded
<1>2. \A x, y \in Nat : <<x, y>> \in R <=> x < y
  BY DEF OpToRel
<1> HIDE DEF R
<1>3. PICK m \in T : \A k \in T : ~(<<k, m>> \in R)
  BY <1>1, WFMin
<1>4. \A k \in T : m <= k
  <2> TAKE k \in T
  <2>1. m \in Nat /\ k \in Nat
    OBVIOUS
  <2>2. ~(k < m)
    BY <1>2, <1>3, <2>1
  <2>3. QED
    BY <2>1, <2>2
<1>5. QED
  BY <1>4

LEMMA MaxIsLargest ==
    ASSUME NEW S \in SUBSET Int, NEW bound \in Int, \A x \in S : x <= bound, NEW y \in S
    PROVE  Max(S) \in S /\ y <= Max(S)
<1> DEFINE T == {bound - x : x \in S}
<1>1. T \in SUBSET Nat /\ T # {}
  <2>1. \A x \in S : bound - x \in Nat
    <3> TAKE x \in S
    <3>1. x \in Int /\ x <= bound
      OBVIOUS
    <3>2. QED
      BY <3>1
  <2>2. QED
    BY <2>1
<1>2. PICK m \in T : \A k \in T : m <= k
  BY <1>1, LeastNatural
<1>3. PICK x \in S : m = bound - x
  OBVIOUS
<1>4. \A z \in S : x >= z
  <2> TAKE z \in S
  <2>1. bound - z \in T
    OBVIOUS
  <2>2. QED
    BY <1>2, <1>3, <2>1
<1>5. QED
  BY <1>3, <1>4 DEF Max

StorageTypeOK ==
    /\ byHeight \in [Heights -> Blocks \cup {Nothing}]
    /\ heightIdx \subseteq Blocks
    /\ notes \subseteq Notes
    /\ saving \in [Writers -> Blocks \cup Notes \cup {Nothing}]
    /\ saved \subseteq Blocks \cup Notes

\* Block b was put, and nothing but another block for its height replaced it.
IsPut(b) ==
    /\ byHeight[HeightOf[b]] \in Blocks
    /\ HeightOf[b] \notin contested => byHeight[HeightOf[b]] = b

EntryIsPut(w) ==
    /\ saving[w] \in Blocks => IsPut(saving[w])
    /\ saving[w] \in Notes => saving[w] \in notes

\* An entry is put before its index, and a save returns after both.
StorageInv ==
    /\ StorageTypeOK
    /\ \A h \in Heights : byHeight[h] \in Blocks => HeightOf[byHeight[h]] = h
    /\ \A b \in heightIdx : IsPut(b)
    /\ \A w \in Writers : EntryIsPut(w)
    /\ \A pair \in hintIdx : \E n \in notes : pair = <<HintOf[n], n>>
    /\ \A b \in saved : b \in Blocks => b \in heightIdx
    /\ \A n \in saved : n \in Notes => <<HintOf[n], n>> \in hintIdx

LEMMA PutBlockStep ==
    ASSUME StorageInv, NEW w \in Writers, NEW b \in Blocks, PutBlock(w, b)
    PROVE  StorageInv'
<1> USE NodeStorageAssumption
<1>1. HeightOf[b] \in Heights
  BY DEF Heights
<1>2. StorageTypeOK'
  BY <1>1 DEF StorageInv, StorageTypeOK, PutBlock
<1>3. /\ byHeight'[HeightOf[b]] = b
      /\ \A h \in Heights : h # HeightOf[b] => byHeight'[h] = byHeight[h]
  BY <1>1 DEF StorageInv, StorageTypeOK, PutBlock
<1>4. IsPut(b)'
  BY <1>3 DEF IsPut
<1>5. \A c \in Blocks : IsPut(c) => IsPut(c)'
  <2> SUFFICES ASSUME NEW c \in Blocks, IsPut(c) PROVE IsPut(c)'
    OBVIOUS
  <2>1. HeightOf[c] \in Heights
    BY DEF Heights
  <2>2. CASE HeightOf[c] # HeightOf[b]
    BY <1>3, <2>1, <2>2 DEF IsPut, PutBlock
  <2>3. CASE HeightOf[c] = HeightOf[b]
    BY <1>3, <2>3 DEF IsPut, PutBlock, GetBlock
  <2>4. QED
    BY <2>2, <2>3
<1>6. \A h \in Heights : byHeight'[h] \in Blocks => HeightOf[byHeight'[h]] = h
  BY <1>3 DEF StorageInv
<1>7. \A v \in Writers : EntryIsPut(v)'
  <2> SUFFICES ASSUME NEW v \in Writers PROVE EntryIsPut(v)'
    OBVIOUS
  <2>1. EntryIsPut(v)
    BY DEF StorageInv
  <2>2. CASE v = w
    <3>1. saving'[v] = b
      BY <2>2 DEF PutBlock, StorageInv, StorageTypeOK
    <3>2. QED
      BY <1>4, <3>1 DEF EntryIsPut, IsPut
  <2>3. CASE v # w
    <3>1. PICK c : saving'[v] = c /\ saving[v] = c /\ notes' = notes
      BY <2>3 DEF PutBlock, StorageInv, StorageTypeOK
    <3>2. c \in Blocks => IsPut(c)'
      BY <1>5, <2>1, <3>1 DEF EntryIsPut
    <3>3. QED
      BY <2>1, <3>1, <3>2 DEF EntryIsPut, IsPut
  <2>4. QED
    BY <2>2, <2>3
<1>8. \A c \in heightIdx' : IsPut(c)'
  BY <1>5 DEF StorageInv, StorageTypeOK, PutBlock
<1>9. QED
  BY <1>2, <1>6, <1>7, <1>8 DEF StorageInv, PutBlock

LEMMA PutIndexStep ==
    ASSUME StorageInv, NEW w \in Writers, PutHeightIndex(w) \/ PutHintIndex(w)
    PROVE  StorageInv'
<1> USE NodeStorageAssumption
<1>1. StorageTypeOK'
  BY DEF StorageInv, StorageTypeOK, PutHeightIndex, PutHintIndex
<1>2. UNCHANGED <<byHeight, notes, contested>>
  BY DEF PutHeightIndex, PutHintIndex
<1>3. \A c : IsPut(c) => IsPut(c)'
  BY <1>2 DEF IsPut
<1>4. \A v \in Writers : EntryIsPut(v)'
  <2> SUFFICES ASSUME NEW v \in Writers PROVE EntryIsPut(v)'
    OBVIOUS
  <2>1. EntryIsPut(v)
    BY DEF StorageInv
  <2>2. saving'[v] \in {saving[v], Nothing}
    BY DEF PutHeightIndex, PutHintIndex, StorageInv, StorageTypeOK
  <2>3. QED
    BY <1>2, <2>1, <2>2 DEF EntryIsPut, IsPut
<1>5. \A c \in heightIdx' : IsPut(c)'
  <2>1. \A c \in heightIdx' : c \in heightIdx \/ (c = saving[w] /\ saving[w] \in Blocks)
    BY DEF PutHeightIndex, PutHintIndex
  <2>2. QED
    BY <1>3, <2>1 DEF StorageInv, EntryIsPut
<1>6. \A pair \in hintIdx' : \E n \in notes' : pair = <<HintOf[n], n>>
  BY DEF StorageInv, EntryIsPut, PutHeightIndex, PutHintIndex
<1>7. /\ \A b \in saved' : b \in Blocks => b \in heightIdx'
      /\ \A n \in saved' : n \in Notes => <<HintOf[n], n>> \in hintIdx'
  BY DEF StorageInv, StorageTypeOK, PutHeightIndex, PutHintIndex
<1>8. QED
  BY <1>1, <1>2, <1>4, <1>5, <1>6, <1>7 DEF StorageInv

LEMMA StorageStep ==
    ASSUME StorageInv, [StorageNext]_storageVars
    PROVE  StorageInv'
<1> USE NodeStorageAssumption
<1>1. CASE UNCHANGED storageVars
  BY <1>1 DEF StorageInv, StorageTypeOK, IsPut, EntryIsPut, storageVars
<1>2. ASSUME NEW w \in Writers, NEW n \in Notes, PutNote(w, n)
      PROVE  StorageInv'
  <2>1. StorageTypeOK'
    BY <1>2 DEF StorageInv, StorageTypeOK, PutNote
  <2>2. \A c : IsPut(c) => IsPut(c)'
    BY <1>2 DEF IsPut, PutNote
  <2>3. \A v \in Writers : EntryIsPut(v)'
    BY <1>2 DEF StorageInv, StorageTypeOK, EntryIsPut, IsPut, PutNote
  <2>4. QED
    BY <1>2, <2>1, <2>2, <2>3 DEF StorageInv, PutNote
<1>3. CASE Crash
  <2>1. StorageTypeOK'
    BY <1>3 DEF StorageInv, StorageTypeOK, Crash
  <2>2. \A v \in Writers : EntryIsPut(v)'
    BY <1>3 DEF EntryIsPut, Crash
  <2>3. \A c : IsPut(c) => IsPut(c)'
    BY <1>3 DEF IsPut, Crash
  <2>4. QED
    BY <1>3, <2>1, <2>2, <2>3 DEF StorageInv, Crash
<1>4. QED
  BY <1>1, <1>2, <1>3, PutBlockStep, PutIndexStep DEF StorageNext

\* Blocks and notes whose save returned are found through their index, whatever
\* else is saved at the same time and wherever the process stopped (save_block,
\* save_viewable_note, get_block by hash, latest_block_height,
\* find_notes_for_viewing_key).
THEOREM SavedBlocksAndNotesAreFound == StorageSpec => []SavedIsFound
<1>1. StorageInit => StorageInv
  BY NodeStorageAssumption
     DEF StorageInit, StorageInv, StorageTypeOK, IsPut, EntryIsPut
<1>2. StorageInv /\ [StorageNext]_storageVars => StorageInv'
  BY StorageStep
<1>3. StorageInv => SavedIsFound
  <2> SUFFICES ASSUME StorageInv PROVE SavedIsFound
    OBVIOUS
  <2> USE NodeStorageAssumption
  <2>1. ASSUME NEW b \in heightIdx \cup (saved \cap Blocks)
        PROVE  /\ GetBlockByHash(b) \in {c \in Blocks : HeightOf[c] = HeightOf[b]}
               /\ HeightOf[b] \notin contested => GetBlockByHash(b) = b
               /\ HeightOf[b] <= LatestBlockHeight
    <3>1. b \in heightIdx /\ b \in Blocks /\ IsPut(b)
      BY DEF StorageInv, StorageTypeOK
    <3>2. HeightOf[b] \in Heights
      BY <3>1 DEF Heights
    <3>3. GetBlockByHash(b) = byHeight[HeightOf[b]]
      BY <3>1 DEF GetBlockByHash, GetBlock
    <3>4. HeightOf[byHeight[HeightOf[b]]] = HeightOf[b]
      BY <3>1, <3>2 DEF StorageInv, IsPut
    <3> DEFINE Taken == {-1} \cup {h \in Heights : GetBlock(h) # Nothing}
    <3>5. HeightOf[b] \in Taken
      BY <3>1, <3>2 DEF IsPut, GetBlock
    <3>6. Taken \in SUBSET Int /\ MaxHeight \in Int /\ \A h \in Taken : h <= MaxHeight
      BY DEF Heights
    <3>7. HeightOf[b] <= Max(Taken)
      <4> HIDE DEF Taken
      <4>1. QED
        BY <3>5, <3>6, MaxIsLargest
    <3>8. QED
      BY <3>1, <3>3, <3>4, <3>7 DEF IsPut, LatestBlockHeight
  <2>2. \A pair \in hintIdx : pair[2] \in notes
    BY DEF StorageInv
  <2>3. ASSUME NEW n \in Notes, NEW hint \in Hints
        PROVE  /\ n \in saved /\ hint = HintOf[n] => n \in FindNotes(hint)
               /\ n \in FindNotes(hint) => hint = HintOf[n]
    BY DEF StorageInv, FindNotes
  <2>4. QED
    BY <2>1, <2>2, <2>3 DEF SavedIsFound
<1>4. QED
  BY <1>1, <1>2, <1>3, PTL DEF StorageSpec

-----------------------------------------------------------------------------
(* Key files *)

KeysTypeOK ==
    /\ keyfile \in Plain \cup Ciphers \cup {Absent}
    /\ gen \in [Wallets -> Jobs \cup {Absent}]
    /\ \A w \in Wallets : gen[w] # Absent => gen[w].pw # Blank

Created(w) == gen[w] # Absent /\ gen[w].at = "created"

\* The file belongs to one generate-key: to the one that created it and has still to
\* write it, and to the finished one for ever after.
KeysInv ==
    /\ KeysTypeOK
    /\ \A made \in madeKey : /\ made.key \in Keys /\ made.pw \in Passphrases \ {Blank}
                             /\ keyfile = Cipher(made.key, made.pw)
    /\ \A w \in Wallets : Created(w) =>
           /\ keyfile # Absent /\ madeKey = {}
           /\ \A v \in Wallets : Created(v) => v = w

LEMMA PlainTexts ==
    ASSUME NEW t \in Texts
    PROVE  Text(t) \in Plain
  BY DEF Plain

LEMMA KeysStep ==
    ASSUME KeysInv, [KeysNext]_keyVars
    PROVE  KeysInv'
<1> USE KeyFilesAssumption
<1>1. CASE UNCHANGED keyVars
  BY <1>1 DEF KeysInv, KeysTypeOK, Created, keyVars
<1>2. ASSUME NEW w \in Wallets, NEW k \in Keys, NEW first \in Passphrases,
             NEW second \in Passphrases, Prompt(w, k, first, second)
      PROVE  KeysInv'
  <2>1. PICK job : job = [at |-> "encrypted", key |-> k, pw |-> first]
    OBVIOUS
  <2>2. job \in Jobs /\ job.at # "created" /\ job.pw # Blank /\ job # Absent
    BY <1>2, <2>1 DEF Jobs, Prompt
  <2>3. gen' = [gen EXCEPT ![w] = job] /\ keyfile' = keyfile /\ madeKey' = madeKey
    BY <1>2, <2>1 DEF Prompt
  <2>4. KeysTypeOK'
    BY <2>2, <2>3 DEF KeysInv, KeysTypeOK
  <2>5. \A v \in Wallets : Created(v)' => Created(v)
    BY <2>2, <2>3 DEF KeysInv, KeysTypeOK, Created
  <2>6. QED
    BY <2>3, <2>4, <2>5 DEF KeysInv
<1>3. ASSUME NEW w \in Wallets, NewSecretFile(w)
      PROVE  KeysInv'
  <2>1. gen[w] \in Jobs /\ gen[w] # Absent /\ madeKey' = madeKey
    BY <1>3 DEF NewSecretFile, Running, KeysInv, KeysTypeOK
  <2>2. CASE keyfile = Absent
    <3>1. PICK job : job = [gen[w] EXCEPT !.at = "created"]
      OBVIOUS
    <3>2. job = [at |-> "created", key |-> gen[w].key, pw |-> gen[w].pw]
      BY <2>1, <3>1 DEF Jobs
    <3>3. job \in Jobs /\ job.pw = gen[w].pw
      BY <2>1, <3>2 DEF Jobs
    <3>4. gen' = [gen EXCEPT ![w] = job] /\ keyfile' = Text(Blank)
      BY <1>3, <2>2, <3>1 DEF NewSecretFile
    <3>5. Text(Blank) \in Plain
      BY PlainTexts DEF Texts
    <3>6. KeysTypeOK'
      BY <2>1, <3>3, <3>4, <3>5 DEF KeysInv, KeysTypeOK
    <3>7. madeKey = {}
      BY <2>2 DEF KeysInv, Ciphers, Cipher
    <3>8. \A v \in Wallets : ~Created(v)
      BY <2>2 DEF KeysInv
    <3>9. \A v \in Wallets : Created(v)' => v = w
      BY <3>4, <3>8 DEF Created, KeysInv, KeysTypeOK
    <3>10. keyfile' # Absent
      BY <3>4, <3>5
    <3>11. QED
      BY <2>1, <3>6, <3>7, <3>9, <3>10 DEF KeysInv
  <2>3. CASE keyfile # Absent
    <3>1. gen' = [gen EXCEPT ![w] = Absent] /\ keyfile' = keyfile
      BY <1>3, <2>3 DEF NewSecretFile
    <3>2. KeysTypeOK'
      BY <3>1 DEF KeysInv, KeysTypeOK
    <3>3. \A v \in Wallets : Created(v)' => Created(v)
      BY <3>1 DEF Created, KeysInv, KeysTypeOK
    <3>4. QED
      BY <2>1, <3>1, <3>2, <3>3 DEF KeysInv
  <2>4. QED
    BY <2>2, <2>3
<1>4. ASSUME NEW w \in Wallets, WriteSecret(w)
      PROVE  KeysInv'
  <2>1. gen[w] \in Jobs /\ gen[w] # Absent /\ Created(w)
    BY <1>4 DEF WriteSecret, Running, KeysInv, KeysTypeOK, Created
  <2>2. PICK k \in Keys, pw \in Passphrases \ {Blank} : gen[w].key = k /\ gen[w].pw = pw
    BY <2>1 DEF Jobs, KeysInv, KeysTypeOK
  <2>3. /\ keyfile' = Cipher(k, pw)
        /\ madeKey' = madeKey \cup {[key |-> k, pw |-> pw]}
        /\ gen' = [gen EXCEPT ![w] = Absent]
    BY <1>4, <2>2 DEF WriteSecret
  <2>4. Cipher(k, pw) \in Ciphers
    BY DEF Ciphers, Cipher
  <2>5. KeysTypeOK'
    BY <2>3, <2>4 DEF KeysInv, KeysTypeOK
  <2>6. madeKey = {} /\ \A v \in Wallets : ~Created(v)'
    BY <2>1, <2>3 DEF KeysInv, KeysTypeOK, Created
  <2>7. QED
    BY <2>3, <2>5, <2>6 DEF KeysInv
<1>5. ASSUME NEW w \in Wallets, Kill(w)
      PROVE  KeysInv'
  <2>1. gen' = [gen EXCEPT ![w] = Absent] /\ madeKey' = madeKey
    BY <1>5 DEF Kill
  <2>2. \A v \in Wallets : Created(v)' => Created(v) /\ v # w
    BY <2>1 DEF Created, KeysInv, KeysTypeOK
  <2>3. CASE keyfile' = keyfile
    BY <2>1, <2>2, <2>3 DEF KeysInv, KeysTypeOK
  <2>4. CASE Created(w) /\ keyfile' = Text(BadDigits)
    <3>1. Text(BadDigits) \in Plain
      BY PlainTexts DEF Texts
    <3>2. madeKey = {} /\ \A v \in Wallets : ~Created(v)'
      BY <2>2, <2>4 DEF KeysInv
    <3>3. KeysTypeOK'
      BY <2>1, <2>4, <3>1 DEF KeysInv, KeysTypeOK
    <3>4. QED
      BY <2>1, <3>2, <3>3 DEF KeysInv
  <2>5. QED
    BY <1>5, <2>3, <2>4 DEF Kill, Running, Created
<1>6. QED
  BY <1>1, <1>2, <1>3, <1>4, <1>5 DEF KeysNext

\* The three parsers agree on what a user may have written into a file.
LEMMA ParsersAgree ==
    ASSUME NEW m \in Plain, NEW pw
    PROVE  /\ WalletFileKey(m, pw) = WalletParse(m)
           /\ FaucetParse(m) = WalletParse(m)
           /\ NodeParse(m) = WalletParse(m)
           /\ WalletParse(m) # Unset
<1> USE KeyFilesAssumption
<1>1. \A t : DecodeHex32(t) # Unset
  BY DEF DecodeHex32
<1>2. CASE \E t \in Texts : m = Text(t)
  <2>1. PICK t \in Texts : m = Text(t)
    BY <1>2
  <2>2. m.form = "text" /\ m.text = t
    BY <2>1 DEF Text
  <2>3. WalletParse(m) = DecodeHex32(t) /\ NodeParse(m) = DecodeHex32(t)
    BY <2>2 DEF WalletParse, NodeParse
  <2>4. FaucetParse(m) = DecodeHex32(t)
    <3>1. CASE t = Blank
      BY <2>2, <3>1 DEF FaucetParse, DecodeHex32
    <3>2. CASE t # Blank
      BY <2>2, <3>2 DEF FaucetParse
    <3>3. QED
      BY <3>1, <3>2
  <2>5. WalletFileKey(m, pw) = DecodeHex32(t)
    <3>1. CASE t \in {BadDigits, Blank}
      BY <2>2, <3>1 DEF WalletFileKey, LooksLikeHex, Decrypt, DecodeHex32
    <3>2. CASE t \notin {BadDigits, Blank}
      BY <2>2, <2>3, <3>2 DEF WalletFileKey, LooksLikeHex
    <3>3. QED
      BY <3>1, <3>2
  <2>6. QED
    BY <1>1, <2>3, <2>4, <2>5
<1>3. CASE m = BadJson
  <2>1. m.form = "badjson"
    BY <1>3 DEF BadJson
  <2>2. QED
    BY <2>1 DEF WalletFileKey, LooksLikeHex, WalletParse, NodeParse, FaucetParse
<1>4. CASE \E a, b \in Texts \cup {Absent} : m = Json(a, b)
  <2>1. m.form = "json"
    BY <1>4 DEF Json
  <2>2. /\ WalletFileKey(m, pw) = JsonKey(m) /\ WalletParse(m) = JsonKey(m)
        /\ NodeParse(m) = JsonKey(m) /\ FaucetParse(m) = JsonKey(m)
    BY <2>1 DEF WalletFileKey, WalletParse, NodeParse, FaucetParse
  <2>3. JsonKey(m) # Unset
    BY <1>1 DEF JsonKey
  <2>4. QED
    BY <2>2, <2>3
<1>5. QED
  BY <1>2, <1>3, <1>4 DEF Plain

\* An encrypted file opens with its passphrase only, and only in the wallet.
LEMMA CipherOpens ==
    ASSUME NEW k, NEW own, own # Blank, NEW pw
    PROVE  /\ WalletFileKey(Cipher(k, own), pw) = IF pw = own THEN k ELSE NoKey
           /\ FaucetParse(Cipher(k, own)) = NoKey
           /\ NodeParse(Cipher(k, own)) = NoKey
<1>1. PICK m : m = Cipher(k, own)
  OBVIOUS
<1>2. m.form = "cipher" /\ m.key = k /\ m.pw = own
  BY <1>1 DEF Cipher
<1>3. QED
  BY <1>1, <1>2 DEF WalletFileKey, LooksLikeHex, Decrypt, FaucetParse, NodeParse

\* A key that generate-key made is never lost to another run of it, and wallet,
\* faucet and node make the same key of every file they can all read; a file that
\* is named and missing is an error in all three (new_secret_file,
\* load_secret_key, load_faucet_config and load_network_identity_keypair with
\* their parsers).
THEOREM GeneratedKeysStayUsable == KeysSpec => []ConfiguredKeyLoads
<1> USE KeyFilesAssumption
<1>1. KeysInit => KeysInv
  BY DEF KeysInit, KeysInv, KeysTypeOK, Created
<1>2. KeysInv /\ [KeysNext]_keyVars => KeysInv'
  BY KeysStep
<1>3. KeysInv => ConfiguredKeyLoads
  <2> SUFFICES ASSUME KeysInv PROVE ConfiguredKeyLoads
    OBVIOUS
  <2>1. ASSUME NEW made \in madeKey, NEW pw \in Passphrases
        PROVE  WalletKey(TRUE, keyfile, Absent, pw) = IF pw = made.pw THEN made.key ELSE NoKey
    <3>1. /\ keyfile = Cipher(made.key, made.pw) /\ made.pw # Blank
          /\ made.key \in Keys /\ made.pw \in Passphrases
      BY DEF KeysInv
    <3>2. keyfile # Absent
      BY <3>1 DEF Cipher, Ciphers
    <3>3. QED
      BY <3>1, <3>2, CipherOpens DEF WalletKey
  <2>2. ASSUME NEW named \in BOOLEAN, NEW var \in Plain \cup {Absent},
               NEW pw \in Passphrases
        PROVE  LET wallet == WalletKey(named, keyfile, var, pw)
                   faucet == FaucetKey(named, keyfile, var)
                   node == NodeKey(named, keyfile, var)
               IN  /\ ~named => /\ wallet = IF faucet = Unset THEN NoKey ELSE faucet
                                /\ var \in {Text(t) : t \in Texts} => node = wallet
                   /\ named /\ keyfile \in Plain => faucet = wallet /\ node = wallet
                   /\ named /\ keyfile = Absent =>
                          wallet = NoKey /\ faucet = NoKey /\ node = NoKey
                   /\ named /\ keyfile # Absent /\ keyfile \notin Plain =>
                          faucet = NoKey /\ node = NoKey
    <3>1. CASE ~named
      <4>1. CASE var = Absent
        <5>1. ASSUME NEW t \in Texts PROVE var # Text(t)
          BY <4>1 DEF Plain
        <5>2. QED
          BY <3>1, <4>1, <5>1 DEF WalletKey, FaucetKey
      <4>2. CASE var # Absent
        <5>1. var \in Plain
          BY <4>2
        <5>2. ASSUME NEW t \in Texts, var = Text(t)
              PROVE  var.form = "text" /\ WalletParse(var) = DecodeHex32(var.text)
          BY <5>2 DEF Text, WalletParse
        <5>3. QED
          BY <3>1, <4>2, <5>1, <5>2, ParsersAgree DEF WalletKey, FaucetKey, NodeKey
      <4>3. QED
        BY <4>1, <4>2
    <3>2. CASE named /\ keyfile \in Plain
      <4>1. keyfile # Absent
        BY <3>2
      <4>2. QED
        BY <3>2, <4>1, ParsersAgree DEF WalletKey, FaucetKey, NodeKey
    <3>3. CASE named /\ keyfile = Absent
      <4>1. keyfile \notin Plain
        BY <3>3
      <4>2. QED
        BY <3>3, <4>1 DEF WalletKey, FaucetKey, NodeKey
    <3>4. CASE named /\ keyfile \in Ciphers
      <4>1. keyfile.form = "cipher" /\ keyfile # Absent
        BY <3>4 DEF Ciphers
      <4>2. FaucetParse(keyfile) = NoKey /\ NodeParse(keyfile) = NoKey
        BY <4>1 DEF FaucetParse, NodeParse
      <4>3. keyfile \notin Plain
        BY <4>1 DEF Plain, Text, Json, BadJson
      <4>4. QED
        BY <3>4, <4>1, <4>2, <4>3 DEF FaucetKey, NodeKey
    <3>5. QED
      BY <3>1, <3>2, <3>3, <3>4 DEF KeysInv, KeysTypeOK
  <2>3. QED
    BY <2>1, <2>2 DEF ConfiguredKeyLoads
<1>4. QED
  BY <1>1, <1>2, <1>3, PTL DEF KeysSpec

-----------------------------------------------------------------------------
(* The set-up ceremony *)

IsSequence(s) == Len(s) \in Nat /\ s = [i \in 1 .. Len(s) |-> s[i]]

\* A state one can go on with: a chain that ends in its last digest
GoodState(state) ==
    /\ state = [contributions |-> state.contributions, last |-> state.last]
    /\ IsSequence(state.contributions)
    /\ Len(state.contributions) > 0
    /\ Chained(state)
    /\ state.last = state.contributions[Len(state.contributions)].digest

\* The first k parts of a text
First(content, k) == [i \in 1 .. k |-> content]

\* The file a command writes next, what it writes there, and what the last of its
\* writes holds
Target(c) == Head(c.writes)[1]
New(c) == Head(c.writes)[2]
LastWrite(c) == c.writes[Len(c.writes)][2]
SeedOf(m) == FinalSeed(m.last, m.count)

WritesState(c) ==
    /\ c.op \in {"init", "contribute"}
    /\ c.writes = << <<"state", LastWrite(c)>> >>
    /\ GoodState(LastWrite(c))

WritesArtefacts(c) ==
    LET m == LastWrite(c)
    IN  /\ c.op = "finalize"
        /\ m.count \in Nat
        /\ c.writes \in {<< <<"pk", SeedOf(m)>>, <<"vk", SeedOf(m)>>, <<"metadata", m>> >>,
                         << <<"vk", SeedOf(m)>>, <<"metadata", m>> >>,
                         << <<"metadata", m>> >>}

CommandOk(c) ==
    /\ c = [op |-> c.op, writes |-> c.writes, open |-> c.open, done |-> c.done, id |-> c.id]
    /\ c.op \in {"none", "init", "contribute", "finalize"}
    /\ c.open \in BOOLEAN
    /\ ~c.open => c.done = 0
    /\ (c.writes = <<>> /\ ~c.open) \/ WritesState(c) \/ WritesArtefacts(c)

\* The file a command has open holds what the command has written, and no more.
Placed(c) ==
    c.open => /\ c.done \in Nat
              /\ c.done < Size(Target(c), New(c))
              /\ file[Target(c)] = First(New(c), c.done)

\* The state file is a good state or begins one.
StateFile(text) ==
    \/ text = NoFile
    \/ \E s : \E k \in Nat : GoodState(s) /\ text = First(s, k)

\* What holds of a command while commands have run one at a time: the state it writes,
\* or has written, has its own contribution and those that were reported.
Alone(c) ==
    c.op \in {"init", "contribute"} =>
        /\ c.writes # <<>> =>
               /\ c.id \in Ids(LastWrite(c))
               /\ c.op = "contribute" \/ c.open => reported \subseteq Ids(LastWrite(c))
        /\ c.writes = <<>> /\ IsWhole("state", file["state"]) =>
               c.id \in Ids(ReadState(file["state"]))

\* What holds of a finalize if, besides, none was forced: as long as it has files to
\* write there are no metadata, and the keys it has written are in place.
Unforced(c) ==
    c.op = "finalize" /\ c.writes # <<>> =>
        /\ ~IsWhole("metadata", file["metadata"])
        /\ Len(c.writes) < 3 => file["pk"] = WholeText("pk", SeedOf(LastWrite(c)))
        /\ Len(c.writes) < 2 => file["vk"] = WholeText("vk", SeedOf(LastWrite(c)))

ReportedIsThere ==
    IsWhole("state", file["state"]) => reported \subseteq Ids(ReadState(file["state"]))

KeysBelong ==
    IsWhole("metadata", file["metadata"]) =>
        /\ file["pk"] = WholeText("pk", SeedOf(file["metadata"][1]))
        /\ file["vk"] = WholeText("vk", SeedOf(file["metadata"][1]))

\* No two commands have had the same file open.
Sound ==
    /\ file = [name \in Files |-> file[name]]
    /\ cmd = [p \in Operators |-> cmd[p]]
    /\ \A p \in Operators : CommandOk(cmd[p]) /\ Placed(cmd[p])
    /\ \A p, q \in Operators :
           cmd[p].open /\ cmd[q].open /\ Target(cmd[p]) = Target(cmd[q]) => p = q
    /\ StateFile(file["state"])
    /\ ~overlapped =>
           /\ \A p, q \in Operators : cmd[p] # Idle /\ cmd[q] # Idle => p = q
           /\ \A p \in Operators : Alone(cmd[p])
           /\ ReportedIsThere
    /\ ~overlapped /\ ~forced =>
           /\ \A p \in Operators : Unforced(cmd[p])
           /\ KeysBelong

CeremonyInv ==
    /\ overlapped \in BOOLEAN /\ mixed \in BOOLEAN /\ forced \in BOOLEAN
    /\ mixed => overlapped
    /\ ~mixed => Sound

LEMMA SizeFacts ==
    ASSUME NEW c
    PROVE  /\ Size("state", c) = Len(c.contributions) + 1
           /\ Size("metadata", c) = c.count + 1
           /\ Size("pk", c) = 2 /\ Size("vk", c) = 2
           /\ WholeText("pk", c) = First(c, 2) /\ WholeText("vk", c) = First(c, 2)
<1>1. /\ Size("state", c) = Len(c.contributions) + 1
      /\ Size("metadata", c) = c.count + 1
      /\ Size("pk", c) = 2 /\ Size("vk", c) = 2
  BY DEF Size
<1>2. QED
  BY <1>1 DEF WholeText, First

LEMMA FirstFacts ==
    ASSUME NEW c, NEW k \in Nat
    PROVE  /\ DOMAIN First(c, k) = 1 .. k
           /\ Len(First(c, k)) = k
           /\ \A i \in 1 .. k : First(c, k)[i] = c
           /\ First(c, 0) = <<>>
           /\ Put(First(c, k), k + 1, c) = First(c, k + 1)
<1>1. PICK f : f = First(c, k)
  OBVIOUS
<1>2. f = [i \in 1 .. k |-> c]
  BY <1>1 DEF First
<1>3. DOMAIN f = 1 .. k /\ (\A i \in 1 .. k : f[i] = c) /\ Len(f) = k
  BY <1>2
<1>4. First(c, 0) = <<>>
  <2>1. First(c, 0) \in Seq({c}) /\ DOMAIN First(c, 0) = {}
    BY SeqDef DEF First
  <2>2. QED
    BY <2>1, EmptySeq, LenProperties
<1>5. Put(f, k + 1, c) = First(c, k + 1)
  <2>1. (DOMAIN f) \cup (1 .. (k + 1)) = 1 .. (k + 1)
    BY <1>3
  <2>2. \A j \in 1 .. (k + 1) :
            (IF j = k + 1 THEN c ELSE IF j \in DOMAIN f THEN f[j] ELSE Hole) = c
    BY <1>3
  <2>3. QED
    BY <2>1, <2>2 DEF Put, First
<1>6. QED
  BY <1>1, <1>3, <1>4, <1>5

\* What begins a text can be read only if it is all of it.
LEMMA WholeFacts ==
    ASSUME NEW name, NEW c, NEW k \in Nat, IsWhole(name, First(c, k))
    PROVE  k > 0 /\ Size(name, c) = k
<1>1. PICK f : f = First(c, k)
  OBVIOUS
<1>2. /\ DOMAIN f = 1 .. k /\ Len(f) = k /\ (\A i \in 1 .. k : f[i] = c)
      /\ First(c, 0) = <<>>
  BY <1>1, FirstFacts
<1>3. f # <<>> /\ \A i \in DOMAIN f : Size(name, f[i]) = i <=> i = Len(f)
  BY <1>1 DEF IsWhole
<1>4. k > 0
  BY <1>1, <1>2, <1>3
<1>5. k \in 1 .. k
  BY <1>4
<1>6. QED
  BY <1>2, <1>3, <1>4, <1>5

LEMMA ReadFacts ==
    ASSUME NEW s, GoodState(s), NEW k \in Nat, IsWhole("state", First(s, k))
    PROVE  ReadState(First(s, k)) = s
<1>1. PICK f : f = First(s, k)
  OBVIOUS
<1>2. DOMAIN f = 1 .. k /\ Len(f) = k /\ \A i \in 1 .. k : f[i] = s
  BY <1>1, FirstFacts
<1>3. PICK n : n = Len(s.contributions)
  OBVIOUS
<1>4. n \in Nat /\ s.contributions = [i \in 1 .. n |-> s.contributions[i]]
  BY <1>3 DEF GoodState, IsSequence
<1>5. k = n + 1
  BY <1>3, WholeFacts, SizeFacts
<1>6. /\ k - 1 = n /\ k \in 1 .. k
      /\ \A i \in 1 .. n : i \in 1 .. k
  BY <1>4, <1>5
<1>7. [i \in 1 .. (Len(f) - 1) |-> f[i].contributions[i]] = s.contributions
  <2>1. \A i \in 1 .. n : f[i] = s
    BY <1>2, <1>6
  <2>2. Len(f) - 1 = n
    BY <1>2, <1>6
  <2>3. [i \in 1 .. n |-> f[i].contributions[i]] = [i \in 1 .. n |-> s.contributions[i]]
    BY <2>1
  <2>4. QED
    BY <1>4, <2>2, <2>3
<1>8. f[Len(f)].last = s.last
  BY <1>2, <1>6
<1>9. QED
  BY <1>1, <1>7, <1>8 DEF ReadState, GoodState

LEMMA InitialStateFacts ==
    ASSUME NEW id
    PROVE  GoodState(InitialState(id)) /\ id \in Ids(InitialState(id))
<1> DEFINE digest == TranscriptDigest(EmptyTranscript, id, 0)
           entry == [index |-> 0, id |-> id, digest |-> digest]
<1>1. PICK state : state = InitialState(id)
  OBVIOUS
<1>2. /\ state.contributions = <<entry>> /\ state.last = digest
      /\ state = [contributions |-> state.contributions, last |-> state.last]
  BY <1>1 DEF InitialState
<1>3. /\ Len(state.contributions) = 1
      /\ DOMAIN state.contributions = {1}
      /\ state.contributions[1] = entry
  BY <1>2
<1>4. entry.id = id /\ entry.index = 0 /\ entry.digest = <<EmptyTranscript, id, 0>>
  BY DEF TranscriptDigest
<1>5. Chained(state)
  BY <1>3, <1>4 DEF Chained
<1>6. IsSequence(state.contributions)
  BY <1>2 DEF IsSequence
<1>7. id \in Ids(state)
  BY <1>3, <1>4 DEF Ids
<1>8. QED
  BY <1>1, <1>2, <1>3, <1>4, <1>5, <1>6, <1>7 DEF GoodState

LEMMA WithContributionFacts ==
    ASSUME NEW state, GoodState(state), NEW id
    PROVE  /\ GoodState(WithContribution(state, id))
           /\ Ids(WithContribution(state, id)) = Ids(state) \cup {id}
<1>1. PICK old : old = state.contributions
  OBVIOUS
<1>2. PICK n : n = Len(old)
  OBVIOUS
<1>3. n \in Nat \ {0} /\ old = [i \in 1 .. n |-> old[i]] /\ DOMAIN old = 1 .. n
  BY <1>1, <1>2 DEF GoodState, IsSequence
<1>4. PICK digest : digest = <<state.last, id, n>>
  OBVIOUS
<1>5. PICK entry : entry = [index |-> n, id |-> id, digest |-> digest]
  OBVIOUS
<1>6. PICK new : new = WithContribution(state, id)
  OBVIOUS
<1>7. /\ new.contributions = Append(old, entry) /\ new.last = digest
      /\ new = [contributions |-> new.contributions, last |-> new.last]
  BY <1>1, <1>2, <1>3, <1>4, <1>5, <1>6 DEF WithContribution, TranscriptDigest
<1>8. PICK cs : cs = new.contributions
  OBVIOUS
<1>9. /\ cs = [i \in 1 .. (n + 1) |-> IF i <= n THEN old[i] ELSE entry]
      /\ Len(cs) = n + 1
  BY <1>2, <1>3, <1>7, <1>8
<1>10. /\ DOMAIN cs = 1 .. (n + 1)
       /\ \A i \in 1 .. n : cs[i] = old[i]
       /\ cs[n + 1] = entry
  BY <1>3, <1>9
<1>11. IsSequence(cs)
  BY <1>3, <1>9, <1>10 DEF IsSequence
<1>12. ASSUME NEW i \in DOMAIN cs
       PROVE  /\ cs[i].index = i - 1
              /\ cs[i].digest = <<IF i = 1 THEN EmptyTranscript ELSE cs[i - 1].digest,
                                  cs[i].id, i - 1>>
  <2>1. CASE i \in 1 .. n
    <3>1. /\ old[i].index = i - 1
          /\ old[i].digest = <<IF i = 1 THEN EmptyTranscript ELSE old[i - 1].digest,
                               old[i].id, i - 1>>
      BY <1>1, <1>3, <2>1 DEF GoodState, Chained
    <3>2. i # 1 => cs[i - 1] = old[i - 1]
      BY <1>3, <1>10, <2>1
    <3>3. QED
      BY <1>10, <2>1, <3>1, <3>2
  <2>2. CASE i = n + 1
    <3>1. state.last = old[n].digest
      BY <1>1, <1>2 DEF GoodState
    <3>2. i - 1 = n /\ i # 1 /\ cs[n] = old[n] /\ n \in 1 .. n
      BY <1>3, <1>10, <2>2
    <3>3. cs[i] = entry
      BY <1>10, <2>2
    <3>4. QED
      BY <1>4, <1>5, <3>1, <3>2, <3>3
  <2>3. QED
    BY <1>3, <1>10, <2>1, <2>2
<1>13. Chained(new)
  BY <1>8, <1>12 DEF Chained
<1>14. new.last = cs[Len(cs)].digest
  <2>1. entry.digest = digest /\ cs[Len(cs)] = entry
    BY <1>5, <1>9, <1>10
  <2>2. QED
    BY <1>7, <2>1
<1>15. Ids(new) = Ids(state) \cup {id}
  <2>1. Ids(new) = {cs[i].id : i \in 1 .. (n + 1)}
    BY <1>8, <1>10 DEF Ids
  <2>2. Ids(state) = {old[i].id : i \in 1 .. n}
    BY <1>1, <1>3 DEF Ids
  <2>3. 1 .. (n + 1) = (1 .. n) \cup {n + 1}
    BY <1>3
  <2>4. cs[n + 1].id = id /\ \A i \in 1 .. n : cs[i].id = old[i].id
    BY <1>5, <1>10
  <2>5. QED
    BY <2>1, <2>2, <2>3, <2>4
<1>16. QED
  BY <1>3, <1>6, <1>7, <1>8, <1>9, <1>11, <1>13, <1>14, <1>15 DEF GoodState

\* Nothing runs: what holds of a command holds of none.
LEMMA IdleFacts ==
    /\ CommandOk(Idle) /\ Idle.writes = <<>> /\ Idle.op = "none" /\ ~Idle.open
    /\ Placed(Idle) /\ Placed(Idle)'
    /\ Alone(Idle) /\ Alone(Idle)'
    /\ Unforced(Idle) /\ Unforced(Idle)'
<1>1. Idle.writes = <<>> /\ Idle.op = "none" /\ Idle.open = FALSE /\ Idle.done = 0
  BY DEF Idle
<1>2. CommandOk(Idle)
  BY <1>1 DEF Idle, CommandOk
<1>3. QED
  BY <1>1, <1>2 DEF Placed, Alone, Unforced

LEMMA CommandFacts ==
    ASSUME NEW c, CommandOk(c), c.writes # <<>>
    PROVE  /\ WritesState(c) \/ WritesArtefacts(c)
           /\ WritesState(c) => /\ New(c) = LastWrite(c)
                                /\ Target(c) = "state"
                                /\ Tail(c.writes) = <<>>
                                /\ c.op # "finalize"
                                /\ ~WritesArtefacts(c)
           /\ WritesArtefacts(c) => /\ Target(c) \in Artefacts
                                    /\ c.op = "finalize"
                                    /\ Len(c.writes) \in 1 .. 3
                                    /\ Len(c.writes) < 3 => Target(c) # "pk"
                                    /\ Len(c.writes) < 2 => Target(c) = "metadata"
                                    /\ Target(c) = "metadata" => New(c) = LastWrite(c)
           /\ Target(c) \in Files
           /\ Size(Target(c), New(c)) \in Nat \ {0}
<1>1. WritesState(c) \/ WritesArtefacts(c)
  BY DEF CommandOk
<1>2. ~(WritesState(c) /\ WritesArtefacts(c))
  BY DEF WritesState, WritesArtefacts
<1>3. PICK m : m = LastWrite(c)
  OBVIOUS
<1>4. PICK seed : seed = SeedOf(m)
  OBVIOUS
<1>5. CASE WritesState(c)
  <2>1. c.writes = << <<"state", m>> >>
    BY <1>3, <1>5 DEF WritesState
  <2>2. /\ Head(c.writes) = <<"state", m>> /\ Tail(c.writes) = <<>>
        /\ Head(c.writes)[1] = "state" /\ Head(c.writes)[2] = m
    BY <2>1
  <2>3. Target(c) = "state" /\ New(c) = m
    BY <2>2 DEF Target, New
  <2>4. GoodState(m)
    BY <1>3, <1>5 DEF WritesState
  <2>5. Size("state", m) \in Nat \ {0}
    <3>1. Len(m.contributions) \in Nat
      BY <2>4 DEF GoodState, IsSequence
    <3>2. Size("state", m) = Len(m.contributions) + 1
      BY SizeFacts
    <3>3. QED
      BY <3>1, <3>2
  <2>6. c.op # "finalize"
    BY <1>5 DEF WritesState
  <2>7. QED
    BY <1>1, <1>2, <1>3, <1>5, <2>2, <2>3, <2>5, <2>6 DEF Files
<1>6. CASE WritesArtefacts(c)
  <2>1. \/ c.writes = << <<"pk", seed>>, <<"vk", seed>>, <<"metadata", m>> >>
        \/ c.writes = << <<"vk", seed>>, <<"metadata", m>> >>
        \/ c.writes = << <<"metadata", m>> >>
    BY <1>3, <1>4, <1>6 DEF WritesArtefacts
  <2>2. \/ Len(c.writes) = 3 /\ Head(c.writes)[1] = "pk"
        \/ Len(c.writes) = 2 /\ Head(c.writes)[1] = "vk"
        \/ Len(c.writes) = 1 /\ Head(c.writes)[1] = "metadata" /\ Head(c.writes)[2] = m
    <3>1. CASE c.writes = << <<"pk", seed>>, <<"vk", seed>>, <<"metadata", m>> >>
      BY <3>1
    <3>2. CASE c.writes = << <<"vk", seed>>, <<"metadata", m>> >>
      BY <3>2
    <3>3. CASE c.writes = << <<"metadata", m>> >>
      BY <3>3
    <3>4. QED
      BY <2>1, <3>1, <3>2, <3>3
  <2>3. \/ Len(c.writes) = 3 /\ Target(c) = "pk"
        \/ Len(c.writes) = 2 /\ Target(c) = "vk"
        \/ Len(c.writes) = 1 /\ Target(c) = "metadata" /\ New(c) = m
    BY <2>2 DEF Target, New
  <2>4. c.op = "finalize" /\ m.count \in Nat
    BY <1>3, <1>6 DEF WritesArtefacts
  <2>5. Size(Target(c), New(c)) \in Nat \ {0}
    <3>1. PICK x : x = New(c)
      OBVIOUS
    <3>2. Size("pk", x) = 2 /\ Size("vk", x) = 2 /\ Size("metadata", m) = m.count + 1
      BY SizeFacts
    <3>3. QED
      BY <2>3, <2>4, <3>1, <3>2
  <2>6. /\ Target(c) \in Artefacts /\ Target(c) \in Files
        /\ Len(c.writes) \in 1 .. 3
        /\ Len(c.writes) < 3 => Target(c) # "pk"
        /\ Len(c.writes) < 2 => Target(c) = "metadata"
        /\ Target(c) = "metadata" => New(c) = m
    BY <2>3 DEF Artefacts, Files
  <2>7. QED
    BY <1>1, <1>2, <1>3, <1>6, <2>4, <2>5, <2>6
<1>7. QED
  BY <1>1, <1>5, <1>6

\* The command of one operator becomes d, and at most one file changes, which no other
\* command has open.
Moves(p, d, name) ==
    /\ cmd' = [cmd EXCEPT ![p] = d]
    /\ CommandOk(d)
    /\ d.open => /\ d.done \in Nat
                 /\ d.done < Size(Target(d), New(d))
                 /\ file'[Target(d)] = First(New(d), d.done)
    /\ file' = [n \in Files |-> file'[n]]
    /\ \A n \in Files \ {name} : file'[n] = file[n]
    /\ \A q \in Operators \ {p} :
           cmd[q].open => Target(cmd[q]) # name /\ (d.open => Target(cmd[q]) # Target(d))
    /\ StateFile(file'["state"])
    /\ ~overlapped' => ~overlapped /\ \A q \in Operators \ {p} : cmd[q] = Idle

LEMMA OneMoves ==
    ASSUME Sound, NEW p \in Operators, NEW d, NEW name, Moves(p, d, name),
           ~overlapped' => Alone(d)' /\ ReportedIsThere',
           ~overlapped' /\ ~forced' => Unforced(d)' /\ KeysBelong'
    PROVE  Sound'
<1>1. /\ cmd' = [q \in Operators |-> cmd'[q]]
      /\ cmd'[p] = d
      /\ \A q \in Operators \ {p} : cmd'[q] = cmd[q]
  BY DEF Sound, Moves
<1>2. ASSUME NEW q \in Operators PROVE CommandOk(cmd'[q]) /\ Placed(cmd[q])'
  <2>1. CASE q = p
    BY <1>1, <2>1 DEF Placed, Moves
  <2>2. CASE q # p
    <3>1. PICK e : e = cmd[q]
      OBVIOUS
    <3>2. CommandOk(e) /\ Placed(e) /\ cmd'[q] = e
      BY <1>1, <2>2, <3>1 DEF Sound
    <3>3. e.open => Target(e) \in Files /\ Target(e) # name
      <4>1. e.open => e.writes # <<>>
        BY <3>2 DEF CommandOk, WritesState, WritesArtefacts
      <4>2. QED
        BY <2>2, <3>1, <3>2, <4>1, CommandFacts DEF Moves
    <3>4. e.open => file'[Target(e)] = file[Target(e)]
      BY <3>3 DEF Moves
    <3>5. Placed(e)'
      BY <3>2, <3>4 DEF Placed
    <3>6. QED
      BY <3>2, <3>5 DEF Placed
  <2>3. QED
    BY <2>1, <2>2
<1>3. ASSUME NEW q \in Operators, NEW r \in Operators,
             cmd'[q].open, cmd'[r].open, Target(cmd'[q]) = Target(cmd'[r])
      PROVE  q = r
  <2>1. CASE q # p /\ r # p
    BY <1>1, <1>3, <2>1 DEF Sound
  <2>2. CASE q = p \/ r = p
    BY <1>1, <1>3, <2>2 DEF Moves
  <2>3. QED
    BY <2>1, <2>2
<1>4. ~overlapped' => \A q \in Operators \ {p} : cmd'[q] = Idle
  BY <1>1 DEF Moves
<1>5. ~overlapped' => \A q \in Operators : Alone(cmd[q])'
  <2>1. SUFFICES ASSUME ~overlapped', NEW q \in Operators PROVE Alone(cmd[q])'
    OBVIOUS
  <2>2. CASE q = p
    BY <1>1, <2>1, <2>2 DEF Alone
  <2>3. CASE q # p
    BY <1>4, <2>1, <2>3, IdleFacts DEF Alone
  <2>4. QED
    BY <2>2, <2>3
<1>6. ~overlapped' /\ ~forced' => \A q \in Operators : Unforced(cmd[q])'
  <2>1. SUFFICES ASSUME ~overlapped', ~forced', NEW q \in Operators PROVE Unforced(cmd[q])'
    OBVIOUS
  <2>2. CASE q = p
    BY <1>1, <2>1, <2>2 DEF Unforced
  <2>3. CASE q # p
    BY <1>4, <2>1, <2>3, IdleFacts DEF Unforced
  <2>4. QED
    BY <2>2, <2>3
<1>7. ~overlapped' => \A q, r \in Operators : cmd'[q] # Idle /\ cmd'[r] # Idle => q = r
  BY <1>4
<1>8. file' = [n \in Files |-> file'[n]] /\ StateFile(file["state"])'
  BY DEF Moves, StateFile
<1>9. QED
  BY <1>1, <1>2, <1>3, <1>5, <1>6, <1>7, <1>8 DEF Sound

LEMMA FreeName == \E name : \A q \in Operators : Target(cmd[q]) # name
<1> DEFINE S == {Target(cmd[q]) : q \in Operators}
<1>1. {x \in S : x \notin x} \notin S
  OBVIOUS
<1>2. QED
  BY <1>1

\* A command begins: it has nothing open, and the files stay as they are.
LEMMA BeginStep ==
    ASSUME Sound, overlapped \in BOOLEAN,
           NEW p \in Operators, NEW op, NEW writes, NEW c,
           Begin(p, op, writes),
           c = [op |-> op, writes |-> writes, open |-> FALSE, done |-> 0, id |-> started + 1],
           CommandOk(c),
           forced => forced',
           ~overlapped => Alone(c),
           ~overlapped /\ ~forced' => Unforced(c)
    PROVE  Sound' /\ overlapped' \in BOOLEAN /\ mixed' = mixed
<1>1. /\ cmd' = [cmd EXCEPT ![p] = c] /\ cmd[p] = Idle
      /\ UNCHANGED <<file, reported, mixed>>
      /\ overlapped' = (overlapped \/ \E q \in Operators : cmd[q] # Idle)
  BY DEF Begin
<1>2. ~c.open
  OBVIOUS
<1>4. ~overlapped' => ~overlapped /\ \A q \in Operators \ {p} : cmd[q] = Idle
  BY <1>1
<1>5. ~overlapped' => Alone(c)' /\ ReportedIsThere'
  BY <1>1, <1>4 DEF Alone, Sound, ReportedIsThere
<1>6. ~overlapped' /\ ~forced' => Unforced(c)' /\ KeysBelong'
  BY <1>1, <1>4 DEF Unforced, Sound, KeysBelong
<1>7. /\ file' = [n \in Files |-> file'[n]]
      /\ \A n \in Files : file'[n] = file[n]
      /\ StateFile(file'["state"])
  BY <1>1 DEF Sound, StateFile
<1>8. PICK name : \A q \in Operators : Target(cmd[q]) # name
  BY FreeName
<1>9. Moves(p, c, name)
  BY <1>1, <1>2, <1>4, <1>7, <1>8 DEF Moves
<1>10. Sound'
  BY <1>5, <1>6, <1>9, OneMoves
<1>11. QED
  BY <1>1, <1>10

\* The three commands that begin
LEMMA CommandsBegin ==
    ASSUME Sound, overlapped \in BOOLEAN, forced \in BOOLEAN,
           NEW p \in Operators, NEW force \in BOOLEAN,
           CmdInit(p, force) \/ CmdFinalize(p, force) \/ CmdContribute(p)
    PROVE  Sound' /\ overlapped' \in BOOLEAN /\ forced' \in BOOLEAN /\ mixed' = mixed
<1> DEFINE Fresh(op, writes) ==
               [op |-> op, writes |-> writes, open |-> FALSE, done |-> 0, id |-> started + 1]
<1>1. CASE CmdInit(p, force)
  <2>1. PICK state : state = InitialState(started + 1)
    OBVIOUS
  <2>2. PICK c : c = Fresh("init", << <<"state", state>> >>)
    OBVIOUS
  <2>3. /\ c.op = "init" /\ c.open = FALSE /\ c.id = started + 1 /\ c.done = 0
        /\ c.writes = << <<"state", state>> >> /\ LastWrite(c) = state
    BY <2>2 DEF LastWrite
  <2>4. CommandOk(c)
    BY <2>1, <2>2, <2>3, InitialStateFacts DEF CommandOk, WritesState
  <2>5. Alone(c) /\ Unforced(c)
    BY <2>1, <2>3, InitialStateFacts DEF Alone, Unforced
  <2>6. Begin(p, "init", << <<"state", state>> >>) /\ forced' = forced
    BY <1>1, <2>1 DEF CmdInit
  <2>7. QED
    BY <2>2, <2>4, <2>5, <2>6, BeginStep
<1>2. ASSUME IsWhole("state", file["state"])
      PROVE  \E s : /\ s = ReadState(file["state"]) /\ GoodState(s)
                    /\ ~overlapped => reported \subseteq Ids(s)
  <2>0. PICK s : \E k \in Nat : GoodState(s) /\ file["state"] = First(s, k)
    BY <1>2 DEF Sound, StateFile, IsWhole
  <2>1. PICK k \in Nat : GoodState(s) /\ file["state"] = First(s, k)
    BY <2>0
  <2>2. ReadState(file["state"]) = s
    BY <1>2, <2>1, ReadFacts
  <2>3. QED
    BY <1>2, <2>1, <2>2 DEF Sound, ReportedIsThere
<1>3. CASE CmdContribute(p)
  <2>1. PICK s : /\ s = ReadState(file["state"]) /\ GoodState(s)
                 /\ ~overlapped => reported \subseteq Ids(s)
    BY <1>2, <1>3 DEF CmdContribute
  <2>2. PICK id : id = started + 1
    OBVIOUS
  <2>3. PICK state : state = WithContribution(s, id)
    OBVIOUS
  <2>4. PICK c : c = Fresh("contribute", << <<"state", state>> >>)
    OBVIOUS
  <2>5. /\ c.op = "contribute" /\ c.open = FALSE /\ c.id = id /\ c.done = 0
        /\ c.writes = << <<"state", state>> >> /\ LastWrite(c) = state
    BY <2>2, <2>4 DEF LastWrite
  <2>6. GoodState(state) /\ Ids(state) = Ids(s) \cup {id}
    BY <2>1, <2>3, WithContributionFacts
  <2>7. CommandOk(c)
    BY <2>4, <2>5, <2>6 DEF CommandOk, WritesState
  <2>8. ~overlapped => Alone(c)
    BY <2>1, <2>5, <2>6 DEF Alone
  <2>9. Unforced(c)
    BY <2>5 DEF Unforced
  <2>10. Begin(p, "contribute", << <<"state", state>> >>) /\ forced' = forced
    BY <1>3, <2>1, <2>2, <2>3 DEF CmdContribute
  <2>11. QED
    BY <2>4, <2>7, <2>8, <2>9, <2>10, BeginStep
<1>4. CASE CmdFinalize(p, force)
  <2>1. PICK s : s = ReadState(file["state"]) /\ GoodState(s)
    BY <1>2, <1>4 DEF CmdFinalize
  <2>2. PICK m : m = MetadataOf(s)
    OBVIOUS
  <2>3. PICK seed : seed = SeedOf(m)
    OBVIOUS
  <2>4. PICK writes : writes = << <<"pk", seed>>, <<"vk", seed>>, <<"metadata", m>> >>
    OBVIOUS
  <2>5. ArtefactWrites(s) = writes /\ m.count \in Nat
    BY <2>1, <2>2, <2>3, <2>4 DEF ArtefactWrites, SeedOf, MetadataOf, GoodState, IsSequence
  <2>6. PICK c : c = Fresh("finalize", writes)
    OBVIOUS
  <2>7. /\ c.op = "finalize" /\ c.open = FALSE /\ c.writes = writes /\ c.done = 0
        /\ LastWrite(c) = m /\ Len(c.writes) = 3
    BY <2>4, <2>6 DEF LastWrite
  <2>8. CommandOk(c)
    BY <2>3, <2>4, <2>5, <2>6, <2>7 DEF CommandOk, WritesArtefacts
  <2>9. Alone(c)
    BY <2>7 DEF Alone
  <2>10. Begin(p, "finalize", writes) /\ forced' = (forced \/ force)
    BY <1>4, <2>1, <2>5 DEF CmdFinalize
  <2>11. forced' \in BOOLEAN /\ (forced => forced')
    BY <2>10
  <2>12. ~forced' => Unforced(c)
    <3>1. ~forced' => file["metadata"] = NoFile
      BY <1>4 DEF CmdFinalize, Artefacts, Files
    <3>2. QED
      BY <2>7, <3>1 DEF Unforced, IsWhole
  <2>13. QED
    BY <2>6, <2>8, <2>9, <2>10, <2>11, <2>12, BeginStep
<1>5. QED
  BY <1>1, <1>3, <1>4

\* A command goes on in the file it has open, or opens one.
LEMMA CommandWrites ==
    ASSUME NEW c, CommandOk(c), c.writes # <<>>, NEW d, NEW b, NEW k,
           d = [op |-> c.op, writes |-> c.writes, open |-> b, done |-> k, id |-> c.id],
           b \in BOOLEAN, ~b => k = 0
    PROVE  /\ CommandOk(d) /\ Target(d) = Target(c) /\ New(d) = New(c)
           /\ LastWrite(d) = LastWrite(c)
<1>1. d.op = c.op /\ d.writes = c.writes /\ d.open = b /\ d.done = k /\ d.id = c.id
  OBVIOUS
<1>2. Target(d) = Target(c) /\ New(d) = New(c) /\ LastWrite(d) = LastWrite(c)
  BY <1>1 DEF Target, New, LastWrite
<1>3. WritesState(d) \/ WritesArtefacts(d)
  BY <1>1, <1>2, CommandFacts DEF WritesState, WritesArtefacts
<1>4. QED
  BY <1>1, <1>2, <1>3 DEF CommandOk

\* The fields of a command that change.
LEMMA CommandFields ==
    ASSUME NEW c, CommandOk(c), NEW x, NEW k
    PROVE  /\ [c EXCEPT !.open = x] =
                  [op |-> c.op, writes |-> c.writes, open |-> x, done |-> c.done, id |-> c.id]
           /\ [c EXCEPT !.done = k] =
                  [op |-> c.op, writes |-> c.writes, open |-> c.open, done |-> k, id |-> c.id]
<1>1. PICK o, v, b, j, i :
          c = [op |-> o, writes |-> v, open |-> b, done |-> j, id |-> i]
  BY DEF CommandOk
<1>2. c.op = o /\ c.writes = v /\ c.open = b /\ c.done = j /\ c.id = i
  BY <1>1
<1>3. [c EXCEPT !.open = x] = [op |-> o, writes |-> v, open |-> x, done |-> j, id |-> i]
  BY <1>1
<1>4. [c EXCEPT !.done = k] = [op |-> o, writes |-> v, open |-> b, done |-> k, id |-> i]
  BY <1>1
<1>5. QED
  BY <1>2, <1>3, <1>4

\* A file is opened: if no other command has it open, the invariant holds, and if one
\* has, two commands are in progress.
LEMMA OpenFileStep ==
    ASSUME Sound, ~mixed, NEW p \in Operators, OpenFile(p)
    PROVE  (mixed' => overlapped) /\ (~mixed' => Sound')
<1>1. PICK c : c = cmd[p]
  OBVIOUS
<1>2. CommandOk(c) /\ c.writes # <<>> /\ ~c.open /\ c.done = 0
  BY <1>1 DEF OpenFile, Sound, CommandOk
<1>3. PICK name : name = Target(c)
  OBVIOUS
<1>4. PICK x : x = TRUE
  OBVIOUS
<1>5. PICK d : d = [op |-> c.op, writes |-> c.writes, open |-> x, done |-> 0, id |-> c.id]
  OBVIOUS
<1>6. d.op = c.op /\ d.writes = c.writes /\ d.open /\ d.done = 0 /\ d.id = c.id
  BY <1>4, <1>5
<1>7. CommandOk(d) /\ Target(d) = name /\ New(d) = New(c) /\ LastWrite(d) = LastWrite(c)
  BY <1>2, <1>3, <1>4, <1>5, CommandWrites
<1>8. cmd' = [cmd EXCEPT ![p] = d]
  <2>1. [c EXCEPT !.open = x] = d
    BY <1>2, <1>5, CommandFields
  <2>2. cmd' = [cmd EXCEPT ![p].open = x]
    BY <1>4 DEF OpenFile
  <2>3. QED
    BY <1>1, <2>1, <2>2
<1>9. name \in Files /\ Size(name, New(c)) \in Nat \ {0}
  BY <1>2, <1>3, CommandFacts
<1>10. /\ file' = [n \in Files |-> file'[n]]
       /\ file'[name] = <<>>
       /\ \A n \in Files \ {name} : file'[n] = file[n]
       /\ overlapped' = overlapped /\ forced' = forced
       /\ reported' = IF c.op = "init" THEN {} ELSE reported
  <2>1. file' = [file EXCEPT ![name] = <<>>]
    BY <1>1, <1>3 DEF OpenFile, Target
  <2>2. QED
    BY <1>1, <1>9, <2>1 DEF OpenFile, Sound
<1>11. mixed' = \E q \in Operators : cmd[q].open /\ Target(cmd[q]) = name
  BY <1>1, <1>3 DEF OpenFile, Target
<1>12. c # Idle
  BY <1>2, IdleFacts
<1>13. mixed' => overlapped
  <2>1. SUFFICES ASSUME mixed', ~overlapped PROVE FALSE
    OBVIOUS
  <2>2. PICK q \in Operators : cmd[q].open
    BY <1>11, <2>1
  <2>3. cmd[q] # Idle
    BY <2>2, IdleFacts
  <2>4. q = p
    BY <1>1, <1>12, <2>1, <2>3 DEF Sound
  <2>5. QED
    BY <1>1, <1>2, <2>2, <2>4
<1>14. ASSUME ~mixed' PROVE Sound'
  <2>1. \A q \in Operators : cmd[q].open => Target(cmd[q]) # name
    BY <1>11, <1>14
  <2>2. First(New(c), 0) = <<>>
    BY FirstFacts
  <2>3. /\ d.done \in Nat /\ d.done < Size(Target(d), New(d))
        /\ file'[Target(d)] = First(New(d), d.done)
    BY <1>6, <1>7, <1>9, <1>10, <2>2
  <2>4. \A n \in Files : ~IsWhole(n, <<>>)
    BY DEF IsWhole
  <2>5. StateFile(file'["state"])
    <3>1. CASE name = "state"
      <4>1. WritesState(c) /\ GoodState(New(c))
        BY <1>2, <1>3, <3>1, CommandFacts DEF Artefacts, WritesState
      <4>2. file'["state"] = First(New(c), 0) /\ 0 \in Nat
        BY <1>10, <2>2, <3>1
      <4>3. QED
        BY <4>1, <4>2 DEF StateFile
    <3>2. CASE name # "state"
      BY <1>10, <3>2 DEF Sound, StateFile, Files
    <3>3. QED
      BY <3>1, <3>2
  <2>6. ~overlapped => \A q \in Operators \ {p} : cmd[q] = Idle
    BY <1>1, <1>12 DEF Sound
  <2>7. ASSUME ~overlapped PROVE Alone(d)' /\ ReportedIsThere'
    <3>1. Alone(c) /\ ReportedIsThere
      BY <1>1, <2>7 DEF Sound
    <3>2. reported' \subseteq reported
      BY <1>10
    <3>3. Alone(d)'
      <4>1. SUFFICES ASSUME d.op \in {"init", "contribute"}
                     PROVE  /\ d.id \in Ids(LastWrite(d))
                            /\ reported' \subseteq Ids(LastWrite(d))
        BY <1>2, <1>6 DEF Alone
      <4>2. c.id \in Ids(LastWrite(c)) /\ (c.op = "contribute" => reported \subseteq Ids(LastWrite(c)))
        BY <1>2, <1>6, <3>1, <4>1 DEF Alone
      <4>3. QED
        BY <1>6, <1>7, <1>10, <4>1, <4>2
    <3>4. IsWhole("state", file'["state"]) => file'["state"] = file["state"]
      BY <1>10, <2>4 DEF Files
    <3>5. ReportedIsThere'
      BY <3>1, <3>2, <3>4 DEF ReportedIsThere
    <3>6. QED
      BY <3>3, <3>5
  <2>8. ASSUME ~overlapped, ~forced PROVE Unforced(d)' /\ KeysBelong'
    <3>1. Unforced(c) /\ KeysBelong
      BY <1>1, <2>8 DEF Sound
    <3>2. IsWhole("metadata", file'["metadata"]) => file'["metadata"] = file["metadata"]
      BY <1>10, <2>4 DEF Files
    <3>3. CASE WritesState(c)
      <4>1. name = "state" /\ c.op # "finalize"
        BY <1>2, <1>3, <3>3, CommandFacts
      <4>2. /\ file'["metadata"] = file["metadata"]
            /\ file'["pk"] = file["pk"] /\ file'["vk"] = file["vk"]
        BY <1>10, <4>1 DEF Files
      <4>3. QED
        BY <1>6, <3>1, <4>1, <4>2 DEF Unforced, KeysBelong
    <3>4. CASE WritesArtefacts(c)
      <4>1. /\ c.op = "finalize"
            /\ Len(c.writes) < 3 => name # "pk"
            /\ Len(c.writes) < 2 => name = "metadata"
            /\ Len(c.writes) \in 1 .. 3
        BY <1>2, <1>3, <3>4, CommandFacts
      <4>2. ~IsWhole("metadata", file'["metadata"])
        BY <1>2, <3>1, <3>2, <4>1 DEF Unforced
      <4>3. Len(c.writes) < 3 => file'["pk"] = file["pk"]
        BY <1>10, <4>1 DEF Files
      <4>4. Len(c.writes) < 2 => file'["vk"] = file["vk"] /\ Len(c.writes) < 3
        BY <1>10, <4>1 DEF Files
      <4>5. Unforced(d)'
        BY <1>2, <1>6, <1>7, <3>1, <4>1, <4>2, <4>3, <4>4 DEF Unforced
      <4>6. QED
        BY <4>2, <4>5 DEF KeysBelong
    <3>5. QED
      BY <1>2, <3>3, <3>4, CommandFacts
  <2>9. /\ ~overlapped' => ~overlapped /\ \A q \in Operators \ {p} : cmd[q] = Idle
        /\ ~overlapped' => Alone(d)' /\ ReportedIsThere'
        /\ ~overlapped' /\ ~forced' => Unforced(d)' /\ KeysBelong'
    BY <1>10, <2>6, <2>7, <2>8
  <2>10. \A q \in Operators \ {p} :
             cmd[q].open => Target(cmd[q]) # name /\ (d.open => Target(cmd[q]) # Target(d))
    BY <1>7, <2>1
  <2>11. Moves(p, d, name)
    BY <1>7, <1>8, <1>10, <2>3, <2>5, <2>9, <2>10 DEF Moves
  <2>12. QED
    BY <2>9, <2>11, OneMoves
<1>15. QED
  BY <1>13, <1>14

LEMMA AdvanceFields ==
    ASSUME Sound, NEW p \in Operators, NEW c, c = cmd[p], CommandOk(c), Advance(p), NEW d,
           d = [op |-> c.op, writes |-> Tail(c.writes), open |-> FALSE, done |-> 0, id |-> c.id]
    PROVE  cmd' = [cmd EXCEPT ![p] = d]
<1>1. PICK x : x = FALSE
  OBVIOUS
<1>2. PICK w : w = Tail(c.writes)
  OBVIOUS
<1>3. PICK e : e = [c EXCEPT !.writes = w, !.open = x, !.done = 0]
  OBVIOUS
<1>4. PICK o, v, b, j, i :
          c = [op |-> o, writes |-> v, open |-> b, done |-> j, id |-> i]
  BY DEF CommandOk
<1>5. c.op = o /\ c.id = i /\ DOMAIN c = {"op", "writes", "open", "done", "id"}
  BY <1>4
<1>6. e = [f \in DOMAIN c |-> e[f]]
  BY <1>3
<1>7. e.op = o /\ e.id = i
  BY <1>3, <1>4
<1>8. e.writes = w
  BY <1>3, <1>4
<1>9. e.open = x
  BY <1>3, <1>4
<1>10. e.done = 0
  BY <1>3, <1>4
<1>11. e = d
  BY <1>1, <1>2, <1>5, <1>6, <1>7, <1>8, <1>9, <1>10
<1>12. cmd' = [cmd EXCEPT ![p] = e]
  BY <1>1, <1>2, <1>3 DEF Advance
<1>13. QED
  BY <1>11, <1>12

\* What Advance does: the command goes on with its next file or its report.
LEMMA AdvanceFacts ==
    ASSUME NEW c, CommandOk(c), c.writes # <<>>, NEW d,
           d = [op |-> c.op, writes |-> Tail(c.writes), open |-> FALSE, done |-> 0, id |-> c.id]
    PROVE  /\ CommandOk(d)
           /\ d.op = c.op /\ d.id = c.id /\ ~d.open
           /\ WritesState(c) => d.writes = <<>>
           /\ WritesArtefacts(c) =>
                  \/ /\ d.writes = <<>> /\ Len(c.writes) = 1
                     /\ Target(c) = "metadata" /\ New(c) = LastWrite(c)
                  \/ /\ d.writes # <<>> /\ LastWrite(d) = LastWrite(c)
                     /\ New(c) = SeedOf(LastWrite(c))
                     /\ \/ Len(d.writes) = 2 /\ Target(c) = "pk"
                        \/ Len(d.writes) = 1 /\ Len(c.writes) = 2 /\ Target(c) = "vk"
<1>1. /\ d.op = c.op /\ d.id = c.id /\ d.open = FALSE /\ d.done = 0
      /\ d.writes = Tail(c.writes)
  OBVIOUS
<1>2. CASE WritesState(c)
  <2>1. d.writes = <<>> /\ ~WritesArtefacts(c)
    BY <1>1, <1>2, CommandFacts
  <2>2. CommandOk(d)
    BY <1>1, <2>1 DEF CommandOk
  <2>3. QED
    BY <1>1, <2>1, <2>2
<1>3. CASE WritesArtefacts(c)
  <2>1. PICK m : m = LastWrite(c)
    OBVIOUS
  <2>2. PICK seed : seed = SeedOf(m)
    OBVIOUS
  <2>3. PICK w : w = c.writes
    OBVIOUS
  <2>4. \/ w = << <<"pk", seed>>, <<"vk", seed>>, <<"metadata", m>> >>
        \/ w = << <<"vk", seed>>, <<"metadata", m>> >>
        \/ w = << <<"metadata", m>> >>
    BY <1>3, <2>1, <2>2, <2>3 DEF WritesArtefacts
  <2>5. c.op = "finalize" /\ ~WritesState(c) /\ m.count \in Nat
    BY <1>3, <2>1, CommandFacts DEF WritesArtefacts
  <2>6. CASE w = << <<"metadata", m>> >>
    <3>1. /\ Tail(w) = <<>> /\ Len(w) = 1
          /\ Head(w)[1] = "metadata" /\ Head(w)[2] = m
      BY <2>6
    <3>2. d.writes = <<>> /\ Target(c) = "metadata" /\ New(c) = m
      BY <1>1, <2>3, <3>1 DEF Target, New
    <3>3. CommandOk(d)
      BY <1>1, <3>2 DEF CommandOk
    <3>4. QED
      BY <1>1, <2>1, <2>3, <2>5, <3>1, <3>2, <3>3
  <2>7. CASE w # << <<"metadata", m>> >>
    <3>1. PICK t : t = Tail(w)
      OBVIOUS
    <3>2. \/ /\ t = << <<"vk", seed>>, <<"metadata", m>> >>
             /\ Len(t) = 2 /\ t[2] = <<"metadata", m>>
             /\ Head(w)[1] = "pk" /\ Head(w)[2] = seed
          \/ /\ t = << <<"metadata", m>> >> /\ Len(w) = 2
             /\ Len(t) = 1 /\ t[1] = <<"metadata", m>>
             /\ Head(w)[1] = "vk" /\ Head(w)[2] = seed
      <4>1. CASE w = << <<"pk", seed>>, <<"vk", seed>>, <<"metadata", m>> >>
        BY <3>1, <4>1
      <4>2. CASE w = << <<"vk", seed>>, <<"metadata", m>> >>
        BY <3>1, <4>2
      <4>3. QED
        BY <2>4, <2>7, <4>1, <4>2
    <3>3. t # <<>> /\ t[Len(t)][2] = m
      BY <3>2
    <3>4. d.writes = t /\ LastWrite(d) = m
      BY <1>1, <2>3, <3>1, <3>3 DEF LastWrite
    <3>5. WritesArtefacts(d)
      BY <1>1, <2>2, <2>5, <3>2, <3>4 DEF WritesArtefacts
    <3>6. CommandOk(d)
      BY <1>1, <3>5 DEF CommandOk
    <3>7. /\ New(c) = seed
          /\ \/ Len(t) = 2 /\ Target(c) = "pk"
             \/ Len(t) = 1 /\ Len(w) = 2 /\ Target(c) = "vk"
      BY <2>3, <3>2 DEF New, Target
    <3>8. QED
      BY <1>1, <2>1, <2>2, <2>3, <2>5, <3>3, <3>4, <3>6, <3>7
  <2>8. QED
    BY <2>6, <2>7
<1>4. QED
  BY <1>2, <1>3, CommandFacts

\* A part is written.
LEMMA WritePartStep ==
    ASSUME Sound, NEW p \in Operators, WritePart(p)
    PROVE  Sound'
<1>1. PICK c : c = cmd[p]
  OBVIOUS
<1>2. CommandOk(c) /\ Placed(c) /\ c.open /\ c.writes # <<>> /\ c # Idle
  <2>1. CommandOk(c) /\ Placed(c) /\ c.open
    BY <1>1 DEF WritePart, Sound
  <2>2. c.writes # <<>>
    BY <2>1 DEF CommandOk, WritesState, WritesArtefacts
  <2>3. QED
    BY <2>1, <2>2, IdleFacts
<1>3. PICK name : name = Target(c)
  OBVIOUS
<1>4. PICK new : new = New(c)
  OBVIOUS
<1>5. PICK N : N = Size(name, new)
  OBVIOUS
<1>6. PICK k : k = c.done + 1
  OBVIOUS
<1>7. /\ name \in Files /\ N \in Nat /\ c.done \in Nat /\ k \in Nat /\ k > 0 /\ k <= N
      /\ file[name] = First(new, c.done)
  BY <1>2, <1>3, <1>4, <1>5, <1>6, CommandFacts DEF Placed
<1>8. /\ file' = [n \in Files |-> file'[n]]
      /\ file'[name] = First(new, k)
      /\ \A n \in Files \ {name} : file'[n] = file[n]
      /\ UNCHANGED <<reported, overlapped, forced>>
  <2>1. file' = [file EXCEPT ![name] = Put(file[name], k, new)]
    BY <1>1, <1>3, <1>4, <1>6 DEF WritePart, Target, New
  <2>2. Put(file[name], k, new) = First(new, k)
    BY <1>6, <1>7, FirstFacts
  <2>3. QED
    BY <1>7, <2>1, <2>2 DEF WritePart, Sound
<1>9. \A n : IsWhole(n, First(new, k)) => Size(n, new) = k
  BY <1>7, WholeFacts
<1>10. \A q \in Operators \ {p} : cmd[q].open => Target(cmd[q]) # name
  BY <1>1, <1>2, <1>3 DEF Sound
<1>11. StateFile(file'["state"])
  <2>1. CASE name = "state"
    <3>1. GoodState(new)
      BY <1>2, <1>3, <1>4, <2>1, CommandFacts DEF Artefacts, WritesState
    <3>2. QED
      BY <1>7, <1>8, <2>1, <3>1 DEF StateFile
  <2>2. CASE name # "state"
    BY <1>8, <2>2 DEF Sound, StateFile, Files
  <2>3. QED
    BY <2>1, <2>2
<1>12. ~overlapped' => ~overlapped /\ \A q \in Operators \ {p} : cmd[q] = Idle
  BY <1>1, <1>2, <1>8 DEF Sound
<1>13. ~overlapped => Alone(c) /\ ReportedIsThere
  BY <1>1 DEF Sound
<1>14. ~overlapped /\ ~forced => Unforced(c) /\ KeysBelong
  BY <1>1 DEF Sound
<1>15. WritesState(c) => /\ name = "state" /\ c.op \in {"init", "contribute"} /\ c.op # "finalize"
                         /\ new = LastWrite(c) /\ GoodState(new)
  BY <1>2, <1>3, <1>4, CommandFacts DEF WritesState
<1>16. WritesArtefacts(c) => /\ name \in Artefacts /\ c.op = "finalize"
                             /\ Len(c.writes) \in 1 .. 3
                             /\ Len(c.writes) < 3 => name # "pk"
                             /\ Len(c.writes) < 2 => name = "metadata"
  BY <1>2, <1>3, CommandFacts
<1>17. name = "state" => /\ file'["metadata"] = file["metadata"]
                         /\ file'["pk"] = file["pk"] /\ file'["vk"] = file["vk"]
  BY <1>8 DEF Files
<1>18. name \in Artefacts => file'["state"] = file["state"]
  BY <1>8 DEF Artefacts, Files
<1>19. CASE k < N /\ cmd' = [cmd EXCEPT ![p].done = k]
  <2>1. PICK b : b = c.open
    OBVIOUS
  <2>2. PICK d : d = [op |-> c.op, writes |-> c.writes, open |-> b, done |-> k, id |-> c.id]
    OBVIOUS
  <2>3. d.op = c.op /\ d.writes = c.writes /\ d.open = b /\ d.done = k /\ d.id = c.id
    BY <2>2
  <2>4. CommandOk(d) /\ Target(d) = name /\ New(d) = new /\ LastWrite(d) = LastWrite(c)
    BY <1>2, <1>3, <1>4, <2>1, <2>2, CommandWrites DEF CommandOk
  <2>5. cmd' = [cmd EXCEPT ![p] = d]
    <3>1. [c EXCEPT !.done = k] = d
      BY <1>2, <2>1, <2>2, CommandFields
    <3>2. QED
      BY <1>1, <1>19, <3>1
  <2>6. /\ d.done \in Nat /\ d.done < Size(Target(d), New(d))
        /\ file'[Target(d)] = First(New(d), d.done)
    BY <1>5, <1>7, <1>8, <1>19, <2>3, <2>4
  <2>7. ~IsWhole(name, file'[name])
    BY <1>5, <1>7, <1>8, <1>9, <1>19
  <2>8. ~overlapped' => Alone(d)' /\ ReportedIsThere'
    <3>1. SUFFICES ASSUME ~overlapped' PROVE Alone(d)' /\ ReportedIsThere'
      OBVIOUS
    <3>2. Alone(c) /\ ReportedIsThere
      BY <1>8, <1>13, <3>1
    <3>3. IsWhole("state", file'["state"]) => file'["state"] = file["state"]
      BY <1>8, <2>7 DEF Files
    <3>4. ReportedIsThere'
      BY <1>8, <3>2, <3>3 DEF ReportedIsThere
    <3>5. Alone(d)'
      BY <1>2, <1>8, <2>1, <2>3, <2>4, <3>2 DEF Alone
    <3>6. QED
      BY <3>4, <3>5
  <2>9. ~overlapped' /\ ~forced' => Unforced(d)' /\ KeysBelong'
    <3>1. SUFFICES ASSUME ~overlapped', ~forced' PROVE Unforced(d)' /\ KeysBelong'
      OBVIOUS
    <3>2. Unforced(c) /\ KeysBelong
      BY <1>8, <1>14, <3>1
    <3>3. CASE WritesState(c)
      BY <1>15, <1>17, <2>3, <3>2, <3>3 DEF Unforced, KeysBelong
    <3>4. CASE WritesArtefacts(c)
      <4>1. ~IsWhole("metadata", file["metadata"])
        BY <1>2, <1>16, <3>2, <3>4 DEF Unforced
      <4>2. ~IsWhole("metadata", file'["metadata"])
        BY <1>8, <2>7, <4>1 DEF Files
      <4>3. /\ Len(c.writes) < 3 => file'["pk"] = file["pk"]
            /\ Len(c.writes) < 2 => file'["vk"] = file["vk"] /\ Len(c.writes) < 3
        BY <1>8, <1>16, <3>4 DEF Files
      <4>4. Unforced(d)'
        BY <1>2, <1>16, <2>3, <2>4, <3>2, <3>4, <4>2, <4>3 DEF Unforced
      <4>5. QED
        BY <4>2, <4>4 DEF KeysBelong
    <3>5. QED
      BY <1>2, <3>3, <3>4, CommandFacts
  <2>10. \A q \in Operators \ {p} :
             cmd[q].open => Target(cmd[q]) # name /\ (d.open => Target(cmd[q]) # Target(d))
    BY <1>10, <2>4
  <2>11. Moves(p, d, name)
    BY <1>8, <1>11, <1>12, <2>4, <2>5, <2>6, <2>10 DEF Moves
  <2>12. QED
    BY <2>8, <2>9, <2>11, OneMoves
<1>20. CASE k = N /\ Advance(p)
  <2>1. PICK d : d = [op |-> c.op, writes |-> Tail(c.writes), open |-> FALSE, done |-> 0,
                      id |-> c.id]
    OBVIOUS
  <2>2. PICK m : m = LastWrite(c)
    OBVIOUS
  <2>3. /\ CommandOk(d) /\ d.op = c.op /\ d.id = c.id /\ ~d.open
        /\ WritesState(c) => d.writes = <<>>
        /\ WritesArtefacts(c) =>
               \/ /\ d.writes = <<>> /\ Len(c.writes) = 1 /\ name = "metadata" /\ new = m
               \/ /\ d.writes # <<>> /\ LastWrite(d) = m /\ new = SeedOf(m)
                  /\ \/ Len(d.writes) = 2 /\ name = "pk"
                     \/ Len(d.writes) = 1 /\ Len(c.writes) = 2 /\ name = "vk"
    BY <1>2, <1>3, <1>4, <2>1, <2>2, AdvanceFacts
  <2>4. cmd' = [cmd EXCEPT ![p] = d]
    BY <1>1, <1>2, <1>20, <2>1, AdvanceFields
  <2>6. ~overlapped' => Alone(d)' /\ ReportedIsThere'
    <3>1. SUFFICES ASSUME ~overlapped' PROVE Alone(d)' /\ ReportedIsThere'
      OBVIOUS
    <3>2. Alone(c) /\ ReportedIsThere
      BY <1>8, <1>13, <3>1
    <3>3. CASE WritesState(c)
      <4>1. IsWhole("state", file'["state"]) => ReadState(file'["state"]) = new
        BY <1>7, <1>8, <1>15, <3>3, ReadFacts
      <4>2. c.id \in Ids(new) /\ reported \subseteq Ids(new)
        BY <1>2, <1>15, <3>2, <3>3 DEF Alone
      <4>3. Alone(d)'
        BY <2>3, <3>3, <4>1, <4>2 DEF Alone
      <4>4. ReportedIsThere'
        BY <1>8, <4>1, <4>2 DEF ReportedIsThere
      <4>5. QED
        BY <4>3, <4>4
    <3>4. CASE WritesArtefacts(c)
      BY <1>8, <1>16, <1>18, <2>3, <3>2, <3>4 DEF Alone, ReportedIsThere
    <3>5. QED
      BY <1>2, <3>3, <3>4, CommandFacts
  <2>7. ~overlapped' /\ ~forced' => Unforced(d)' /\ KeysBelong'
    <3>1. SUFFICES ASSUME ~overlapped', ~forced' PROVE Unforced(d)' /\ KeysBelong'
      OBVIOUS
    <3>2. Unforced(c) /\ KeysBelong
      BY <1>8, <1>14, <3>1
    <3>3. CASE WritesState(c)
      BY <1>15, <1>17, <2>3, <3>2, <3>3 DEF Unforced, KeysBelong
    <3>4. CASE WritesArtefacts(c) /\ d.writes = <<>>
      <4>1. Len(c.writes) = 1 /\ name = "metadata" /\ new = m
        BY <2>3, <3>4
      <4>2. /\ file["pk"] = WholeText("pk", SeedOf(m))
            /\ file["vk"] = WholeText("vk", SeedOf(m))
        BY <1>2, <1>16, <2>2, <3>2, <3>4, <4>1 DEF Unforced
      <4>3. file'["pk"] = file["pk"] /\ file'["vk"] = file["vk"]
        BY <1>8, <4>1 DEF Files
      <4>4. file'["metadata"][1] = m
        BY <1>7, <1>8, <4>1, FirstFacts
      <4>5. Unforced(d)'
        BY <3>4 DEF Unforced
      <4>6. QED
        BY <4>2, <4>3, <4>4, <4>5 DEF KeysBelong
    <3>5. CASE WritesArtefacts(c) /\ d.writes # <<>>
      <4>1. /\ LastWrite(d) = m /\ new = SeedOf(m)
            /\ \/ Len(d.writes) = 2 /\ name = "pk"
               \/ Len(d.writes) = 1 /\ Len(c.writes) = 2 /\ name = "vk"
        BY <2>3, <3>5
      <4>2. ~IsWhole("metadata", file'["metadata"])
        BY <1>2, <1>8, <1>16, <3>2, <3>5, <4>1 DEF Unforced, Files
      <4>3. file'[name] = WholeText(name, new)
        BY <1>5, <1>8, <1>20, <4>1, SizeFacts
      <4>4. Len(d.writes) = 1 => /\ file'["pk"] = file["pk"]
                                 /\ file["pk"] = WholeText("pk", SeedOf(m))
        <5>1. SUFFICES ASSUME Len(d.writes) = 1
                       PROVE  /\ file'["pk"] = file["pk"]
                              /\ file["pk"] = WholeText("pk", SeedOf(m))
          OBVIOUS
        <5>2. Len(c.writes) = 2 /\ name = "vk" /\ c.op = "finalize"
          BY <1>16, <3>5, <4>1, <5>1
        <5>3. file'["pk"] = file["pk"]
          BY <1>8, <5>2 DEF Files
        <5>4. Len(c.writes) < 3
          BY <5>2
        <5>5. QED
          BY <1>2, <2>2, <3>2, <5>2, <5>3, <5>4 DEF Unforced
      <4>5. Unforced(d)'
        <5>1. CASE Len(d.writes) = 2 /\ name = "pk"
          BY <4>1, <4>2, <4>3, <5>1 DEF Unforced
        <5>2. CASE Len(d.writes) = 1 /\ name = "vk"
          BY <4>1, <4>2, <4>3, <4>4, <5>2 DEF Unforced
        <5>3. QED
          BY <4>1, <5>1, <5>2
      <4>6. QED
        BY <4>2, <4>5 DEF KeysBelong
    <3>6. QED
      BY <1>2, <3>3, <3>4, <3>5, CommandFacts
  <2>8. \A q \in Operators \ {p} :
            cmd[q].open => Target(cmd[q]) # name /\ (d.open => Target(cmd[q]) # Target(d))
    BY <1>10, <2>3
  <2>9. Moves(p, d, name)
    BY <1>8, <1>11, <1>12, <2>3, <2>4, <2>8 DEF Moves
  <2>10. QED
    BY <2>6, <2>7, <2>9, OneMoves
<1>21. QED
  BY <1>1, <1>3, <1>4, <1>5, <1>6, <1>19, <1>20 DEF WritePart, Target, New

\* The last flush fails and nobody sees it.
LEMMA LastFlushFailsStep ==
    ASSUME Sound, NEW p \in Operators, LastFlushFails(p)
    PROVE  Sound'
<1>1. PICK c : c = cmd[p]
  OBVIOUS
<1>2. CommandOk(c) /\ Placed(c) /\ c.open /\ c.writes # <<>> /\ c # Idle
  <2>1. CommandOk(c) /\ Placed(c) /\ c.open
    BY <1>1 DEF LastFlushFails, Sound
  <2>2. c.writes # <<>>
    BY <2>1 DEF CommandOk, WritesState, WritesArtefacts
  <2>3. QED
    BY <2>1, <2>2, IdleFacts
<1>3. PICK name : name = Target(c)
  OBVIOUS
<1>4. /\ name \in {"state", "metadata"} /\ Advance(p)
      /\ UNCHANGED <<file, reported, overlapped, forced>>
  BY <1>1, <1>3 DEF LastFlushFails, Target
<1>5. PICK d : d = [op |-> c.op, writes |-> Tail(c.writes), open |-> FALSE, done |-> 0,
                    id |-> c.id]
  OBVIOUS
<1>6. CommandOk(d) /\ d.op = c.op /\ ~d.open /\ d.writes = <<>>
  <2>1. WritesArtefacts(c) => Tail(c.writes) = <<>>
    <3>1. /\ CommandOk(d)
          /\ WritesArtefacts(c) => d.writes = <<>> \/ Target(c) \in {"pk", "vk"}
      BY <1>2, <1>5, AdvanceFacts
    <3>2. d.writes = Tail(c.writes)
      BY <1>5
    <3>3. QED
      BY <1>3, <1>4, <3>1, <3>2
  <2>2. QED
    BY <1>2, <1>5, <2>1, AdvanceFacts, CommandFacts
<1>7. cmd' = [cmd EXCEPT ![p] = d]
  BY <1>1, <1>2, <1>4, <1>5, AdvanceFields
<1>8. ~IsWhole(name, file[name])
  <2>1. /\ c.done \in Nat /\ c.done < Size(name, New(c)) /\ file[name] = First(New(c), c.done)
        /\ Size(name, New(c)) \in Nat
    BY <1>2, <1>3, CommandFacts DEF Placed
  <2>2. IsWhole(name, First(New(c), c.done)) => Size(name, New(c)) = c.done
    BY <2>1, WholeFacts
  <2>3. QED
    BY <2>1, <2>2
<1>10. Alone(d)'
  <2>1. c.op \in {"init", "contribute"} => name = "state"
    BY <1>2, <1>3, CommandFacts
  <2>2. QED
    BY <1>4, <1>6, <1>8, <2>1 DEF Alone
<1>11. Unforced(d)'
  BY <1>6 DEF Unforced
<1>12. /\ file' = [n \in Files |-> file'[n]]
       /\ \A n \in Files \ {name} : file'[n] = file[n]
       /\ StateFile(file'["state"])
  BY <1>4 DEF Sound, StateFile
<1>13. \A q \in Operators \ {p} :
           cmd[q].open => Target(cmd[q]) # name /\ (d.open => Target(cmd[q]) # Target(d))
  BY <1>1, <1>2, <1>3, <1>6 DEF Sound
<1>14. ~overlapped' => ~overlapped /\ \A q \in Operators \ {p} : cmd[q] = Idle
  BY <1>1, <1>2, <1>4 DEF Sound
<1>15. ~overlapped' => Alone(d)' /\ ReportedIsThere'
  BY <1>4, <1>10 DEF Sound, ReportedIsThere
<1>16. ~overlapped' /\ ~forced' => Unforced(d)' /\ KeysBelong'
  BY <1>4, <1>11 DEF Sound, KeysBelong
<1>17. Moves(p, d, name)
  BY <1>6, <1>7, <1>12, <1>13, <1>14 DEF Moves
<1>18. QED
  BY <1>15, <1>16, <1>17, OneMoves

\* A command reports success, or is killed or fails.
LEMMA CommandEnds ==
    ASSUME Sound, NEW p \in Operators, Report(p) \/ Abort(p)
    PROVE  Sound'
<1>1. PICK c : c = cmd[p]
  OBVIOUS
<1>2. c # Idle /\ CommandOk(c)
  BY <1>1, IdleFacts DEF Report, Abort, Sound
<1>3. PICK d : d = Idle
  OBVIOUS
<1>4. /\ cmd' = [cmd EXCEPT ![p] = d]
      /\ UNCHANGED <<file, overlapped, forced>>
  BY <1>3 DEF Report, Abort
<1>5. /\ CommandOk(d) /\ ~d.open
      /\ Alone(d)' /\ Unforced(d)'
  BY <1>3, IdleFacts DEF Alone, Unforced
<1>6. ~overlapped' => ~overlapped /\ \A q \in Operators \ {p} : cmd[q] = Idle
  BY <1>1, <1>2, <1>4 DEF Sound
<1>7. ~overlapped => ReportedIsThere'
  <2>1. SUFFICES ASSUME ~overlapped PROVE ReportedIsThere'
    OBVIOUS
  <2>2. ReportedIsThere /\ Alone(c)
    BY <1>1, <2>1 DEF Sound
  <2>3. CASE reported' = reported
    BY <1>4, <2>2, <2>3 DEF ReportedIsThere
  <2>4. CASE /\ c.op # "finalize" /\ c.op # "none" /\ c.writes = <<>>
             /\ reported' = reported \cup {c.id}
    <3>1. c.op \in {"init", "contribute"}
      BY <1>2, <2>4 DEF CommandOk
    <3>2. IsWhole("state", file["state"]) => c.id \in Ids(ReadState(file["state"]))
      BY <2>2, <2>4, <3>1 DEF Alone
    <3>3. QED
      BY <1>4, <2>2, <2>4, <3>2 DEF ReportedIsThere
  <2>5. QED
    BY <1>1, <2>3, <2>4 DEF Report, Abort
<1>8. PICK name : \A q \in Operators : Target(cmd[q]) # name
  BY FreeName
<1>9. /\ file' = [n \in Files |-> file'[n]]
      /\ \A n \in Files \ {name} : file'[n] = file[n]
      /\ StateFile(file'["state"])
  BY <1>4 DEF Sound, StateFile
<1>10. ~overlapped' => Alone(d)' /\ ReportedIsThere'
  BY <1>4, <1>5, <1>7
<1>11. ~overlapped' /\ ~forced' => Unforced(d)' /\ KeysBelong'
  BY <1>4, <1>5 DEF Sound, KeysBelong
<1>12. \A q \in Operators \ {p} :
           cmd[q].open => Target(cmd[q]) # name /\ (d.open => Target(cmd[q]) # Target(d))
  BY <1>5, <1>8
<1>13. Moves(p, d, name)
  BY <1>4, <1>5, <1>6, <1>9, <1>12 DEF Moves
<1>14. QED
  BY <1>10, <1>11, <1>13, OneMoves

LEMMA CeremonyInvInductive == CeremonyInv /\ [CeremonyNext]_ceremonyVars => CeremonyInv'
<1>1. SUFFICES ASSUME CeremonyInv, [CeremonyNext]_ceremonyVars PROVE CeremonyInv'
  OBVIOUS
<1>2. CASE UNCHANGED ceremonyVars
  <2>1. Sound => Sound'
    BY <1>2 DEF ceremonyVars, Sound, Placed, StateFile, Alone, Unforced, ReportedIsThere,
                KeysBelong
  <2>2. QED
    BY <1>1, <1>2, <2>1 DEF ceremonyVars, CeremonyInv
<1>3. ASSUME NEW p \in Operators,
             \/ \E force \in BOOLEAN : CmdInit(p, force) \/ CmdFinalize(p, force)
             \/ CmdContribute(p) \/ CmdInspect(p)
             \/ OpenFile(p) \/ WritePart(p) \/ LastFlushFails(p) \/ Report(p) \/ Abort(p)
      PROVE  CeremonyInv'
  <2>1. CASE mixed
    <3>1. mixed' /\ overlapped' /\ overlapped' \in BOOLEAN /\ mixed' \in BOOLEAN /\ forced' \in BOOLEAN
      BY <1>1, <1>3, <2>1
         DEF CeremonyInv, CmdInit, CmdFinalize, CmdContribute, Begin, CmdInspect, ceremonyVars,
             OpenFile, WritePart, LastFlushFails, Report, Abort
    <3>2. QED
      BY <3>1 DEF CeremonyInv
  <2>2. CASE ~mixed
    <3>1. Sound /\ overlapped \in BOOLEAN /\ forced \in BOOLEAN
      BY <1>1, <2>2 DEF CeremonyInv
    <3>2. CASE \/ \E force \in BOOLEAN : CmdInit(p, force) \/ CmdFinalize(p, force)
               \/ CmdContribute(p)
      <4>1. Sound' /\ overlapped' \in BOOLEAN /\ forced' \in BOOLEAN /\ mixed' = mixed
        BY <3>1, <3>2, CommandsBegin
      <4>2. QED
        BY <1>1, <2>2, <4>1 DEF CeremonyInv
    <3>3. CASE CmdInspect(p)
      BY <1>2, <3>3 DEF CmdInspect
    <3>4. CASE OpenFile(p)
      <4>1. (mixed' => overlapped) /\ (~mixed' => Sound')
        BY <2>2, <3>1, <3>4, OpenFileStep
      <4>2. mixed' \in BOOLEAN /\ overlapped' = overlapped /\ forced' = forced
        BY <1>1, <2>2, <3>4 DEF OpenFile, CeremonyInv
      <4>3. QED
        BY <3>1, <4>1, <4>2 DEF CeremonyInv
    <3>5. CASE WritePart(p) \/ LastFlushFails(p) \/ Report(p) \/ Abort(p)
      <4>1. Sound'
        BY <3>1, <3>5, WritePartStep, LastFlushFailsStep, CommandEnds
      <4>2. UNCHANGED <<overlapped, mixed, forced>>
        BY <3>5 DEF WritePart, LastFlushFails, Report, Abort
      <4>3. QED
        BY <1>1, <4>1, <4>2 DEF CeremonyInv
    <3>6. QED
      BY <1>3, <3>2, <3>3, <3>4, <3>5
  <2>3. QED
    BY <2>1, <2>2
<1>4. QED
  BY <1>1, <1>2, <1>3 DEF CeremonyNext

\* The ceremony can be audited, for any number of operators and commands and texts of
\* any length.  Whatever prims-setup commands were killed (between the last write and
\* the report too), failed or overlapped without having the same file open, a state
\* file that can be read is an unbroken chain of digests, with every contribution
\* reported since the last init unless commands overlapped, and unforced metadata
\* belong to the keys.
THEOREM CeremonyStaysAuditable == CeremonySpec => []CeremonyIsAuditable
<1>1. CeremonyInit => CeremonyInv
  <2>1. SUFFICES ASSUME CeremonyInit PROVE CeremonyInv
    OBVIOUS
  <2>2. \A name \in Files : file[name] = NoFile /\ ~IsWhole(name, file[name])
    BY <2>1 DEF CeremonyInit, IsWhole
  <2>3. \A p \in Operators : cmd[p] = Idle
    BY <2>1 DEF CeremonyInit
  <2>4. StateFile(file["state"]) /\ ReportedIsThere /\ KeysBelong
    BY <2>2 DEF StateFile, ReportedIsThere, KeysBelong, Files
  <2>5. Sound
    BY <2>1, <2>3, <2>4, IdleFacts DEF CeremonyInit, Sound
  <2>6. QED
    BY <2>1, <2>5 DEF CeremonyInit, CeremonyInv
<1>2. CeremonyInv => CeremonyIsAuditable
  <2>1. SUFFICES ASSUME CeremonyInv PROVE CeremonyIsAuditable
    OBVIOUS
  <2>2. ASSUME ~mixed, IsWhole("state", file["state"])
        PROVE  /\ GoodState(ReadState(file["state"]))
               /\ ~overlapped => reported \subseteq Ids(ReadState(file["state"]))
    <3>1. Sound
      BY <2>1, <2>2 DEF CeremonyInv
    <3>2. PICK s : \E k \in Nat : GoodState(s) /\ file["state"] = First(s, k)
      BY <2>2, <3>1 DEF Sound, StateFile, IsWhole
    <3>3. PICK k \in Nat : GoodState(s) /\ file["state"] = First(s, k)
      BY <3>2
    <3>4. ReadState(file["state"]) = s
      BY <2>2, <3>3, ReadFacts
    <3>5. QED
      BY <2>2, <3>1, <3>3, <3>4 DEF Sound, ReportedIsThere
  <2>3. ~overlapped /\ ~forced => KeysBelong
    BY <2>1 DEF CeremonyInv, Sound
  <2>4. QED
    BY <2>2, <2>3 DEF CeremonyIsAuditable, GoodState, KeysBelong, SeedOf
<1>3. QED
  BY <1>1, <1>2, CeremonyInvInductive, PTL DEF CeremonySpec

-----------------------------------------------------------------------------
(* Gossip *)

Labels == {"start", "connecting", "waiting", "publishing", "flushing", "done", "failed"}

\* The nonces flood has come to
Sent == {NonceOf(o) : o \in 0 .. (flood.offset - 1)}

\* A message is one that a peer or flood published, with that payload.
Genuine(msg) ==
    \/ msg.payload \in heard /\ msg = PeerMessage(msg.payload)
    \/ msg.payload \in Sent /\ msg = NewTransaction(msg.payload)

\* A payload the node may queue
Queueable(x) ==
    \/ x \in heard /\ MessageKind[x] = "NewTransaction" /\ Decodes[x]
    \/ x \in Sent

FloodInv ==
    /\ flood \in [at : Labels, count : 0 .. MaxCount, start : Starts,
                  offset : 0 .. MaxCount, attempts : Nat]
    /\ flood.at \in {"start", "connecting", "waiting"} => flood.offset = 0
    /\ flood.at \in {"connecting", "waiting"} => flood.count > 0
    /\ flood.at = "publishing" => flood.offset < flood.count
    /\ flood.at \in {"flushing", "done"} => flood.offset = flood.count
    /\ published = [i \in 1 .. flood.offset |-> NonceOf(i - 1)]

\* A payload is queued at most once, and one that is queued is no longer under way.
NodeInv ==
    /\ heard \subseteq PeerMessages
    /\ \A msg \in net : Genuine(msg)
    /\ IsSequence(mempool)
    /\ \A i \in 1 .. Len(mempool) :
           /\ Queueable(mempool[i])
           /\ \A j \in 1 .. Len(mempool) : mempool[i] = mempool[j] => i = j
           /\ \A msg \in net : msg.payload # mempool[i]
    /\ loop = <<>> \/ /\ loop = <<loop[1]>>
                      /\ Queueable(loop[1].payload)
                      /\ \A i \in 1 .. Len(mempool) : mempool[i] # loop[1].payload
                      /\ \A msg \in net : msg.payload # loop[1].payload
    /\ message_sent \in BOOLEAN
    /\ hellos = IF message_sent THEN 1 ELSE 0

GossipInv == FloodInv /\ NodeInv

LEMMA StartIsWord ==
    ASSUME FloodInv
    PROVE  flood.start \in Nat
<1>1. PICK s \in Starts : s = flood.start
  BY DEF FloodInv
<1>2. s \in 0 .. (WordSize - 1) /\ WordSize \in Nat
  BY GossipAssumption
<1>3. s \in Nat
  BY <1>2
<1>4. QED
  BY <1>1, <1>3

\* A u64 holds as many nonces as flood can count: it comes to none twice.
LEMMA NoncesDiffer ==
    ASSUME FloodInv, NEW a \in 0 .. MaxCount, NEW b \in 0 .. MaxCount,
           NonceOf(a) = NonceOf(b)
    PROVE  a = b
<1>1. PICK s \in Nat : s = flood.start
  BY StartIsWord
<1>2. WordSize \in Nat \ {0} /\ a \in Nat /\ b \in Nat /\ a < WordSize /\ b < WordSize
  BY GossipAssumption
<1>3. (s + a) % WordSize = (s + b) % WordSize
  BY <1>1 DEF NonceOf
<1>4. PICK k, l, r \in Nat : s + a = (WordSize * k) + r /\ s + b = (WordSize * l) + r
  <2>1. /\ s + a = (WordSize * ((s + a) \div WordSize)) + ((s + a) % WordSize)
        /\ (s + a) \div WordSize \in Nat /\ (s + a) % WordSize \in Nat
    BY <1>2
  <2>2. /\ s + b = (WordSize * ((s + b) \div WordSize)) + ((s + b) % WordSize)
        /\ (s + b) \div WordSize \in Nat
    BY <1>2
  <2>3. QED
    BY <1>3, <2>1, <2>2, Zenon
<1>5. CASE k = l
  BY <1>2, <1>4, <1>5
<1>6. CASE k < l
  <2>1. PICK d \in Nat : l = k + d + 1
    <3>1. l - k - 1 \in Nat /\ l = k + (l - k - 1) + 1
      BY <1>6
    <3>2. QED
      BY <3>1, Zenon
  <2>2. WordSize * l = (WordSize * k) + (WordSize * d) + WordSize
    BY <1>2, <2>1
  <2>3. WordSize * d >= 0
    BY <1>2
  <2>4. b >= a + WordSize
    BY <1>2, <1>4, <2>2, <2>3
  <2>5. QED
    BY <1>2, <2>4
<1>7. CASE l < k
  <2>1. PICK d \in Nat : k = l + d + 1
    <3>1. k - l - 1 \in Nat /\ k = l + (k - l - 1) + 1
      BY <1>7
    <3>2. QED
      BY <3>1, Zenon
  <2>2. WordSize * k = (WordSize * l) + (WordSize * d) + WordSize
    BY <1>2, <2>1
  <2>3. WordSize * d >= 0
    BY <1>2
  <2>4. a >= b + WordSize
    BY <1>2, <1>4, <2>2, <2>3
  <2>5. QED
    BY <1>2, <2>4
<1>8. QED
  BY <1>5, <1>6, <1>7

\* What was sent are words, which no peer's message is.
LEMMA SentFacts ==
    ASSUME FloodInv, heard \subseteq PeerMessages
    PROVE  /\ \A o \in Nat : NonceOf(o) \in 0 .. (WordSize - 1)
           /\ Sent \cap PeerMessages = {}
<1>1. \A o \in Nat : NonceOf(o) \in 0 .. (WordSize - 1)
  <2>1. flood.start \in Nat /\ WordSize \in Nat \ {0}
    BY StartIsWord, GossipAssumption
  <2>2. QED
    BY <2>1 DEF NonceOf
<1>2. Sent \subseteq 0 .. (WordSize - 1)
  BY <1>1 DEF Sent, FloodInv
<1>3. QED
  BY <1>1, <1>2, GossipAssumption

\* Under way, queued and in the loop is only what was published before.
LEMMA PayloadsWereSent ==
    ASSUME GossipInv
    PROVE  /\ \A msg \in net : msg.payload \in heard \cup Sent
           /\ \A i \in 1 .. Len(mempool) : mempool[i] \in heard \cup Sent
           /\ loop # <<>> => loop[1].payload \in heard \cup Sent
  BY DEF GossipInv, NodeInv, Genuine, Queueable

LEMMA SourcesGrow ==
    ASSUME heard \subseteq heard', Sent \subseteq Sent'
    PROVE  /\ \A msg : Genuine(msg) => Genuine(msg)'
           /\ \A x : Queueable(x) => Queueable(x)'
  BY DEF Genuine, Queueable, PeerMessage, NewTransaction

\* A message is put on the network.
LEMMA PublishStep ==
    ASSUME GossipInv, heard \subseteq heard', heard' \subseteq PeerMessages,
           Sent \subseteq Sent', NEW msg, net' = net \cup {msg}, Genuine(msg)',
           msg.payload \notin heard \cup Sent, UNCHANGED nodeVars
    PROVE  NodeInv'
<1>1. UNCHANGED <<loop, mempool, message_sent, hellos>>
  BY DEF nodeVars
<1>2. \A m \in net' : Genuine(m)'
  BY SourcesGrow DEF GossipInv, NodeInv
<1>3. \A i \in 1 .. Len(mempool') :
          /\ Queueable(mempool[i])'
          /\ \A j \in 1 .. Len(mempool') : mempool'[i] = mempool'[j] => i = j
          /\ \A m \in net' : m.payload # mempool'[i]
  <2>1. \A i \in 1 .. Len(mempool) : Queueable(mempool[i]) /\ msg.payload # mempool[i]
    BY PayloadsWereSent DEF GossipInv, NodeInv
  <2>2. \A i \in 1 .. Len(mempool) : Queueable(mempool[i])'
    BY <1>1, <2>1, SourcesGrow DEF Queueable
  <2>3. QED
    BY <1>1, <2>1, <2>2 DEF GossipInv, NodeInv
<1>4. loop' = <<>> \/ /\ loop' = <<loop'[1]>>
                      /\ Queueable(loop[1].payload)'
                      /\ \A i \in 1 .. Len(mempool') : mempool'[i] # loop'[1].payload
                      /\ \A m \in net' : m.payload # loop'[1].payload
  <2>1. SUFFICES ASSUME loop # <<>>
                 PROVE  /\ loop' = <<loop'[1]>>
                        /\ Queueable(loop[1].payload)'
                        /\ \A i \in 1 .. Len(mempool') : mempool'[i] # loop'[1].payload
                        /\ \A m \in net' : m.payload # loop'[1].payload
    BY <1>1
  <2>2. Queueable(loop[1].payload) /\ msg.payload # loop[1].payload
    BY <2>1, PayloadsWereSent DEF GossipInv, NodeInv
  <2>3. Queueable(loop[1].payload)'
    BY <1>1, <2>2, SourcesGrow DEF Queueable
  <2>4. QED
    BY <1>1, <2>1, <2>2, <2>3 DEF GossipInv, NodeInv
<1>5. QED
  BY <1>1, <1>2, <1>3, <1>4 DEF GossipInv, NodeInv

\* flood goes on without publishing anything.
LEMMA QuietFloodStep ==
    ASSUME GossipInv, FloodInv', flood'.start = flood.start, flood'.offset = flood.offset,
           UNCHANGED <<net, heard, nodeVars>>
    PROVE  GossipInv'
<1>1. UNCHANGED <<loop, mempool, message_sent, hellos>>
  BY DEF nodeVars
<1>2. Sent' = Sent
  BY DEF Sent, NonceOf
<1>3. \A msg : Genuine(msg)' <=> Genuine(msg)
  BY <1>2 DEF Genuine, PeerMessage, NewTransaction
<1>4. \A x : Queueable(x)' <=> Queueable(x)
  BY <1>2 DEF Queueable
<1>5. NodeInv'
  BY <1>1, <1>3, <1>4 DEF GossipInv, NodeInv, Queueable
<1>6. QED
  BY <1>5 DEF GossipInv

\* The steps of flood that publish nothing
LEMMA FloodWaits ==
    ASSUME GossipInv,
           \/ \E seeds \in BOOLEAN : FloodStart(seeds)
           \/ FloodDeadline \/ FloodConnects \/ SubscriptionChanges
           \/ FloodNoPeers \/ FloodQueuesFull \/ FloodFails
    PROVE  GossipInv'
<1>1. FloodInv
  BY DEF GossipInv
<1>2. flood' = flood \/ \E at \in Labels : flood' = [flood EXCEPT !.at = at]
                     \/ flood' = [flood EXCEPT !.attempts = @ + 1]
  BY <1>1 DEF FloodStart, FloodDeadline, FloodConnects, SubscriptionChanges, FloodNoPeers,
              FloodQueuesFull, FloodFails, FloodAt, Retry, Labels
<1>3. /\ flood' \in [at : Labels, count : 0 .. MaxCount, start : Starts,
                     offset : 0 .. MaxCount, attempts : Nat]
      /\ flood'.start = flood.start /\ flood'.offset = flood.offset
      /\ flood'.count = flood.count
  BY <1>1, <1>2 DEF FloodInv
<1>4. \/ flood'.at = flood.at \/ flood'.at = "failed"
      \/ flood.at = "start" /\ flood'.at = "connecting" /\ flood.count # 0
      \/ flood.at = "connecting" /\ flood'.at = "waiting"
      \/ flood.at = "waiting" /\ flood'.at = "publishing"
      \/ flood.at = "flushing" /\ flood'.at = "done"
  BY <1>1 DEF FloodInv, FloodStart, FloodDeadline, FloodConnects, SubscriptionChanges,
              FloodNoPeers, FloodQueuesFull, FloodFails, FloodAt, Retry
<1>5. UNCHANGED <<published, net, heard, nodeVars>>
  BY DEF FloodStart, FloodDeadline, FloodConnects, SubscriptionChanges, FloodNoPeers,
         FloodQueuesFull, FloodFails
<1>6. published' = [i \in 1 .. flood'.offset |-> NonceOf(i - 1)']
  BY <1>1, <1>3, <1>5 DEF FloodInv, NonceOf
<1>7. FloodInv'
  BY <1>1, <1>3, <1>4, <1>6 DEF FloodInv
<1>8. QED
  BY <1>3, <1>5, <1>7, QuietFloodStep

\* flood publishes its next transaction.
LEMMA FloodPublishesStep ==
    ASSUME GossipInv, FloodPublishes
    PROVE  GossipInv'
<1>1. FloodInv /\ heard \subseteq PeerMessages
  BY DEF GossipInv, NodeInv
<1>2. PICK o \in 0 .. MaxCount : o = flood.offset
  BY <1>1 DEF FloodInv
<1>3. PICK x : x = NonceOf(o)
  OBVIOUS
<1>4. PICK at : at = IF o + 1 = flood.count THEN "flushing" ELSE "publishing"
  OBVIOUS
<1>5. flood.at = "publishing" /\ o < flood.count /\ flood.count \in 0 .. MaxCount
  BY <1>1, <1>2 DEF FloodPublishes, FloodAt, FloodInv
<1>6. flood' = [flood EXCEPT !.offset = o + 1, !.attempts = 0, !.at = at]
  BY <1>2, <1>4 DEF FloodPublishes
<1>7. /\ net' = net \cup {NewTransaction(x)} /\ published' = Append(published, x)
      /\ UNCHANGED <<heard, nodeVars>>
  BY <1>2, <1>3 DEF FloodPublishes
<1>8. /\ flood' \in [at : Labels, count : 0 .. MaxCount, start : Starts,
                     offset : 0 .. MaxCount, attempts : Nat]
      /\ flood'.start = flood.start /\ flood'.offset = o + 1
      /\ flood'.count = flood.count /\ flood'.at = at
  <2>1. at \in Labels /\ o + 1 \in 0 .. MaxCount
    BY <1>2, <1>4, <1>5, GossipAssumption DEF Labels
  <2>2. QED
    BY <1>1, <1>6, <2>1 DEF FloodInv
<1>9. \A i : NonceOf(i)' = NonceOf(i)
  BY <1>8 DEF NonceOf
<1>10. published' = [i \in 1 .. (o + 1) |-> NonceOf(i - 1)]
  <2>1. PICK f : f = [i \in 1 .. o |-> NonceOf(i - 1)]
    OBVIOUS
  <2>2. f = [i \in 1 .. o |-> f[i]] /\ \A i \in 1 .. o : f[i] = NonceOf(i - 1)
    BY <2>1
  <2>3. Append(f, x) = [i \in 1 .. (o + 1) |-> IF i <= o THEN f[i] ELSE x]
    BY <1>2, <2>2
  <2>4. \A i \in 1 .. (o + 1) : (IF i <= o THEN f[i] ELSE x) = NonceOf(i - 1)
    <3>1. SUFFICES ASSUME NEW i \in 1 .. (o + 1)
                   PROVE  (IF i <= o THEN f[i] ELSE x) = NonceOf(i - 1)
      OBVIOUS
    <3>2. CASE i <= o
      <4>1. i \in 1 .. o
        BY <1>2, <3>2
      <4>2. QED
        BY <2>2, <3>2, <4>1
    <3>3. CASE ~(i <= o)
      <4>1. i - 1 = o
        BY <1>2, <3>3
      <4>2. QED
        BY <1>3, <3>3, <4>1
    <3>4. QED
      BY <3>2, <3>3
  <2>5. published = f
    BY <1>1, <1>2, <2>1 DEF FloodInv
  <2>6. QED
    BY <1>7, <2>3, <2>4, <2>5
<1>11. FloodInv'
  <2>1. published' = [i \in 1 .. flood'.offset |-> NonceOf(i - 1)']
    BY <1>8, <1>9, <1>10
  <2>2. QED
    BY <1>2, <1>4, <1>5, <1>8, <2>1 DEF FloodInv
<1>12. Sent' = Sent \cup {x}
  <2>1. Sent = {NonceOf(a) : a \in 0 .. (o - 1)}
    BY <1>2 DEF Sent
  <2>2. Sent' = {NonceOf(a) : a \in 0 .. o}
    <3>1. 0 .. ((o + 1) - 1) = 0 .. o
      BY <1>2
    <3>2. QED
      BY <1>8, <1>9, <3>1 DEF Sent
  <2>3. 0 .. o = (0 .. (o - 1)) \cup {o}
    BY <1>2
  <2>4. QED
    BY <1>3, <2>1, <2>2, <2>3
<1>13. x \notin heard \cup Sent
  <2>1. x \notin PeerMessages
    BY <1>1, <1>2, <1>3, SentFacts, GossipAssumption
  <2>2. ASSUME NEW a \in 0 .. (o - 1), x = NonceOf(a) PROVE FALSE
    <3>1. a \in 0 .. MaxCount /\ a # o
      BY <1>2, GossipAssumption
    <3>2. QED
      BY <1>1, <1>2, <1>3, <2>2, <3>1, NoncesDiffer
  <2>3. x \notin Sent
    BY <1>2, <2>2 DEF Sent
  <2>4. QED
    BY <1>1, <2>1, <2>3
<1>14. PICK msg : msg = NewTransaction(x)
  OBVIOUS
<1>15. msg.payload = x
  BY <1>14 DEF NewTransaction
<1>16. Genuine(msg)'
  BY <1>12, <1>14, <1>15 DEF Genuine, NewTransaction
<1>17. NodeInv'
  BY <1>1, <1>7, <1>12, <1>13, <1>14, <1>15, <1>16, PublishStep
<1>18. QED
  BY <1>11, <1>17 DEF GossipInv

\* A peer publishes a message.
LEMMA PeerPublishesStep ==
    ASSUME GossipInv, NEW m \in PeerMessages, PeerPublishes(m)
    PROVE  GossipInv'
<1>1. FloodInv /\ heard \subseteq PeerMessages
  BY DEF GossipInv, NodeInv
<1>2. /\ m \notin heard /\ heard' = heard \cup {m} /\ net' = net \cup {PeerMessage(m)}
      /\ UNCHANGED <<flood, published, nodeVars>>
  BY DEF PeerPublishes, floodVars
<1>3. Sent' = Sent /\ FloodInv'
  BY <1>1, <1>2 DEF Sent, NonceOf, FloodInv
<1>4. m \notin heard \cup Sent
  BY <1>1, <1>2, SentFacts
<1>5. PICK msg : msg = PeerMessage(m)
  OBVIOUS
<1>6. msg.payload = m
  BY <1>5 DEF PeerMessage
<1>7. Genuine(msg)'
  BY <1>2, <1>5, <1>6 DEF Genuine, PeerMessage
<1>8. NodeInv'
  BY <1>1, <1>2, <1>3, <1>4, <1>5, <1>6, <1>7, PublishStep
<1>9. QED
  BY <1>3, <1>8 DEF GossipInv

\* The steps of the node and of the network leave flood and what was heard alone.
LEMMA FloodUntouched ==
    ASSUME GossipInv, UNCHANGED <<floodVars, heard>>
    PROVE  /\ FloodInv'
           /\ heard' \subseteq PeerMessages
           /\ \A msg : Genuine(msg) => Genuine(msg)'
           /\ \A x : Queueable(x) => Queueable(x)'
<1>1. UNCHANGED <<flood, published>>
  BY DEF floodVars
<1>2. Sent' = Sent
  BY <1>1 DEF Sent, NonceOf
<1>3. FloodInv'
  BY <1>1 DEF GossipInv, FloodInv, NonceOf
<1>4. QED
  BY <1>2, <1>3, SourcesGrow DEF GossipInv, NodeInv

\* A message is lost, or one that is no transaction is printed.
LEMMA LoseStep ==
    ASSUME GossipInv, net' \subseteq net,
           UNCHANGED <<floodVars, heard, loop, mempool, message_sent, hellos>>
    PROVE  GossipInv'
<1>1. \A msg \in net' : Genuine(msg)'
  BY FloodUntouched DEF GossipInv, NodeInv
<1>2. \A i \in 1 .. Len(mempool) : Queueable(mempool[i])'
  BY FloodUntouched DEF GossipInv, NodeInv, Queueable
<1>3. loop # <<>> => Queueable(loop[1].payload)'
  BY FloodUntouched DEF GossipInv, NodeInv, Queueable
<1>4. NodeInv'
  BY <1>1, <1>2, <1>3, FloodUntouched DEF GossipInv, NodeInv
<1>5. QED
  BY <1>4, FloodUntouched DEF GossipInv

\* A message comes in.
LEMMA ReceiveStep ==
    ASSUME GossipInv, NEW msg \in net, ReceiveMessage(msg)
    PROVE  GossipInv'
<1>1. /\ loop = <<>> /\ net' = net \ {msg}
      /\ UNCHANGED <<floodVars, heard, mempool, message_sent, hellos>>
  BY DEF ReceiveMessage
<1>2. CASE msg.kind = "NewTransaction" /\ msg.decodes
  <2>1. loop' = <<msg>> /\ loop'[1] = msg
    BY <1>2 DEF ReceiveMessage
  <2>2. PICK x : x = msg.payload
    OBVIOUS
  <2>3. Genuine(msg)
    BY DEF GossipInv, NodeInv
  <2>4. Queueable(x)
    <3>1. CASE x \in heard /\ msg = PeerMessage(x)
      BY <1>2, <3>1 DEF PeerMessage, Queueable
    <3>2. QED
      BY <2>2, <2>3, <3>1 DEF Genuine, Queueable
  <2>5. \A m \in net : m.payload = x => m = msg
    <3>1. heard \cap Sent = {}
      BY SentFacts DEF GossipInv, NodeInv
    <3>2. QED
      BY <2>2, <2>3, <3>1 DEF GossipInv, NodeInv, Genuine
  <2>6. \A m \in net' : Genuine(m)' /\ m.payload # x
    BY <1>1, <2>5, FloodUntouched DEF GossipInv, NodeInv
  <2>7. \A i \in 1 .. Len(mempool) : Queueable(mempool[i])' /\ mempool[i] # x
    BY <1>1, <2>2, FloodUntouched DEF GossipInv, NodeInv, Queueable
  <2>8. Queueable(x)'
    BY <1>1, <2>4, FloodUntouched
  <2>9. NodeInv'
    <3>1. heard' \subseteq PeerMessages
      BY <1>1, FloodUntouched
    <3>2. Queueable(loop[1].payload)' /\ loop' = <<loop'[1]>> /\ loop'[1].payload = x
      BY <2>1, <2>2, <2>8 DEF Queueable
    <3>3. QED
      BY <1>1, <2>6, <2>7, <3>1, <3>2 DEF GossipInv, NodeInv
  <2>10. QED
    BY <1>1, <2>9, FloodUntouched DEF GossipInv
<1>3. CASE ~(msg.kind = "NewTransaction" /\ msg.decodes)
  <2>1. loop' = <<>>
    BY <1>3 DEF ReceiveMessage
  <2>2. QED
    BY <1>1, <2>1, LoseStep
<1>4. QED
  BY <1>2, <1>3

\* A transaction is in the mempool.
LEMMA AddReturnsStep ==
    ASSUME GossipInv, AddReturns
    PROVE  GossipInv'
<1>1. PICK x : x = loop[1].payload
  OBVIOUS
<1>2. PICK n \in Nat : n = Len(mempool)
  BY DEF GossipInv, NodeInv, IsSequence
<1>3. /\ loop # <<>> /\ loop' = <<>> /\ mempool' = Append(mempool, x)
      /\ UNCHANGED <<floodVars, net, heard, message_sent, hellos>>
  BY <1>1 DEF AddReturns
<1>4. mempool = [i \in 1 .. n |-> mempool[i]]
  BY <1>2 DEF GossipInv, NodeInv, IsSequence
<1>5. /\ mempool' = [i \in 1 .. (n + 1) |-> IF i <= n THEN mempool[i] ELSE x]
      /\ Len(mempool') = n + 1
  BY <1>2, <1>3, <1>4
<1>6. \A i \in 1 .. n : mempool'[i] = mempool[i]
  BY <1>2, <1>5
<1>7. mempool'[n + 1] = x
  BY <1>2, <1>5
<1>8. IsSequence(mempool)'
  <2>1. mempool' = [i \in 1 .. (n + 1) |-> mempool'[i]]
    BY <1>5
  <2>2. QED
    BY <1>2, <1>5, <2>1 DEF IsSequence
<1>9. 1 .. (n + 1) = (1 .. n) \cup {n + 1}
  BY <1>2
<1>10. \A i \in 1 .. n : Queueable(mempool[i]) /\ mempool[i] # x
  BY <1>1, <1>2, <1>3 DEF GossipInv, NodeInv
<1>11. Queueable(x) /\ \A msg \in net : msg.payload # x
  BY <1>1, <1>3 DEF GossipInv, NodeInv
<1>12. \A i \in 1 .. (n + 1) : Queueable(mempool[i])'
  <2>1. \A y : Queueable(y) => Queueable(y)'
    BY <1>3, FloodUntouched
  <2>2. \A i \in 1 .. (n + 1) : Queueable(mempool'[i])
    BY <1>6, <1>7, <1>9, <1>10, <1>11
  <2>3. QED
    BY <2>1, <2>2 DEF Queueable
<1>13. \A i, j \in 1 .. (n + 1) : mempool'[i] = mempool'[j] => i = j
  <2>1. \A i, j \in 1 .. n : mempool[i] = mempool[j] => i = j
    BY <1>2 DEF GossipInv, NodeInv
  <2>2. QED
    BY <1>6, <1>7, <1>9, <1>10, <2>1
<1>14. \A i \in 1 .. (n + 1) : \A msg \in net : msg.payload # mempool'[i]
  BY <1>2, <1>6, <1>7, <1>9, <1>11 DEF GossipInv, NodeInv
<1>15. \A msg \in net : Genuine(msg)'
  BY <1>3, FloodUntouched DEF GossipInv, NodeInv
<1>16. NodeInv'
  <2>1. heard' \subseteq PeerMessages
    BY <1>3, FloodUntouched
  <2>2. QED
    BY <1>3, <1>5, <1>8, <1>12, <1>13, <1>14, <1>15, <2>1 DEF GossipInv, NodeInv
<1>17. QED
  BY <1>3, <1>16, FloodUntouched DEF GossipInv

\* A peer subscribes and the node may send its message.
LEMMA PeerSubscribesStep ==
    ASSUME GossipInv, NEW ok \in BOOLEAN, PeerSubscribes(ok)
    PROVE  GossipInv'
<1>1. UNCHANGED <<floodVars, net, heard, loop, mempool>>
  BY DEF PeerSubscribes
<1>2. message_sent' \in BOOLEAN /\ hellos' = IF message_sent' THEN 1 ELSE 0
  <2>1. message_sent \in BOOLEAN /\ hellos = IF message_sent THEN 1 ELSE 0
    BY DEF GossipInv, NodeInv
  <2>2. CASE ~message_sent /\ HasHello /\ ok
    <3>1. message_sent' = TRUE
      BY <2>1, <2>2, Zenon DEF PeerSubscribes
    <3>2. hellos' = hellos + 1 /\ hellos = 0
      BY <2>1, <2>2 DEF PeerSubscribes
    <3>3. QED
      BY <3>1, <3>2
  <2>3. CASE ~(~message_sent /\ HasHello /\ ok)
    <3>1. message_sent' = message_sent
      BY <2>1, <2>3, Zenon DEF PeerSubscribes
    <3>2. hellos' = hellos
      BY <2>3 DEF PeerSubscribes
    <3>3. QED
      BY <2>1, <3>1, <3>2
  <2>4. QED
    BY <2>2, <2>3
<1>3. \A msg \in net : Genuine(msg)'
  BY <1>1, FloodUntouched DEF GossipInv, NodeInv
<1>4. \A i \in 1 .. Len(mempool) : Queueable(mempool[i])'
  BY <1>1, FloodUntouched DEF GossipInv, NodeInv, Queueable
<1>5. loop = <<>>
  BY DEF PeerSubscribes
<1>6. NodeInv'
  BY <1>1, <1>2, <1>3, <1>4, <1>5, FloodUntouched DEF GossipInv, NodeInv
<1>7. QED
  BY <1>1, <1>6, FloodUntouched DEF GossipInv

LEMMA GossipInvInductive == GossipInv /\ [GossipNext]_gossipVars => GossipInv'
<1>1. SUFFICES ASSUME GossipInv, [GossipNext]_gossipVars PROVE GossipInv'
  OBVIOUS
<1>2. CASE UNCHANGED gossipVars
  BY <1>1, <1>2, LoseStep DEF gossipVars, nodeVars
<1>3. CASE FloodStep \/ FloodConnects \/ SubscriptionChanges
  BY <1>1, <1>3, FloodWaits, FloodPublishesStep DEF FloodStep
<1>4. CASE \E m \in PeerMessages : PeerPublishes(m)
  BY <1>1, <1>4, PeerPublishesStep
<1>5. ASSUME NEW msg \in net, Lose(msg) \/ ReceiveMessage(msg)
      PROVE  GossipInv'
  <2>1. CASE Lose(msg)
    BY <1>1, <2>1, LoseStep DEF Lose, nodeVars
  <2>2. CASE ReceiveMessage(msg)
    BY <1>1, <2>2, ReceiveStep
  <2>3. QED
    BY <1>5, <2>1, <2>2
<1>6. CASE \E ok \in BOOLEAN : PeerSubscribes(ok)
  BY <1>1, <1>6, PeerSubscribesStep
<1>7. CASE AddReturns
  BY <1>1, <1>7, AddReturnsStep
<1>8. QED
  BY <1>1, <1>2, <1>3, <1>4, <1>5, <1>6, <1>7 DEF GossipNext

\* The gossip is exact, for any count, start nonce, limits on attempts, messages of
\* peers and size of a word: flood publishes its nonces once each and in order and
\* ends well only with all of them published, the event loop of main queues only
\* transactions that were published and decode, none twice, and the node's own message
\* is counted as sent if and only if it went out.
THEOREM GossipStaysExact == GossipSpec => []GossipIsExact
<1>1. GossipInit => GossipInv
  <2>1. SUFFICES ASSUME GossipInit PROVE GossipInv
    OBVIOUS
  <2>2. /\ flood \in [at : Labels, count : 0 .. MaxCount, start : Starts,
                      offset : 0 .. MaxCount, attempts : Nat]
        /\ flood.at = "start" /\ flood.offset = 0
    BY <2>1, GossipAssumption DEF GossipInit, Labels
  <2>3. published = [i \in 1 .. flood.offset |-> NonceOf(i - 1)]
    BY <2>1, <2>2 DEF GossipInit
  <2>4. FloodInv
    BY <2>2, <2>3 DEF FloodInv
  <2>5. Len(mempool) = 0 /\ IsSequence(mempool)
    BY <2>1 DEF GossipInit, IsSequence
  <2>6. NodeInv
    <3>1. /\ heard \subseteq PeerMessages /\ net = {} /\ loop = <<>>
          /\ message_sent = FALSE /\ hellos = 0
      BY <2>1 DEF GossipInit
    <3>2. \A i \in 1 .. Len(mempool) : FALSE
      BY <2>5
    <3>3. QED
      BY <2>5, <3>1, <3>2 DEF NodeInv
  <2>7. QED
    BY <2>4, <2>6 DEF GossipInv
<1>2. GossipInv => GossipIsExact
  <2>1. SUFFICES ASSUME GossipInv PROVE GossipIsExact
    OBVIOUS
  <2>2. PICK n \in Nat : n = flood.offset
    BY <2>1 DEF GossipInv, FloodInv
  <2>3. /\ published = [i \in 1 .. n |-> NonceOf(i - 1)] /\ Len(published) = n
        /\ flood.at \in {"flushing", "done"} => n = flood.count
    BY <2>1, <2>2 DEF GossipInv, FloodInv
  <2>4. \A x \in Sent : x \notin heard /\ Contains(published, x)
    <3>1. heard \cap Sent = {}
      BY <2>1, SentFacts DEF GossipInv, NodeInv
    <3>2. ASSUME NEW x \in Sent PROVE Contains(published, x)
      <4>1. PICK o \in 0 .. (n - 1) : x = NonceOf(o)
        BY <2>2, <3>2 DEF Sent
      <4>2. o + 1 \in 1 .. n /\ (o + 1) - 1 = o
        BY <2>2, <4>1
      <4>3. published[o + 1] = x
        BY <2>3, <4>1, <4>2
      <4>4. QED
        BY <2>3, <4>2, <4>3 DEF Contains
    <3>3. QED
      BY <3>1, <3>2
  <2>5. \A x : Queueable(x) => IF x \in heard
                               THEN MessageKind[x] = "NewTransaction" /\ Decodes[x]
                               ELSE Contains(published, x)
    BY <2>4 DEF Queueable
  <2>6. PICK added : added = IF loop = <<>> THEN mempool ELSE Append(mempool, loop[1].payload)
    OBVIOUS
  <2>7. PICK k \in Nat : k = Len(mempool) /\ mempool = [i \in 1 .. k |-> mempool[i]]
    BY <2>1 DEF GossipInv, NodeInv, IsSequence
  <2>8. \A i \in DOMAIN added : /\ Queueable(added[i])
                                /\ \A j \in DOMAIN added : added[i] = added[j] => i = j
    <3>1. CASE loop = <<>>
      <4>1. added = mempool /\ DOMAIN added = 1 .. k
        BY <2>6, <2>7, <3>1
      <4>2. \A i \in 1 .. k : /\ Queueable(mempool[i])
                              /\ \A j \in 1 .. k : mempool[i] = mempool[j] => i = j
        BY <2>1, <2>7 DEF GossipInv, NodeInv
      <4>3. QED
        BY <4>1, <4>2
    <3>2. CASE loop # <<>>
      <4>1. PICK x : x = loop[1].payload
        OBVIOUS
      <4>2. added = [i \in 1 .. (k + 1) |-> IF i <= k THEN mempool[i] ELSE x]
        BY <2>6, <2>7, <3>2, <4>1
      <4>3. DOMAIN added = (1 .. k) \cup {k + 1}
        BY <2>7, <4>2
      <4>4. \A i \in 1 .. k : added[i] = mempool[i]
        BY <2>7, <4>2
      <4>5. added[k + 1] = x
        BY <2>7, <4>2
      <4>6. Queueable(x) /\ \A i \in 1 .. k : mempool[i] # x
        BY <2>1, <2>7, <3>2, <4>1 DEF GossipInv, NodeInv
      <4>7. \A i \in 1 .. k : /\ Queueable(mempool[i])
                              /\ \A j \in 1 .. k : mempool[i] = mempool[j] => i = j
        BY <2>1, <2>7 DEF GossipInv, NodeInv
      <4>8. QED
        BY <4>3, <4>4, <4>5, <4>6, <4>7
    <3>3. QED
      BY <3>1, <3>2
  <2>9. hellos = IF message_sent THEN 1 ELSE 0
    BY <2>1 DEF GossipInv, NodeInv
  <2>10. QED
    BY <2>2, <2>3, <2>5, <2>6, <2>8, <2>9 DEF GossipIsExact
<1>3. QED
  BY <1>1, <1>2, GossipInvInductive, PTL DEF GossipSpec

-----------------------------------------------------------------------------
(* Fork choice *)

\* A list of whatever.
IsAnyList(s) == \E S : s \in Seq(S)

LEMMA AppendAny ==
    ASSUME NEW s, IsAnyList(s), NEW e
    PROVE  /\ IsAnyList(Append(s, e))
           /\ Len(s) \in Nat /\ DOMAIN s = 1 .. Len(s)
           /\ Len(Append(s, e)) = Len(s) + 1
           /\ Append(s, e)[Len(s) + 1] = e
           /\ \A i \in 1 .. Len(s) : Append(s, e)[i] = s[i]
<1>1. PICK S : s \in Seq(S)
  BY DEF IsAnyList
<1>2. PICK T : T = S \cup {e}
  OBVIOUS
<1>3. S \subseteq T /\ e \in T
  BY <1>2
<1>4. s \in Seq(T)
  <2>1. Len(s) \in Nat /\ s \in [1 .. Len(s) -> S]
    BY <1>1, LenProperties
  <2>2. s \in [1 .. Len(s) -> T]
    BY <1>3, <2>1
  <2>3. QED
    BY <2>1, <2>2, SeqDef
<1>5. QED
  BY <1>3, <1>4, AppendProperties, LenProperties DEF IsAnyList

\* Blocks are numbered in the order of their proposals and build on earlier ones; a
\* node has validated proposals.
HeadersLinked ==
    /\ Len(proposed) <= MaxProposals
    /\ \A i \in 1 .. Len(proposed) :
           LET header == proposed[i].header
               parent == header.previous_hash
           IN  /\ header.timestamp = i
               /\ parent \in 0 .. (i - 1)
               /\ header.height \in Nat
               /\ header.height = IF parent = Genesis THEN 1
                                  ELSE proposed[parent].header.height + 1

BlocksInv ==
    /\ IsAnyList(proposed)
    /\ tally \in Seq(Nat)
    /\ Len(tally) = Len(proposed)
    /\ HeadersLinked
    /\ validated = [n \in Nodes |-> validated[n]]
    /\ \A n \in Nodes :
           /\ IsAnyList(validated[n])
           /\ \A k \in 1 .. Len(validated[n]) :
                  Hash(validated[n][k].header) \in 1 .. Len(proposed)

LEMMA ProposeBlockStep ==
    ASSUME BlocksInv, NEW v \in Proposers, NEW parent \in {Genesis} \cup DOMAIN proposed,
           NEW max \in 1 .. MaxTxs, ProposeBlock(v, parent, max)
    PROVE  BlocksInv'
<1>0. PICK places \in TakeForBlock(pooled[v], max) :
          proposed' = Append(proposed,
              [header |-> NewHeader(v, parent, [k \in DOMAIN places |-> Pool[places[k]]]),
               transactions |-> [k \in DOMAIN places |-> Pool[places[k]]]])
  BY DEF ProposeBlock
<1>l. PICK list : list = [k \in DOMAIN places |-> Pool[places[k]]]
  OBVIOUS
<1>1. proposed' = Append(proposed, [header |-> NewHeader(v, parent, list),
                                    transactions |-> list])
  BY <1>0, <1>l
<1>2. PICK stake \in Stakes : tally' = Append(tally, stake)
  BY DEF ProposeBlock
<1>3. Len(proposed) < MaxProposals /\ validated' = validated
  BY DEF ProposeBlock
<1>4. PICK block : block = [header |-> NewHeader(v, parent, list), transactions |-> list]
  OBVIOUS
<1>5. PICK N : N = Len(proposed)
  OBVIOUS
<1>6. /\ IsAnyList(proposed') /\ N \in Nat /\ DOMAIN proposed = 1 .. N
      /\ Len(proposed') = N + 1
      /\ proposed'[N + 1] = block
      /\ \A i \in 1 .. N : proposed'[i] = proposed[i]
  BY <1>1, <1>4, <1>5, AppendAny DEF BlocksInv
<1>7. /\ block.header.timestamp = N + 1
      /\ block.header.previous_hash = parent
      /\ block.header.height = IF parent = Genesis THEN 1 ELSE proposed[parent].header.height + 1
  <2>1. block.header = NewHeader(v, parent, list)
    BY <1>4
  <2>2. QED
    BY <1>5, <2>1 DEF NewHeader
<1>8. MaxProposals \in Nat /\ Stakes \subseteq Nat
  BY BlocksAssumption
<1>9. tally' \in Seq(Nat) /\ Len(tally') = N + 1
  BY <1>2, <1>5, <1>8, AppendProperties DEF BlocksInv
<1>10. parent \in 0 .. N
  BY <1>6 DEF Genesis
<1>11. HeadersLinked'
  <2>1. Len(proposed') <= MaxProposals
    BY <1>3, <1>5, <1>6, <1>8
  <2>2. ASSUME NEW i \in 1 .. (N + 1)
        PROVE  /\ proposed'[i].header.timestamp = i
               /\ proposed'[i].header.previous_hash \in 0 .. (i - 1)
               /\ proposed'[i].header.height \in Nat
               /\ proposed'[i].header.height =
                      IF proposed'[i].header.previous_hash = Genesis THEN 1
                      ELSE proposed'[proposed'[i].header.previous_hash].header.height + 1
    <3>1. \A j \in 1 .. N :
              /\ proposed[j].header.timestamp = j
              /\ proposed[j].header.previous_hash \in 0 .. (j - 1)
              /\ proposed[j].header.height \in Nat
              /\ proposed[j].header.height =
                     IF proposed[j].header.previous_hash = Genesis THEN 1
                     ELSE proposed[proposed[j].header.previous_hash].header.height + 1
      BY <1>5 DEF BlocksInv, HeadersLinked
    <3>2. CASE i \in 1 .. N
      <4>1. PICK p : p = proposed[i].header.previous_hash
        OBVIOUS
      <4>2. p \in 0 .. (i - 1)
        BY <3>1, <3>2, <4>1
      <4>3. p # Genesis => p \in 1 .. N
        BY <1>6, <3>2, <4>2 DEF Genesis
      <4>4. QED
        BY <1>6, <3>1, <3>2, <4>1, <4>3
    <3>3. CASE i = N + 1
      <4>1. parent # Genesis => parent \in 1 .. N
        BY <1>6, <1>10 DEF Genesis
      <4>2. parent # Genesis => /\ proposed'[parent] = proposed[parent]
                                /\ proposed[parent].header.height \in Nat
        BY <1>6, <3>1, <4>1
      <4>3. parent \in 0 .. (i - 1)
        BY <1>6, <1>10, <3>3
      <4>4. block.header.height \in Nat
        BY <1>7, <4>2
      <4>5. proposed'[i] = block
        BY <1>6, <3>3
      <4>6. QED
        BY <1>7, <3>3, <4>2, <4>3, <4>4, <4>5
    <3>4. QED
      BY <1>6, <3>2, <3>3
  <2>3. QED
    BY <1>6, <2>1, <2>2 DEF HeadersLinked
<1>12. \A k \in 1 .. N : k \in 1 .. (N + 1)
  BY <1>6
<1>13. QED
  BY <1>3, <1>5, <1>6, <1>9, <1>11, <1>12 DEF BlocksInv

LEMMA ReceiveBlockStep ==
    ASSUME BlocksInv, NEW n \in Nodes, NEW i \in DOMAIN proposed, NEW parent,
           Receive(n, i, parent)
    PROVE  BlocksInv'
<1>1. PICK list : validated' = [validated EXCEPT ![n] =
                      Append(validated[n], [proposed[i] EXCEPT !.transactions = list])]
  BY DEF Receive
<1>2. UNCHANGED <<proposed, tally>>
  BY DEF Receive
<1>3. PICK block : block = [proposed[i] EXCEPT !.transactions = list]
  OBVIOUS
<1>4. Hash(block.header) \in 1 .. Len(proposed)
  <2>1. DOMAIN proposed = 1 .. Len(proposed)
    BY AppendAny DEF BlocksInv
  <2>2. block.header = proposed[i].header
    BY <1>3
  <2>3. proposed[i].header.timestamp = i
    BY <2>1 DEF BlocksInv, HeadersLinked
  <2>4. QED
    BY <2>1, <2>2, <2>3 DEF Hash
<1>5. PICK old : old = validated[n]
  OBVIOUS
<1>6. /\ IsAnyList(Append(old, block)) /\ Len(old) \in Nat
      /\ Len(Append(old, block)) = Len(old) + 1
      /\ Append(old, block)[Len(old) + 1] = block
      /\ \A k \in 1 .. Len(old) : Append(old, block)[k] = old[k]
  BY <1>5, AppendAny DEF BlocksInv
<1>7. \A k \in 1 .. (Len(old) + 1) :
          Hash(Append(old, block)[k].header) \in 1 .. Len(proposed)
  <2> TAKE k \in 1 .. (Len(old) + 1)
  <2>1. k \in 1 .. Len(old) \/ k = Len(old) + 1
    BY <1>6
  <2>2. \A j \in 1 .. Len(old) : Hash(old[j].header) \in 1 .. Len(proposed)
    BY <1>5 DEF BlocksInv
  <2>3. QED
    BY <1>4, <1>6, <2>1, <2>2
<1>8. PICK new : new = Append(old, block)
  OBVIOUS
<1>9. validated' = [m \in Nodes |-> IF m = n THEN new ELSE validated[m]]
  BY <1>1, <1>3, <1>5, <1>8 DEF BlocksInv
<1>10. /\ IsAnyList(new)
       /\ \A k \in 1 .. Len(new) : Hash(new[k].header) \in 1 .. Len(proposed)
  BY <1>6, <1>7, <1>8
<1>11. \A m \in Nodes : /\ IsAnyList(validated'[m])
                        /\ \A k \in 1 .. Len(validated'[m]) :
                               Hash(validated'[m][k].header) \in 1 .. Len(proposed)
  BY <1>9, <1>10 DEF BlocksInv
<1>12. validated' = [m \in Nodes |-> validated'[m]]
  BY <1>9
<1>13. HeadersLinked'
  BY <1>2 DEF BlocksInv, HeadersLinked
<1>14. QED
  BY <1>2, <1>11, <1>12, <1>13 DEF BlocksInv

LEMMA BlocksAlways == BlocksSpec => []BlocksInv
<1>1. BlocksInit => BlocksInv
  <2> SUFFICES ASSUME BlocksInit PROVE BlocksInv
    OBVIOUS
  <2>1. << >> \in Seq(Nat) /\ Len(<< >>) = 0
    OBVIOUS
  <2>2. IsAnyList(<< >>)
    BY <2>1 DEF IsAnyList
  <2>3. HeadersLinked
    BY <2>1, BlocksAssumption DEF BlocksInit, HeadersLinked
  <2>4. QED
    BY <2>1, <2>2, <2>3 DEF BlocksInit, BlocksInv
<1>2. BlocksInv /\ [BlocksNext]_blockVars => BlocksInv'
  <2> SUFFICES ASSUME BlocksInv, [BlocksNext]_blockVars PROVE BlocksInv'
    OBVIOUS
  <2>1. CASE UNCHANGED blockVars
    BY <2>1 DEF blockVars, BlocksInv, HeadersLinked
  <2>2. CASE BlocksNext
    BY <2>2, ProposeBlockStep, ReceiveBlockStep DEF BlocksNext
  <2>3. QED
    BY <2>1, <2>2
<1>3. QED
  BY <1>1, <1>2, PTL DEF BlocksSpec

\* The recursions over the blocks a block builds on.
IsChain(n, f) ==
    f = [k \in 0 .. n |-> IF k = Genesis THEN {} ELSE {k} \cup f[Previous(k)]]

IsWeight(n, f) ==
    f = [k \in 0 .. n |-> IF k = Genesis THEN 0 ELSE tally[k] + f[Previous(k)]]

LEMMA ChainExists ==
    ASSUME NEW n \in Nat, \A k \in 1 .. n : Previous(k) \in 0 .. (k - 1)
    PROVE  \E f : IsChain(n, f)
<1> DEFINE Bad == {m \in 0 .. n : ~ \E f : IsChain(m, f)}
<1> SUFFICES ASSUME Bad # {} PROVE FALSE
  <2>1. n \in 0 .. n
    OBVIOUS
  <2>2. QED
    BY <2>1
<1>1. PICK m \in Bad : \A j \in Bad : m <= j
  <2>1. Bad \in SUBSET Nat
    OBVIOUS
  <2> HIDE DEF Bad
  <2>2. QED
    BY <2>1, LeastNatural
<1>2. m \in Nat /\ m \in 0 .. n
  OBVIOUS
<1>3. m # 0
  <2> SUFFICES ASSUME m = 0 PROVE FALSE
    OBVIOUS
  <2> DEFINE f == [k \in 0 .. 0 |-> {}]
  <2>1. \A k \in 0 .. 0 : k = Genesis
    BY DEF Genesis
  <2>2. f = [k \in 0 .. 0 |-> IF k = Genesis THEN {} ELSE {k} \cup f[Previous(k)]]
    BY <2>1
  <2>3. IsChain(0, f)
    BY <2>2 DEF IsChain
  <2>4. QED
    BY <2>3
<1>4. m - 1 \in 0 .. n /\ m - 1 \notin Bad /\ m \in 1 .. n
  <2>1. m - 1 \in 0 .. n /\ ~(m <= m - 1) /\ m \in 1 .. n
    BY <1>2, <1>3
  <2> HIDE DEF Bad
  <2>2. QED
    BY <1>1, <2>1
<1>5. PICK f : IsChain(m - 1, f)
  BY <1>4
<1> DEFINE g == [k \in 0 .. m |-> IF k = m THEN {m} \cup f[Previous(m)] ELSE f[k]]
<1>6. \A k \in 0 .. (m - 1) : f[k] = IF k = Genesis THEN {} ELSE {k} \cup f[Previous(k)]
  BY <1>5 DEF IsChain
<1>7. ASSUME NEW k \in 0 .. m
      PROVE  g[k] = IF k = Genesis THEN {} ELSE {k} \cup g[Previous(k)]
  <2>1. k # Genesis => /\ Previous(k) \in 0 .. m /\ Previous(k) # m
                       /\ g[Previous(k)] = f[Previous(k)]
    <3> SUFFICES ASSUME k # Genesis
                 PROVE  Previous(k) \in 0 .. m /\ Previous(k) # m
      OBVIOUS
    <3>1. k \in 1 .. n
      BY <1>2 DEF Genesis
    <3>2. PICK p : p = Previous(k)
      OBVIOUS
    <3>3. p \in 0 .. (k - 1)
      BY <3>1, <3>2
    <3>4. p \in 0 .. m /\ p # m
      BY <1>2, <3>1, <3>3
    <3>5. QED
      BY <3>2, <3>4
  <2>2. CASE k = m
    <3>1. k # Genesis
      BY <1>3, <2>2 DEF Genesis
    <3>2. g[k] = {m} \cup f[Previous(m)]
      BY <2>2
    <3> HIDE DEF g
    <3>3. QED
      BY <2>1, <2>2, <3>1, <3>2
  <2>3. CASE k # m
    <3>1. k \in 0 .. (m - 1)
      BY <1>2, <2>3
    <3>2. g[k] = f[k]
      BY <2>3
    <3> HIDE DEF g
    <3>3. QED
      BY <1>6, <2>1, <3>1, <3>2
  <2>4. QED
    BY <2>2, <2>3
<1>8. g = [k \in 0 .. m |-> IF k = Genesis THEN {} ELSE {k} \cup g[Previous(k)]]
  BY <1>7
<1>9. IsChain(m, g)
  <2> HIDE DEF g
  <2>1. QED
    BY <1>8 DEF IsChain
<1>10. QED
  BY <1>9

LEMMA WeightExists ==
    ASSUME NEW n \in Nat, \A k \in 1 .. n : Previous(k) \in 0 .. (k - 1)
    PROVE  \E f : IsWeight(n, f)
<1> DEFINE Bad == {m \in 0 .. n : ~ \E f : IsWeight(m, f)}
<1> SUFFICES ASSUME Bad # {} PROVE FALSE
  <2>1. n \in 0 .. n
    OBVIOUS
  <2>2. QED
    BY <2>1
<1>1. PICK m \in Bad : \A j \in Bad : m <= j
  <2>1. Bad \in SUBSET Nat
    OBVIOUS
  <2> HIDE DEF Bad
  <2>2. QED
    BY <2>1, LeastNatural
<1>2. m \in Nat /\ m \in 0 .. n
  OBVIOUS
<1>3. m # 0
  <2> SUFFICES ASSUME m = 0 PROVE FALSE
    OBVIOUS
  <2> DEFINE f == [k \in 0 .. 0 |-> 0]
  <2>1. \A k \in 0 .. 0 : k = Genesis
    BY DEF Genesis
  <2>2. f = [k \in 0 .. 0 |-> IF k = Genesis THEN 0 ELSE tally[k] + f[Previous(k)]]
    BY <2>1
  <2>3. IsWeight(0, f)
    BY <2>2 DEF IsWeight
  <2>4. QED
    BY <2>3
<1>4. m - 1 \in 0 .. n /\ m - 1 \notin Bad /\ m \in 1 .. n
  <2>1. m - 1 \in 0 .. n /\ ~(m <= m - 1) /\ m \in 1 .. n
    BY <1>2, <1>3
  <2> HIDE DEF Bad
  <2>2. QED
    BY <1>1, <2>1
<1>5. PICK f : IsWeight(m - 1, f)
  BY <1>4
<1> DEFINE g == [k \in 0 .. m |-> IF k = m THEN tally[m] + f[Previous(m)] ELSE f[k]]
<1>6. \A k \in 0 .. (m - 1) : f[k] = IF k = Genesis THEN 0 ELSE tally[k] + f[Previous(k)]
  BY <1>5 DEF IsWeight
<1>7. ASSUME NEW k \in 0 .. m
      PROVE  g[k] = IF k = Genesis THEN 0 ELSE tally[k] + g[Previous(k)]
  <2>1. k # Genesis => /\ Previous(k) \in 0 .. m /\ Previous(k) # m
                       /\ g[Previous(k)] = f[Previous(k)]
    <3> SUFFICES ASSUME k # Genesis
                 PROVE  Previous(k) \in 0 .. m /\ Previous(k) # m
      OBVIOUS
    <3>1. k \in 1 .. n
      BY <1>2 DEF Genesis
    <3>2. PICK p : p = Previous(k)
      OBVIOUS
    <3>3. p \in 0 .. (k - 1)
      BY <3>1, <3>2
    <3>4. p \in 0 .. m /\ p # m
      BY <1>2, <3>1, <3>3
    <3>5. QED
      BY <3>2, <3>4
  <2>2. CASE k = m
    <3>1. k # Genesis
      BY <1>3, <2>2 DEF Genesis
    <3>2. g[k] = tally[m] + f[Previous(m)]
      BY <2>2
    <3> HIDE DEF g
    <3>3. QED
      BY <2>1, <2>2, <3>1, <3>2
  <2>3. CASE k # m
    <3>1. k \in 0 .. (m - 1)
      BY <1>2, <2>3
    <3>2. g[k] = f[k]
      BY <2>3
    <3> HIDE DEF g
    <3>3. QED
      BY <1>6, <2>1, <3>1, <3>2
  <2>4. QED
    BY <2>2, <2>3
<1>8. g = [k \in 0 .. m |-> IF k = Genesis THEN 0 ELSE tally[k] + g[Previous(k)]]
  BY <1>7
<1>9. IsWeight(m, g)
  <2> HIDE DEF g
  <2>1. QED
    BY <1>8 DEF IsWeight
<1>10. QED
  BY <1>9


\* Chain and cumulative_chain_weight, block by block.
LEMMA ChainStep ==
    ASSUME BlocksInv
    PROVE  /\ Chain(0) = {} /\ CumulativeChainWeight(0) = 0
           /\ \A k \in 1 .. Len(proposed) :
                  /\ Chain(k) = {k} \cup Chain(Previous(k))
                  /\ CumulativeChainWeight(k) = tally[k] + CumulativeChainWeight(Previous(k))
<1>1. PICK N : N = Len(proposed)
  OBVIOUS
<1>2. N \in Nat
  BY <1>1, AppendAny DEF BlocksInv
<1>3. \A k \in 1 .. N : Previous(k) \in 0 .. (k - 1)
  BY <1>1 DEF BlocksInv, HeadersLinked, Previous
<1>4. PICK C : C = CHOOSE f : IsChain(N, f)
  OBVIOUS
<1>5. PICK W : W = CHOOSE f : IsWeight(N, f)
  OBVIOUS
<1>6. IsChain(N, C) /\ IsWeight(N, W)
  <2>1. \E f : IsChain(N, f)
    BY <1>2, <1>3, ChainExists
  <2>2. \E f : IsWeight(N, f)
    BY <1>2, <1>3, WeightExists
  <2>3. QED
    BY <1>4, <1>5, <2>1, <2>2
<1>7. \A k : Chain(k) = C[k]
  BY <1>1, <1>4 DEF Chain, IsChain
<1>8. \A k : CumulativeChainWeight(k) = W[k]
  BY <1>1, <1>5 DEF CumulativeChainWeight, IsWeight
<1>9. 0 \in 0 .. N /\ 0 = Genesis /\ \A k \in 1 .. N : k \in 0 .. N /\ k # Genesis
  BY <1>2 DEF Genesis
<1>10. C[0] = {} /\ W[0] = 0
  BY <1>6, <1>9 DEF IsChain, IsWeight
<1>11. \A k \in 1 .. N : C[k] = {k} \cup C[Previous(k)]
  BY <1>6, <1>9 DEF IsChain
<1>12. \A k \in 1 .. N : W[k] = tally[k] + W[Previous(k)]
  BY <1>6, <1>9 DEF IsWeight
<1>13. QED
  BY <1>1, <1>7, <1>8, <1>10, <1>11, <1>12

\* The blocks that block k builds on are earlier, no heavier and lower.
Descends(k) ==
    /\ CumulativeChainWeight(k) \in Nat
    /\ \A j \in Chain(k) :
           /\ j \in 1 .. k
           /\ CumulativeChainWeight(j) \in Nat
           /\ j # k => /\ CumulativeChainWeight(j) <= CumulativeChainWeight(k)
                       /\ proposed[j].header.height < proposed[k].header.height

LEMMA AllDescend ==
    ASSUME BlocksInv
    PROVE  \A k \in 1 .. Len(proposed) : Descends(k)
<1>1. PICK N : N = Len(proposed)
  OBVIOUS
<1>2. N \in Nat
  BY <1>1, AppendAny DEF BlocksInv
<1> DEFINE Bad == {k \in 1 .. N : ~Descends(k)}
<1> SUFFICES ASSUME Bad # {} PROVE FALSE
  BY <1>1
<1>3. PICK k \in Bad : \A j \in Bad : k <= j
  <2>1. Bad \in SUBSET Nat
    OBVIOUS
  <2> HIDE DEF Bad
  <2>2. QED
    BY <2>1, LeastNatural
<1>4. k \in Nat /\ k \in 1 .. N /\ ~Descends(k)
  OBVIOUS
<1>5. PICK p : p = Previous(k)
  OBVIOUS
<1>6. p \in 0 .. (k - 1)
  BY <1>1, <1>4, <1>5 DEF BlocksInv, HeadersLinked, Previous
<1>7. PICK t \in Nat : t = tally[k]
  BY <1>1, <1>4, ElementOfSeq DEF BlocksInv
<1>8. /\ Chain(k) = {k} \cup Chain(p)
      /\ CumulativeChainWeight(k) = t + CumulativeChainWeight(p)
      /\ Chain(0) = {} /\ CumulativeChainWeight(0) = 0
  BY <1>1, <1>4, <1>5, <1>7, ChainStep
<1>9. k \in 1 .. k
  BY <1>4
<1>10. CASE p = 0
  <2>1. CumulativeChainWeight(k) \in Nat /\ Chain(k) = {k}
    BY <1>7, <1>8, <1>10
  <2>2. Descends(k)
    BY <1>9, <2>1 DEF Descends
  <2>3. QED
    BY <1>4, <2>2
<1>11. CASE p # 0
  <2>1. p \in Nat /\ p \in 1 .. N /\ ~(k <= p)
    BY <1>2, <1>4, <1>6, <1>11
  <2>2. Descends(p)
    <3>1. p \notin Bad
      <4> HIDE DEF Bad
      <4>1. QED
        BY <1>3, <2>1
    <3>2. QED
      BY <2>1, <3>1
  <2>3. PICK h \in Nat : h = proposed[p].header.height
    BY <1>1, <2>1 DEF BlocksInv, HeadersLinked
  <2>4. proposed[k].header.height = h + 1
    BY <1>1, <1>4, <1>5, <1>11, <2>3 DEF BlocksInv, HeadersLinked, Previous, Genesis
  <2>5. PICK w \in Nat : w = CumulativeChainWeight(p)
    BY <2>2 DEF Descends
  <2>6. CumulativeChainWeight(k) = t + w /\ t + w \in Nat
    BY <1>7, <1>8, <2>5
  <2>7. ASSUME NEW j \in Chain(p)
        PROVE  /\ j \in 1 .. k
               /\ CumulativeChainWeight(j) \in Nat
               /\ CumulativeChainWeight(j) <= t + w
               /\ proposed[j].header.height < h + 1
    <3>1. j \in 1 .. p /\ CumulativeChainWeight(j) \in Nat
      BY <2>2 DEF Descends
    <3>2. j \in 1 .. k /\ j \in 1 .. N
      BY <1>2, <1>4, <1>6, <3>1
    <3>3. PICK x \in Nat, y \in Nat : x = CumulativeChainWeight(j) /\ y = proposed[j].header.height
      BY <1>1, <3>1, <3>2 DEF BlocksInv, HeadersLinked
    <3>4. x <= w /\ y <= h
      <4>1. CASE j = p
        BY <2>3, <2>5, <3>3, <4>1
      <4>2. CASE j # p
        BY <2>2, <2>3, <2>5, <3>3, <4>2 DEF Descends
      <4>3. QED
        BY <4>1, <4>2
    <3>5. x <= t + w /\ y < h + 1
      BY <3>4
    <3>6. QED
      BY <3>1, <3>2, <3>3, <3>5
  <2>8. Descends(k)
    BY <1>8, <1>9, <2>4, <2>6, <2>7 DEF Descends
  <2>9. QED
    BY <1>4, <2>8
<1>12. QED
  BY <1>10, <1>11

-----------------------------------------------------------------------------
\* Tips with their weights.
ForkRecords == [tip_hash : 1 .. MaxProposals, height : Nat, weight : Nat]

\* Weight, height and hash together order the tips totally.
LEMMA CompareOrders ==
    /\ \A x, y \in ForkRecords : Compare(x, y) \/ Compare(y, x)
    /\ \A x, y, z \in ForkRecords : Compare(x, y) /\ Compare(y, z) => Compare(x, z)
    /\ \A x, y \in ForkRecords : Compare(x, y) /\ Compare(y, x) => x = y
<1>1. \A x \in ForkRecords : /\ x.weight \in Nat /\ x.height \in Nat
                             /\ x.tip_hash \in 1 .. MaxProposals
                             /\ HashRank[x.tip_hash] \in Nat
  BY BlocksAssumption DEF ForkRecords
<1>2. \A x, y \in ForkRecords : Compare(x, y) \/ Compare(y, x)
  BY <1>1 DEF Compare
<1>3. \A x, y, z \in ForkRecords : Compare(x, y) /\ Compare(y, z) => Compare(x, z)
  BY <1>1 DEF Compare
<1>4. ASSUME NEW x \in ForkRecords, NEW y \in ForkRecords, Compare(x, y), Compare(y, x)
      PROVE  x = y
  <2>1. /\ x.weight = y.weight /\ x.height = y.height
        /\ HashRank[x.tip_hash] = HashRank[y.tip_hash]
    BY <1>1, <1>4 DEF Compare
  <2>2. x.tip_hash = y.tip_hash
    BY <1>1, <2>1, BlocksAssumption
  <2>3. QED
    BY <2>1, <2>2 DEF ForkRecords
<1>5. QED
  BY <1>2, <1>3, <1>4

\* The loop of max_by
Better(forks, k, before) == IF Compare(before, forks[k]) THEN forks[k] ELSE before

IsBest(forks, n, f) ==
    f = [k \in 1 .. n |-> IF k = 1 THEN forks[1] ELSE Better(forks, k, f[k - 1])]

LEMMA BestExists ==
    ASSUME NEW forks, NEW n \in Nat, n >= 1
    PROVE  \E f : IsBest(forks, n, f)
<1> DEFINE Bad == {m \in 1 .. n : ~ \E f : IsBest(forks, m, f)}
<1> SUFFICES ASSUME Bad # {} PROVE FALSE
  <2>1. n \in 1 .. n
    OBVIOUS
  <2>2. QED
    BY <2>1
<1>1. PICK m \in Bad : \A j \in Bad : m <= j
  <2>1. Bad \in SUBSET Nat
    OBVIOUS
  <2> HIDE DEF Bad
  <2>2. QED
    BY <2>1, LeastNatural
<1>2. m \in Nat /\ m \in 1 .. n
  OBVIOUS
<1>3. m # 1
  <2> SUFFICES ASSUME m = 1 PROVE FALSE
    OBVIOUS
  <2> DEFINE f == [k \in 1 .. 1 |-> forks[1]]
  <2>1. \A k \in 1 .. 1 : k = 1
    OBVIOUS
  <2>2. f = [k \in 1 .. 1 |-> IF k = 1 THEN forks[1] ELSE Better(forks, k, f[k - 1])]
    BY <2>1
  <2>3. IsBest(forks, 1, f)
    BY <2>2 DEF IsBest
  <2>4. QED
    BY <2>3
<1>4. m - 1 \in 1 .. n /\ m - 1 \notin Bad
  <2>1. m - 1 \in 1 .. n /\ ~(m <= m - 1)
    BY <1>2, <1>3
  <2> HIDE DEF Bad
  <2>2. QED
    BY <1>1, <2>1
<1>5. PICK f : IsBest(forks, m - 1, f)
  BY <1>4
<1> DEFINE E(k, g) == IF k = 1 THEN forks[1] ELSE Better(forks, k, g[k - 1])
           g == [k \in 1 .. m |-> IF k = m THEN Better(forks, m, f[m - 1]) ELSE f[k]]
<1>6. \A k \in 1 .. (m - 1) : f[k] = E(k, f)
  BY <1>5 DEF IsBest
<1>7. ASSUME NEW k \in 1 .. m PROVE g[k] = E(k, g)
  <2>1. CASE k = m
    <3>1. m - 1 \in 1 .. m /\ m - 1 # m /\ m # 1
      BY <1>2, <1>3
    <3>2. g[m - 1] = f[m - 1] /\ g[m] = Better(forks, m, f[m - 1])
      BY <3>1
    <3> HIDE DEF g
    <3>3. QED
      BY <2>1, <3>1, <3>2
  <2>2. CASE k # m /\ k = 1
    <3>1. k \in 1 .. (m - 1)
      BY <1>2, <1>3, <2>2
    <3>2. g[k] = f[k]
      BY <2>2
    <3>3. f[k] = forks[1]
      BY <1>6, <2>2, <3>1
    <3> HIDE DEF g
    <3>4. QED
      BY <2>2, <3>2, <3>3
  <2>3. CASE k # m /\ k # 1
    <3>1. k \in 1 .. (m - 1) /\ k - 1 \in 1 .. m /\ k - 1 # m
      BY <1>2, <1>3, <2>3
    <3>2. g[k] = f[k] /\ g[k - 1] = f[k - 1]
      BY <2>3, <3>1
    <3>3. f[k] = Better(forks, k, f[k - 1])
      BY <1>6, <2>3, <3>1
    <3> HIDE DEF g
    <3>4. QED
      BY <2>3, <3>2, <3>3
  <2>4. QED
    BY <2>1, <2>2, <2>3
<1>8. g = [k \in 1 .. m |-> E(k, g)]
  BY <1>7
<1>9. IsBest(forks, m, g)
  <2> HIDE DEF g
  <2>1. QED
    BY <1>8 DEF IsBest
<1>10. QED
  BY <1>9

\* choose_heaviest_chain returns a tip of the list that no other exceeds.
LEMMA ChoiceIsGreatest ==
    ASSUME NEW n \in Nat \ {0}, NEW forks \in [1 .. n -> ForkRecords], Len(forks) = n
    PROVE  /\ \E j \in 1 .. n : ChooseHeaviestChain(forks) = forks[j]
           /\ \A j \in 1 .. n : Compare(forks[j], ChooseHeaviestChain(forks))
<1>1. PICK f : f = CHOOSE g : IsBest(forks, n, g)
  OBVIOUS
<1>2. IsBest(forks, n, f)
  <2>1. n \in Nat /\ n >= 1
    OBVIOUS
  <2>2. \E g : IsBest(forks, n, g)
    BY <2>1, BestExists
  <2>3. QED
    BY <1>1, <2>2
<1>3. ChooseHeaviestChain(forks) = f[n]
  BY <1>1 DEF ChooseHeaviestChain, IsBest, Better
<1>4. /\ f[1] = forks[1]
      /\ \A k \in 2 .. n : f[k] = Better(forks, k, f[k - 1])
  <2>1. 1 \in 1 .. n /\ \A k \in 2 .. n : k \in 1 .. n /\ k # 1
    OBVIOUS
  <2>2. QED
    BY <1>2, <2>1 DEF IsBest
<1> DEFINE Top(k) == /\ \E j \in 1 .. k : f[k] = forks[j]
                     /\ \A j \in 1 .. k : Compare(forks[j], f[k])
           Bad == {k \in 1 .. n : ~Top(k)}
<1>5. Bad = {}
  <2> SUFFICES ASSUME Bad # {} PROVE FALSE
    OBVIOUS
  <2>1. PICK k \in Bad : \A j \in Bad : k <= j
    <3>1. Bad \in SUBSET Nat
      OBVIOUS
    <3> HIDE DEF Bad
    <3>2. QED
      BY <3>1, LeastNatural
  <2>2. k \in Nat /\ k \in 1 .. n /\ ~Top(k)
    OBVIOUS
  <2>3. \A j \in 1 .. n : forks[j] \in ForkRecords
    OBVIOUS
  <2>4. CASE k = 1
    <3>1. \A j \in 1 .. 1 : j = 1
      OBVIOUS
    <3>2. 1 \in 1 .. n /\ 1 \in 1 .. 1
      OBVIOUS
    <3>3. Compare(forks[1], forks[1])
      BY <2>3, <3>2, CompareOrders
    <3>4. Top(1)
      BY <1>4, <3>1, <3>2, <3>3
    <3>5. QED
      BY <2>2, <2>4, <3>4
  <2>5. CASE k # 1
    <3>1. k \in 2 .. n /\ k - 1 \in 1 .. n /\ ~(k <= k - 1)
      BY <2>2, <2>5
    <3>2. Top(k - 1)
      <4>1. k - 1 \notin Bad
        <5> HIDE DEF Bad
        <5>1. QED
          BY <2>1, <3>1
      <4>2. QED
        BY <3>1, <4>1
    <3>3. PICK old : old = f[k - 1]
      OBVIOUS
    <3>4. PICK i \in 1 .. (k - 1) : old = forks[i]
      BY <3>2, <3>3
    <3>5. \A j \in 1 .. (k - 1) : Compare(forks[j], old)
      BY <3>2, <3>3
    <3>6. \A j \in 1 .. k : j \in 1 .. n /\ (j \in 1 .. (k - 1) \/ j = k)
      BY <2>2
    <3>7. i \in 1 .. k /\ k \in 1 .. k
      BY <2>2, <3>4
    <3>8. old \in ForkRecords /\ forks[k] \in ForkRecords
      BY <2>2, <2>3, <3>4, <3>6, <3>7
    <3>9. f[k] = IF Compare(old, forks[k]) THEN forks[k] ELSE old
      BY <1>4, <3>1, <3>3 DEF Better
    <3>10. CASE Compare(old, forks[k])
      <4>1. f[k] = forks[k]
        BY <3>9, <3>10
      <4>2. Compare(forks[k], forks[k])
        BY <3>8, CompareOrders
      <4>3. \A j \in 1 .. k : Compare(forks[j], forks[k])
        <5> TAKE j \in 1 .. k
        <5>1. CASE j = k
          BY <4>2, <5>1
        <5>2. CASE j \in 1 .. (k - 1)
          <6>1. Compare(forks[j], old) /\ forks[j] \in ForkRecords
            BY <2>3, <3>5, <3>6, <5>2
          <6>2. QED
            BY <3>8, <3>10, <6>1, CompareOrders
        <5>3. QED
          BY <3>6, <5>1, <5>2
      <4>4. Top(k)
        BY <3>7, <4>1, <4>3
      <4>5. QED
        BY <2>2, <4>4
    <3>11. CASE ~Compare(old, forks[k])
      <4>1. f[k] = old
        BY <3>9, <3>11
      <4>2. Compare(forks[k], old)
        BY <3>8, <3>11, CompareOrders
      <4>3. \A j \in 1 .. k : Compare(forks[j], old)
        BY <3>5, <3>6, <4>2
      <4>4. Top(k)
        BY <3>4, <3>7, <4>1, <4>3
      <4>5. QED
        BY <2>2, <4>4
    <3>12. QED
      BY <3>10, <3>11
  <2>6. QED
    BY <2>4, <2>5
<1>6. Top(n)
  <2>1. n \in 1 .. n
    OBVIOUS
  <2>2. QED
    BY <1>5, <2>1
<1>7. QED
  BY <1>3, <1>6

\* The tips of a node are the forks of the blocks it knows.
LEMMA ForksOfNode ==
    ASSUME BlocksInv, NEW n \in Nodes, NEW N, N = Len(validated[n])
    PROVE  /\ N \in Nat
           /\ Forks(n) \in [1 .. N -> ForkRecords]
           /\ Len(Forks(n)) = N
           /\ \A i : i \in Known(n) \ {Genesis} <=>
                  \E k \in 1 .. N : Forks(n)[k] = ForkOf(i) /\ i \in 1 .. Len(proposed)
           /\ \A k \in 1 .. N : \E i \in Known(n) \ {Genesis} : Forks(n)[k] = ForkOf(i)
           /\ \A i \in 1 .. Len(proposed) : ForkOf(i) \in ForkRecords
<1>1. N \in Nat /\ DOMAIN validated[n] = 1 .. N
  BY AppendAny DEF BlocksInv
<1>2. PICK M : M = Len(proposed)
  OBVIOUS
<1>3. M \in Nat /\ M <= MaxProposals /\ MaxProposals \in Nat
  BY <1>2, BlocksAssumption, AppendAny DEF BlocksInv, HeadersLinked
<1>4. \A i \in 1 .. M : ForkOf(i) \in ForkRecords
  <2> TAKE i \in 1 .. M
  <2>1. i \in 1 .. MaxProposals
    BY <1>3
  <2>2. CumulativeChainWeight(i) \in Nat
    BY <1>2, AllDescend DEF Descends
  <2>3. proposed[i].header.height \in Nat
    BY <1>2 DEF BlocksInv, HeadersLinked
  <2>4. QED
    BY <2>1, <2>2, <2>3 DEF ForkOf, ForkRecords
<1> DEFINE h(k) == Hash(validated[n][k].header)
<1>5. \A k \in 1 .. N : h(k) \in 1 .. M
  BY <1>2 DEF BlocksInv
<1>6. Forks(n) = [k \in 1 .. N |-> ForkOf(h(k))]
  BY <1>1 DEF Forks
<1>7. Forks(n) \in [1 .. N -> ForkRecords]
  <2> HIDE DEF h
  <2>1. QED
    BY <1>4, <1>5, <1>6
<1>8. Len(Forks(n)) = N
  <2>1. Forks(n) \in Seq(ForkRecords)
    BY <1>1, <1>7, SeqDef
  <2>2. Len(Forks(n)) \in Nat /\ DOMAIN Forks(n) = 1 .. Len(Forks(n)) /\ DOMAIN Forks(n) = 1 .. N
    BY <1>7, <2>1, LenProperties
  <2>3. PICK L \in Nat : L = Len(Forks(n))
    BY <2>2
  <2>4. 1 .. L = 1 .. N
    BY <2>2, <2>3
  <2>5. \A k \in Nat : k \in 1 .. L <=> k \in 1 .. N
    BY <2>4
  <2>6. (N >= 1 => N <= L) /\ (L >= 1 => L <= N)
    BY <1>1, <2>5
  <2>7. QED
    BY <1>1, <2>3, <2>6
<1>9. \A i : i \in Known(n) \ {Genesis} <=> \E k \in 1 .. N : i = h(k)
  <2>1. Known(n) = {Genesis} \cup {Hash(b.header) : b \in ToSet(validated[n])}
    BY DEF Known
  <2>2. ToSet(validated[n]) = {validated[n][k] : k \in 1 .. N}
    BY <1>1 DEF ToSet
  <2>3. {Hash(b.header) : b \in ToSet(validated[n])} = {h(k) : k \in 1 .. N}
    BY <2>2
  <2>4. \A k \in 1 .. N : h(k) # Genesis
    BY <1>3, <1>5 DEF Genesis
  <2> HIDE DEF h
  <2>5. QED
    BY <2>1, <2>3, <2>4
<1>10. \A i, j : ForkOf(i) = ForkOf(j) => i = j
  BY DEF ForkOf
<1> HIDE DEF h
<1>11. \A k \in 1 .. N : Forks(n)[k] = ForkOf(h(k))
  BY <1>6
<1>12. \A i : i \in Known(n) \ {Genesis} <=>
           \E k \in 1 .. N : Forks(n)[k] = ForkOf(i) /\ i \in 1 .. M
  <2> TAKE i
  <2>1. ASSUME NEW k \in 1 .. N, i = h(k)
        PROVE  Forks(n)[k] = ForkOf(i) /\ i \in 1 .. M
    BY <1>5, <1>11, <2>1
  <2>2. ASSUME NEW k \in 1 .. N, Forks(n)[k] = ForkOf(i)
        PROVE  i = h(k)
    BY <1>10, <1>11, <2>2
  <2>3. QED
    BY <1>9, <2>1, <2>2
<1>13. \A k \in 1 .. N : \E i \in Known(n) \ {Genesis} : Forks(n)[k] = ForkOf(i)
  BY <1>9, <1>11
<1>14. QED
  BY <1>1, <1>2, <1>4, <1>7, <1>8, <1>12, <1>13

\* For any number of nodes, blocks and stakes, and any order in which the blocks
\* arrive: nodes that know the same blocks choose the same tip, and a tip that no
\* block they know builds on.
THEOREM ForkChoiceAlwaysConverges == BlocksSpec => []ForkChoiceConverges
<1>1. BlocksInv => ForkChoiceConverges
  <2> SUFFICES ASSUME BlocksInv, NEW n \in Nodes, NEW m \in Nodes,
                      validated[n] # <<>>, Known(n) = Known(m)
               PROVE  LET choice == ChooseHeaviestChain(Forks(n))
                      IN  /\ choice = ChooseHeaviestChain(Forks(m))
                          /\ \A i \in Known(n) \ {Genesis, choice.tip_hash} :
                                 choice.tip_hash \notin Chain(i)
    BY DEF ForkChoiceConverges
  <2>1. PICK N : N = Len(validated[n])
    OBVIOUS
  <2>2. PICK M : M = Len(validated[m])
    OBVIOUS
  <2>3. PICK K : K = Known(n) \ {Genesis}
    OBVIOUS
  <2>4. PICK F, G : F = Forks(n) /\ G = Forks(m)
    OBVIOUS
  <2>5. /\ N \in Nat /\ F \in [1 .. N -> ForkRecords] /\ Len(F) = N
        /\ \A i : i \in K <=> \E k \in 1 .. N : F[k] = ForkOf(i) /\ i \in 1 .. Len(proposed)
        /\ \A k \in 1 .. N : \E i \in K : F[k] = ForkOf(i)
    BY <2>1, <2>3, <2>4, ForksOfNode
  <2>6. /\ M \in Nat /\ G \in [1 .. M -> ForkRecords] /\ Len(G) = M
        /\ \A i : i \in K <=> \E k \in 1 .. M : G[k] = ForkOf(i) /\ i \in 1 .. Len(proposed)
        /\ \A k \in 1 .. M : \E i \in K : G[k] = ForkOf(i)
    <3>1. K = Known(m) \ {Genesis} /\ G = Forks(m)
      BY <2>3, <2>4
    <3>2. /\ M \in Nat /\ Forks(m) \in [1 .. M -> ForkRecords] /\ Len(Forks(m)) = M
          /\ \A i : i \in Known(m) \ {Genesis} <=>
                 \E k \in 1 .. M : Forks(m)[k] = ForkOf(i) /\ i \in 1 .. Len(proposed)
          /\ \A k \in 1 .. M : \E i \in Known(m) \ {Genesis} : Forks(m)[k] = ForkOf(i)
      BY <2>2, ForksOfNode
    <3>3. QED
      BY <3>1, <3>2
  <2>7. N # 0
    <3>1. PICK S : validated[n] \in Seq(S)
      BY DEF BlocksInv, IsAnyList
    <3>2. QED
      BY <2>1, <3>1, EmptySeq
  <2>8. M # 0
    <3>1. 1 \in 1 .. N
      BY <2>5, <2>7
    <3>2. K # {}
      BY <2>5, <3>1
    <3>3. \E k \in 1 .. M : TRUE
      BY <2>6, <3>2
    <3>4. QED
      BY <3>3
  <2>9. PICK x, y : x = ChooseHeaviestChain(F) /\ y = ChooseHeaviestChain(G)
    OBVIOUS
  <2>10. (\E j \in 1 .. N : x = F[j]) /\ (\A j \in 1 .. N : Compare(F[j], x))
    BY <2>5, <2>7, <2>9, ChoiceIsGreatest
  <2>11. (\E j \in 1 .. M : y = G[j]) /\ (\A j \in 1 .. M : Compare(G[j], y))
    BY <2>6, <2>8, <2>9, ChoiceIsGreatest
  <2>12. (\E i \in K : x = ForkOf(i)) /\ (\A i \in K : Compare(ForkOf(i), x))
    BY <2>5, <2>10
  <2>13. (\E i \in K : y = ForkOf(i)) /\ (\A i \in K : Compare(ForkOf(i), y))
    BY <2>6, <2>11
  <2>14. x \in ForkRecords /\ y \in ForkRecords
    BY <2>5, <2>6, <2>10, <2>11
  <2>15. x = y
    <3>1. Compare(x, y) /\ Compare(y, x)
      BY <2>12, <2>13
    <3>2. QED
      BY <2>14, <3>1, CompareOrders
  <2>16. ASSUME NEW i \in K, i # x.tip_hash, x.tip_hash \in Chain(i) PROVE FALSE
    <3>1. PICK t \in K : x = ForkOf(t)
      BY <2>12
    <3>2. t = x.tip_hash
      BY <3>1 DEF ForkOf
    <3>3. i \in 1 .. Len(proposed) /\ t \in 1 .. Len(proposed)
      BY <2>5
    <3>4. Descends(i)
      BY <3>3, AllDescend
    <3>5. PICK wi \in Nat, wt \in Nat :
              wi = CumulativeChainWeight(i) /\ wt = CumulativeChainWeight(t)
      BY <2>16, <3>2, <3>4 DEF Descends
    <3>6. PICK hi \in Nat, ht \in Nat :
              hi = proposed[i].header.height /\ ht = proposed[t].header.height
      BY <3>3 DEF BlocksInv, HeadersLinked
    <3>7. wt <= wi /\ ht < hi
      BY <2>16, <3>2, <3>4, <3>5, <3>6 DEF Descends
    <3>8. Compare(ForkOf(i), ForkOf(t))
      BY <2>12, <3>1
    <3>9. \/ wi < wt
          \/ wi = wt /\ hi <= ht
      BY <3>5, <3>6, <3>8 DEF Compare, ForkOf
    <3>10. QED
      BY <3>7, <3>9
  <2>17. QED
    BY <2>3, <2>4, <2>9, <2>15, <2>16
<1>2. QED
  BY <1>1, BlocksAlways, PTL

-----------------------------------------------------------------------------
(* The transactions a header commits to *)

\* The loop of calculate_merkle_root
MerkleUp(below) == IF Len(below) > 1 THEN NextMerkleLevel(below) ELSE below

IsMerkle(txs, n, f) ==
    f = [k \in 1 .. n |->
            IF k = 1 THEN [i \in DOMAIN txs |-> HashTransaction(txs[i])]
            ELSE MerkleUp(f[k - 1])]

LEMMA MerkleExists ==
    ASSUME NEW txs, NEW n \in Nat, n >= 1
    PROVE  \E f : IsMerkle(txs, n, f)
<1> DEFINE Bad == {m \in 1 .. n : ~ \E f : IsMerkle(txs, m, f)}
<1> SUFFICES ASSUME Bad # {} PROVE FALSE
  <2>1. n \in 1 .. n
    OBVIOUS
  <2>2. QED
    BY <2>1
<1>1. PICK m \in Bad : \A j \in Bad : m <= j
  <2>1. Bad \in SUBSET Nat
    OBVIOUS
  <2> HIDE DEF Bad
  <2>2. QED
    BY <2>1, LeastNatural
<1>2. m \in Nat /\ m \in 1 .. n
  OBVIOUS
<1>3. m # 1
  <2> SUFFICES ASSUME m = 1 PROVE FALSE
    OBVIOUS
  <2> DEFINE f == [k \in 1 .. 1 |-> [i \in DOMAIN txs |-> HashTransaction(txs[i])]]
  <2>1. \A k \in 1 .. 1 : k = 1
    OBVIOUS
  <2>2. f = [k \in 1 .. 1 |-> IF k = 1 THEN [i \in DOMAIN txs |-> HashTransaction(txs[i])] ELSE MerkleUp(f[k - 1])]
    BY <2>1
  <2>3. IsMerkle(txs, 1, f)
    BY <2>2 DEF IsMerkle
  <2>4. QED
    BY <2>3
<1>4. m - 1 \in 1 .. n /\ m - 1 \notin Bad
  <2>1. m - 1 \in 1 .. n /\ ~(m <= m - 1)
    BY <1>2, <1>3
  <2> HIDE DEF Bad
  <2>2. QED
    BY <1>1, <2>1
<1>5. PICK f : IsMerkle(txs, m - 1, f)
  BY <1>4
<1> DEFINE E(k, g) == IF k = 1 THEN [i \in DOMAIN txs |-> HashTransaction(txs[i])] ELSE MerkleUp(g[k - 1])
           g == [k \in 1 .. m |-> IF k = m THEN MerkleUp(f[m - 1]) ELSE f[k]]
<1>6. \A k \in 1 .. (m - 1) : f[k] = E(k, f)
  BY <1>5 DEF IsMerkle
<1>7. ASSUME NEW k \in 1 .. m PROVE g[k] = E(k, g)
  <2>1. CASE k = m
    <3>1. m - 1 \in 1 .. m /\ m - 1 # m /\ m # 1
      BY <1>2, <1>3
    <3>2. g[m - 1] = f[m - 1] /\ g[m] = MerkleUp(f[m - 1])
      BY <3>1
    <3> HIDE DEF g
    <3>3. QED
      BY <2>1, <3>1, <3>2
  <2>2. CASE k # m /\ k = 1
    <3>1. k \in 1 .. (m - 1)
      BY <1>2, <1>3, <2>2
    <3>2. g[k] = f[k]
      BY <2>2
    <3>3. f[k] = [i \in DOMAIN txs |-> HashTransaction(txs[i])]
      BY <1>6, <2>2, <3>1
    <3> HIDE DEF g
    <3>4. QED
      BY <2>2, <3>2, <3>3
  <2>3. CASE k # m /\ k # 1
    <3>1. k \in 1 .. (m - 1) /\ k - 1 \in 1 .. m /\ k - 1 # m
      BY <1>2, <1>3, <2>3
    <3>2. g[k] = f[k] /\ g[k - 1] = f[k - 1]
      BY <2>3, <3>1
    <3>3. f[k] = MerkleUp(f[k - 1])
      BY <1>6, <2>3, <3>1
    <3> HIDE DEF g
    <3>4. QED
      BY <2>3, <3>2, <3>3
  <2>4. QED
    BY <2>1, <2>2, <2>3
<1>8. g = [k \in 1 .. m |-> E(k, g)]
  BY <1>7
<1>9. IsMerkle(txs, m, g)
  <2> HIDE DEF g
  <2>1. QED
    BY <1>8 DEF IsMerkle
<1>10. QED
  BY <1>9


\* The levels calculate_merkle_root builds
MerkleLevels(txs) == CHOOSE f : IsMerkle(txs, Len(txs), f)

LEMMA MerkleRuns ==
    \A txs : Len(txs) \in Nat \ {0} =>
        /\ IsMerkle(txs, Len(txs), MerkleLevels(txs))
        /\ txs # <<>> => CalculateMerkleRoot(txs) = MerkleLevels(txs)[Len(txs)][1]
<1> SUFFICES ASSUME NEW txs, Len(txs) \in Nat \ {0}
             PROVE  /\ IsMerkle(txs, Len(txs), MerkleLevels(txs))
                    /\ txs # <<>> => CalculateMerkleRoot(txs) = MerkleLevels(txs)[Len(txs)][1]
  OBVIOUS
<1>1. \E f : IsMerkle(txs, Len(txs), f)
  <2>1. Len(txs) \in Nat /\ Len(txs) >= 1
    OBVIOUS
  <2>2. QED
    BY <2>1, MerkleExists
<1>2. IsMerkle(txs, Len(txs), MerkleLevels(txs))
  BY <1>1 DEF MerkleLevels
<1>3. txs # <<>> => CalculateMerkleRoot(txs) = MerkleLevels(txs)[Len(txs)][1]
  BY DEF CalculateMerkleRoot, MerkleLevels, IsMerkle, MerkleUp
<1>4. QED
  BY <1>2, <1>3

LEMMA FunctionLen ==
    ASSUME NEW N \in Nat, NEW g, g = [i \in 1 .. N |-> g[i]]
    PROVE  Len(g) = N /\ DOMAIN g = 1 .. N
<1> DEFINE R == {g[i] : i \in 1 .. N}
<1>1. DOMAIN g = 1 .. N
  OBVIOUS
<1>2. g \in [1 .. N -> R]
  <2>1. \A i \in 1 .. N : g[i] \in R
    OBVIOUS
  <2> HIDE DEF R
  <2>2. QED
    BY <2>1
<1> HIDE DEF R
<1>3. g \in Seq(R)
  BY <1>2, SeqDef
<1>4. DOMAIN g = 1 .. Len(g) /\ Len(g) \in Nat
  BY <1>3, LenProperties
<1>5. 1 .. N = 1 .. Len(g)
  BY <1>1, <1>4
<1>6. Len(g) = N
  <2>1. \A k \in Nat : k \in 1 .. N <=> k \in 1 .. Len(g)
    BY <1>5
  <2>2. N >= 1 => N <= Len(g)
    BY <1>4, <2>1
  <2>3. Len(g) >= 1 => Len(g) <= N
    BY <1>4, <2>1
  <2>4. QED
    BY <1>4, <2>2, <2>3
<1>7. QED
  BY <1>1, <1>6


\* x is a nonempty sequence of at most n elements.
IsMerkleLevel(x, n) == \E N \in 1 .. n : Len(x) = N /\ x = [i \in 1 .. N |-> x[i]]

LEMMA MerkleLevelFacts ==
    ASSUME NEW S, NEW txs \in Seq(S), txs # <<>>
    PROVE  LET L == MerkleLevels(txs)
               n == Len(txs)
           IN  /\ n \in Nat \ {0}
               /\ L[1] = [i \in 1 .. n |-> HashTransaction(txs[i])]
               /\ \A k \in 2 .. n : L[k] = MerkleUp(L[k - 1])
               /\ \A k \in 1 .. n : IsMerkleLevel(L[k], n - k + 1)
               /\ DOMAIN L = 1 .. n
<1> DEFINE L == MerkleLevels(txs)
           n == Len(txs)
<1>1. n \in Nat \ {0} /\ DOMAIN txs = 1 .. n
  BY LenProperties, EmptySeq
<1>2. L = [k \in 1 .. n |-> IF k = 1 THEN [i \in DOMAIN txs |-> HashTransaction(txs[i])]
                            ELSE MerkleUp(L[k - 1])]
  BY <1>1, MerkleRuns DEF IsMerkle
<1> HIDE DEF L, n
<1>3. L[1] = [i \in 1 .. n |-> HashTransaction(txs[i])]
  <2>1. 1 \in 1 .. n
    BY <1>1
  <2>2. QED
    BY <1>1, <1>2, <2>1
<1>4. \A k \in 2 .. n : L[k] = MerkleUp(L[k - 1])
  <2> TAKE k \in 2 .. n
  <2>1. k \in 1 .. n /\ k # 1
    BY <1>1
  <2>2. QED
    BY <1>2, <2>1
<1> DEFINE Bad == {k \in 1 .. n : ~ IsMerkleLevel(L[k], n - k + 1)}
<1>5. Bad = {}
  <2> SUFFICES ASSUME Bad # {} PROVE FALSE
    OBVIOUS
  <2>1. PICK k \in Bad : \A j \in Bad : k <= j
    <3>1. Bad \in SUBSET Nat
      OBVIOUS
    <3> HIDE DEF Bad
    <3>2. QED
      BY <3>1, LeastNatural
  <2>2. k \in Nat /\ k \in 1 .. n
    OBVIOUS
  <2>3. k # 1
    <3> SUFFICES ASSUME k = 1 PROVE FALSE
      OBVIOUS
    <3>1. L[1] = [i \in 1 .. n |-> L[1][i]]
      BY <1>3
    <3>2. Len(L[1]) = n
      BY <1>1, <3>1, FunctionLen
    <3>3. n \in 1 .. (n - 1 + 1)
      BY <1>1
    <3>4. IsMerkleLevel(L[1], n - 1 + 1)
      BY <3>1, <3>2, <3>3 DEF IsMerkleLevel
    <3>5. QED
      BY <3>4
  <2>4. k - 1 \in 1 .. n /\ k \in 2 .. n /\ ~(k <= k - 1)
    BY <1>1, <2>2, <2>3
  <2>5. IsMerkleLevel(L[k - 1], n - (k - 1) + 1)
    <3>1. k - 1 \notin Bad
      <4> HIDE DEF Bad
      <4>1. QED
        BY <2>1, <2>4
    <3>2. QED
      BY <2>4, <3>1
  <2>6. PICK N \in 1 .. (n - (k - 1) + 1) :
            Len(L[k - 1]) = N /\ L[k - 1] = [i \in 1 .. N |-> L[k - 1][i]]
    BY <2>5 DEF IsMerkleLevel
  <2>7. N \in Nat /\ N >= 1 /\ N <= n - k + 2
    BY <1>1, <2>2, <2>6
  <2>8. L[k] = MerkleUp(L[k - 1])
    BY <1>4, <2>4
  <2>9. CASE N = 1
    <3>1. L[k] = L[k - 1]
      BY <2>6, <2>8, <2>9 DEF MerkleUp
    <3>2. 1 \in 1 .. (n - k + 1)
      BY <1>1, <2>2
    <3>3. IsMerkleLevel(L[k], n - k + 1)
      BY <2>6, <2>9, <3>1, <3>2 DEF IsMerkleLevel
    <3>4. QED
      BY <2>1, <3>3
  <2>10. CASE N > 1
    <3> DEFINE M == (N + 1) \div 2
    <3>1. M \in Nat /\ M >= 1 /\ M <= N - 1
      BY <2>7, <2>10
    <3>2. L[k] = NextMerkleLevel(L[k - 1])
      BY <2>6, <2>8, <2>10 DEF MerkleUp
    <3>3. L[k] = [i \in 1 .. M |-> L[k][i]]
      BY <2>6, <3>2 DEF NextMerkleLevel
    <3> HIDE DEF M
    <3>4. Len(L[k]) = M
      BY <3>1, <3>3, FunctionLen
    <3>5. M \in 1 .. (n - k + 1)
      BY <1>1, <2>2, <2>7, <3>1
    <3>6. IsMerkleLevel(L[k], n - k + 1)
      BY <3>3, <3>4, <3>5 DEF IsMerkleLevel
    <3>7. QED
      BY <2>1, <3>6
  <2>11. QED
    BY <2>7, <2>9, <2>10
<1>6. \A k \in 1 .. n : IsMerkleLevel(L[k], n - k + 1)
  BY <1>5
<1>7. DOMAIN L = 1 .. n
  BY <1>2
<1>8. QED
  BY <1>1, <1>3, <1>4, <1>6, <1>7 DEF L, n


\* The levels shrink to a single node at some level m and stay there.
LEMMA MerkleDepth ==
    ASSUME NEW S, NEW txs \in Seq(S), txs # <<>>
    PROVE  LET L == MerkleLevels(txs)
               n == Len(txs)
           IN  \E m \in 1 .. n :
                   /\ Cardinality({k \in DOMAIN L : Len(L[k]) > 1}) = m - 1
                   /\ Len(L[m]) = 1
                   /\ L[n] = L[m]
                   /\ \A k \in 1 .. (m - 1) : /\ Len(L[k]) \in Nat
                                              /\ Len(L[k]) > 1
                                              /\ L[k + 1] = NextMerkleLevel(L[k])
<1> DEFINE L == MerkleLevels(txs)
           n == Len(txs)
           Single == {k \in 1 .. n : Len(L[k]) = 1}
<1>1. /\ n \in Nat \ {0}
      /\ \A k \in 2 .. n : L[k] = MerkleUp(L[k - 1])
      /\ \A k \in 1 .. n : IsMerkleLevel(L[k], n - k + 1)
      /\ DOMAIN L = 1 .. n
  BY MerkleLevelFacts
<1> HIDE DEF L, n
<1>2. \A k \in 1 .. n : Len(L[k]) \in Nat /\ Len(L[k]) >= 1
  <2> TAKE k \in 1 .. n
  <2>1. PICK M : M = n - k + 1
    OBVIOUS
  <2>2. M \in Nat /\ IsMerkleLevel(L[k], M)
    BY <1>1, <2>1
  <2>3. QED
    BY <2>2 DEF IsMerkleLevel
<1>3. n \in Single
  <2>1. n \in 1 .. n /\ n - n + 1 = 1
    BY <1>1
  <2>2. IsMerkleLevel(L[n], 1)
    BY <1>1, <2>1
  <2>3. Len(L[n]) = 1
    BY <2>2 DEF IsMerkleLevel
  <2>4. QED
    BY <2>1, <2>3
<1>4. PICK m \in Single : \A j \in Single : m <= j
  <2>1. Single \in SUBSET Nat
    OBVIOUS
  <2> HIDE DEF Single
  <2>2. QED
    BY <1>3, <2>1, LeastNatural
<1>5. m \in 1 .. n /\ m \in Nat /\ Len(L[m]) = 1
  BY <1>1
<1>6. \A k \in 1 .. (m - 1) : k \in 1 .. n /\ Len(L[k]) > 1
  <2> TAKE k \in 1 .. (m - 1)
  <2>1. k \in 1 .. n /\ ~(m <= k)
    BY <1>1, <1>5
  <2>2. k \notin Single
    <3> HIDE DEF Single
    <3>1. QED
      BY <1>4, <2>1
  <2>3. Len(L[k]) # 1
    BY <2>1, <2>2
  <2>4. PICK N \in Nat : N = Len(L[k]) /\ N >= 1
    BY <1>2, <2>1
  <2> HIDE DEF Single
  <2>5. N # 1
    BY <2>3, <2>4
  <2>6. N \in Nat /\ N >= 1
    BY <2>4
  <2>7. N > 1
    BY <2>5, <2>6
  <2>8. QED
    BY <2>1, <2>4, <2>7
<1>7. \A k \in 1 .. (m - 1) : L[k + 1] = NextMerkleLevel(L[k])
  <2> TAKE k \in 1 .. (m - 1)
  <2>1. k + 1 \in 2 .. n /\ (k + 1) - 1 = k
    BY <1>1, <1>5
  <2>2. L[k + 1] = MerkleUp(L[k])
    BY <1>1, <2>1
  <2>3. QED
    BY <1>6, <2>2 DEF MerkleUp
<1>8. \A j \in m .. n : L[j] = L[m]
  <2> DEFINE Bad == {j \in m .. n : L[j] # L[m]}
  <2> SUFFICES ASSUME Bad # {} PROVE FALSE
    OBVIOUS
  <2>1. PICK j \in Bad : \A i \in Bad : j <= i
    <3>1. Bad \in SUBSET Nat
      BY <1>1, <1>5
    <3> HIDE DEF Bad
    <3>2. QED
      BY <3>1, LeastNatural
  <2>2. j \in Nat /\ j \in m .. n /\ j # m
    BY <1>1, <1>5
  <2>3. j - 1 \in m .. n /\ j \in 2 .. n /\ ~(j <= j - 1)
    BY <1>1, <1>5, <2>2
  <2>4. L[j - 1] = L[m]
    <3>1. j - 1 \notin Bad
      <4> HIDE DEF Bad
      <4>1. QED
        BY <2>1, <2>3
    <3>2. QED
      BY <2>3, <3>1
  <2>5. L[j] = MerkleUp(L[j - 1])
    BY <1>1, <2>3
  <2>6. L[j] = L[m]
    BY <1>5, <2>4, <2>5 DEF MerkleUp
  <2>7. QED
    BY <2>1, <2>6
<1>9. {k \in DOMAIN L : Len(L[k]) > 1} = 1 .. (m - 1)
  <2>1. ASSUME NEW k \in 1 .. n, Len(L[k]) > 1 PROVE k \in 1 .. (m - 1)
    <3>1. k \notin m .. n
      <4>1. k \in m .. n => Len(L[k]) = 1
        BY <1>5, <1>8
      <4> HIDE DEF Single
      <4>2. Len(L[k]) # 1
        <5>1. ~(1 > 1)
          OBVIOUS
        <5>2. QED
          BY <2>1, <5>1
      <4>3. QED
        BY <4>1, <4>2
    <3>2. QED
      BY <1>1, <1>5, <3>1
  <2>2. QED
    BY <1>1, <1>6, <2>1
<1>10. Cardinality(1 .. (m - 1)) = m - 1
  <2>1. m - 1 \in Nat
    BY <1>5
  <2>2. PICK d \in Nat : d = m - 1
    BY <2>1
  <2>3. Cardinality(1 .. d) = d
    BY <2>2, FS_Interval
  <2>4. QED
    BY <2>2, <2>3
<1>11. L[n] = L[m]
  <2>1. n \in m .. n
    BY <1>1, <1>5
  <2>2. QED
    BY <1>8, <2>1
<1>12. QED
  BY <1>2, <1>5, <1>6, <1>7, <1>9, <1>10, <1>11 DEF L, n

\* The hash of a pair is neither a transaction's nor that of another pair.
LEMMA MerkleHashesDiffer ==
    /\ \A x, y : HashTransaction(x) = HashTransaction(y) => x = y
    /\ \A x, l, r : HashTransaction(x) # HashPair(l, r)
    /\ \A a, b, c, d : HashPair(a, b) = HashPair(c, d) => a = c /\ b = d
    /\ \A x : HashTransaction(x) # <<>>
    /\ \A l, r : HashPair(l, r) # <<>>
BY DEF HashTransaction, HashPair

\* A list of N elements
IsListOf(x, N) == N \in Nat /\ Len(x) = N /\ x = [i \in 1 .. N |-> x[i]]

RightOf(x, N, p) == IF 2 * p <= N THEN x[2 * p] ELSE x[2 * p - 1]

LEMMA NextMerkleNode ==
    ASSUME NEW x, NEW N, IsListOf(x, N), N >= 1
    PROVE  /\ IsListOf(NextMerkleLevel(x), (N + 1) \div 2)
           /\ \A p \in 1 .. ((N + 1) \div 2) :
                  NextMerkleLevel(x)[p] = HashPair(x[2 * p - 1], RightOf(x, N, p))
<1>1. N \in Nat /\ Len(x) = N
  BY DEF IsListOf
<1>2. PICK M \in Nat : M = (N + 1) \div 2
  BY <1>1
<1>3. PICK g : g = NextMerkleLevel(x)
  OBVIOUS
<1>4. g = [j \in 1 .. M |-> HashPair(x[2 * j - 1], RightOf(x, N, j))]
  BY <1>1, <1>2, <1>3 DEF NextMerkleLevel, RightOf
<1>5. g = [j \in 1 .. M |-> g[j]]
  BY <1>4
<1>6. Len(g) = M
  BY <1>5, FunctionLen
<1>7. QED
  BY <1>2, <1>3, <1>4, <1>5, <1>6 DEF IsListOf

\* y is x followed by elements that repeat the one a width of W before them.
Repeats(x, N, y, M, W) ==
    /\ N <= M
    /\ \A i \in 1 .. N : y[i] = x[i]
    /\ \A j \in (N + 1) .. M : \E w \in W : w < j /\ y[j] = y[j - w]

Doubled(W) == {1} \cup {2 * w : w \in W}

\* From a level to the one below it.
LEMMA RepeatsBelow ==
    ASSUME NEW x, NEW N, IsListOf(x, N), N >= 1,
           NEW y, NEW M, IsListOf(y, M), M >= 1, N <= M, NEW W \in SUBSET (Nat \ {0}),
           Repeats(NextMerkleLevel(x), (N + 1) \div 2, NextMerkleLevel(y), (M + 1) \div 2, W)
    PROVE  Repeats(x, N, y, M, Doubled(W))
<1>1. N \in Nat /\ M \in Nat
  BY DEF IsListOf
<1>2. PICK n \in Nat, m \in Nat : n = (N + 1) \div 2 /\ m = (M + 1) \div 2
  BY <1>1
<1>3. PICK u, v : u = NextMerkleLevel(x) /\ v = NextMerkleLevel(y)
  OBVIOUS
<1>4. /\ \A p \in 1 .. n : u[p] = HashPair(x[2 * p - 1], RightOf(x, N, p))
      /\ \A p \in 1 .. m : v[p] = HashPair(y[2 * p - 1], RightOf(y, M, p))
  BY <1>2, <1>3, NextMerkleNode
<1>5. /\ n <= m
      /\ \A p \in 1 .. n : v[p] = u[p]
      /\ \A q \in (n + 1) .. m : \E w \in W : w < q /\ v[q] = v[q - w]
  BY <1>2, <1>3 DEF Repeats
<1>6. \A p \in 1 .. n : /\ y[2 * p - 1] = x[2 * p - 1]
                        /\ RightOf(y, M, p) = RightOf(x, N, p)
  <2> TAKE p \in 1 .. n
  <2>1. p \in 1 .. m
    BY <1>5
  <2>2. QED
    BY <1>4, <1>5, <2>1, MerkleHashesDiffer
<1>7. ASSUME NEW i \in 1 .. N PROVE i <= M /\ y[i] = x[i]
  <2>1. PICK p \in Nat : p = (i + 1) \div 2
    BY <1>1
  <2>2. p \in 1 .. n /\ p \in 1 .. m /\ (i = 2 * p - 1 \/ i = 2 * p) /\ 2 * p - 1 <= M
        /\ 2 * p - 1 \in 1 .. N
    BY <1>1, <1>2, <1>5, <2>1
  <2>3. CASE i = 2 * p - 1
    BY <1>6, <2>2, <2>3
  <2>4. CASE i = 2 * p
    <3>1. 2 * p <= N /\ RightOf(x, N, p) = x[i]
      BY <1>1, <2>4 DEF RightOf
    <3>2. 2 * p <= M
      BY <1>1, <2>1, <3>1
    <3>3. RightOf(y, M, p) = y[i]
      BY <2>4, <3>2 DEF RightOf
    <3>4. QED
      BY <1>6, <2>2, <2>4, <3>1, <3>2, <3>3
  <2>5. QED
    BY <2>2, <2>3, <2>4
<1>8. ASSUME NEW j \in (N + 1) .. M PROVE \E w \in Doubled(W) : w < j /\ y[j] = y[j - w]
  <2>1. PICK q \in Nat : q = (j + 1) \div 2
    BY <1>1
  <2>2. j \in Nat /\ q \in 1 .. m /\ (j = 2 * q - 1 \/ j = 2 * q)
    BY <1>1, <1>2, <2>1
  <2>3. CASE q <= n
    <3>1. q \in 1 .. n /\ j = 2 * q /\ N = 2 * q - 1 /\ 2 * q <= M /\ ~(2 * q <= N)
      BY <1>1, <1>2, <2>2, <2>3
    <3>2. RightOf(y, M, q) = y[j] /\ RightOf(x, N, q) = x[2 * q - 1]
      BY <3>1 DEF RightOf
    <3>3. y[j] = y[2 * q - 1]
      BY <1>6, <3>1, <3>2
    <3>4. 1 < j /\ j - 1 = 2 * q - 1
      BY <2>2, <3>1
    <3>5. 1 \in Doubled(W)
      BY DEF Doubled
    <3>6. QED
      BY <3>3, <3>4, <3>5
  <2>4. CASE ~(q <= n)
    <3>1. q \in (n + 1) .. m
      BY <1>2, <2>2, <2>4
    <3>2. PICK w \in W : w < q /\ v[q] = v[q - w]
      BY <1>5, <3>1
    <3>3. w \in Nat /\ w >= 1
      OBVIOUS
    <3>4. PICK r : r = q - w
      OBVIOUS
    <3>5. r \in Nat /\ r \in 1 .. m /\ r <= q - 1
      BY <1>2, <2>2, <3>2, <3>3, <3>4
    <3>6. y[2 * q - 1] = y[2 * r - 1] /\ RightOf(y, M, q) = RightOf(y, M, r)
      BY <1>4, <2>2, <3>2, <3>4, <3>5, MerkleHashesDiffer
    <3>7. 2 * w \in Doubled(W)
      BY DEF Doubled
    <3>8. 2 * w < j
      BY <2>2, <3>2, <3>3
    <3>9. CASE j = 2 * q - 1
      <4>1. j - (2 * w) = 2 * r - 1
        BY <2>2, <3>3, <3>4, <3>9
      <4>2. QED
        BY <3>6, <3>7, <3>8, <3>9, <4>1
    <3>10. CASE j = 2 * q
      <4>1. 2 * q <= M /\ 2 * r <= M /\ j - (2 * w) = 2 * r
        BY <1>1, <2>2, <3>3, <3>4, <3>5, <3>10
      <4>2. y[2 * q] = y[2 * r]
        BY <3>6, <4>1 DEF RightOf
      <4>3. QED
        BY <3>7, <3>8, <3>10, <4>1, <4>2
    <3>11. QED
      BY <2>2, <3>9, <3>10
  <2>5. QED
    BY <2>3, <2>4
<1>9. QED
  BY <1>7, <1>8 DEF Repeats

\* One of two lists is the other with repetitions at its end.
Alike(x, N, y, M, W) == Repeats(x, N, y, M, W) \/ Repeats(y, M, x, N, W)

LEMMA AlikeBelow ==
    ASSUME NEW x, NEW N, IsListOf(x, N), N >= 1,
           NEW y, NEW M, IsListOf(y, M), M >= 1, NEW W \in SUBSET (Nat \ {0}),
           Alike(NextMerkleLevel(x), (N + 1) \div 2, NextMerkleLevel(y), (M + 1) \div 2, W)
    PROVE  Alike(x, N, y, M, Doubled(W))
<1>1. N \in Nat /\ M \in Nat
  BY DEF IsListOf
<1>2. PICK n \in Nat, m \in Nat : n = (N + 1) \div 2 /\ m = (M + 1) \div 2
  BY <1>1
<1>3. PICK u, v : u = NextMerkleLevel(x) /\ v = NextMerkleLevel(y)
  OBVIOUS
<1>4. Repeats(u, n, v, m, W) \/ Repeats(v, m, u, n, W)
  BY <1>2, <1>3 DEF Alike
\* Levels of equal length repeat each other both ways.
<1>5. n = m => Repeats(u, n, v, m, W) /\ Repeats(v, m, u, n, W)
  <2> SUFFICES ASSUME n = m PROVE Repeats(u, n, v, m, W) /\ Repeats(v, m, u, n, W)
    OBVIOUS
  <2>1. \A i \in 1 .. n : u[i] = v[i]
    BY <1>4 DEF Repeats
  <2>2. (n + 1) .. n = {}
    OBVIOUS
  <2>3. QED
    BY <2>1, <2>2 DEF Repeats
<1>6. CASE N <= M
  <2>1. n <= m
    BY <1>1, <1>2, <1>6
  <2>2. Repeats(u, n, v, m, W)
    <3>1. Repeats(v, m, u, n, W) => n = m
      BY <2>1 DEF Repeats
    <3>2. QED
      BY <1>4, <1>5, <3>1
  <2>3. QED
    BY <1>2, <1>3, <1>6, <2>2, RepeatsBelow DEF Alike
<1>7. CASE ~(N <= M)
  <2>1. m <= n /\ M <= N
    BY <1>1, <1>2, <1>7
  <2>2. Repeats(v, m, u, n, W)
    <3>1. Repeats(u, n, v, m, W) => n = m
      BY <2>1 DEF Repeats
    <3>2. QED
      BY <1>4, <1>5, <3>1
  <2>3. QED
    BY <1>2, <1>3, <2>1, <2>2, RepeatsBelow DEF Alike
<1>8. QED
  BY <1>6, <1>7

\* The widths of doubled nodes: the powers of two
IsWidth(n, f) == f = [k \in 0 .. n |-> IF k = 0 THEN 1 ELSE 2 * f[k - 1]]

LEMMA WidthExists ==
    ASSUME NEW n \in Nat, n >= 0
    PROVE  \E f : IsWidth(n, f)
<1> DEFINE Bad == {m \in 0 .. n : ~ \E f : IsWidth(m, f)}
<1> SUFFICES ASSUME Bad # {} PROVE FALSE
  <2>1. n \in 0 .. n
    OBVIOUS
  <2>2. QED
    BY <2>1
<1>1. PICK m \in Bad : \A j \in Bad : m <= j
  <2>1. Bad \in SUBSET Nat
    OBVIOUS
  <2> HIDE DEF Bad
  <2>2. QED
    BY <2>1, LeastNatural
<1>2. m \in Nat /\ m \in 0 .. n
  OBVIOUS
<1>3. m # 0
  <2> SUFFICES ASSUME m = 0 PROVE FALSE
    OBVIOUS
  <2> DEFINE f == [k \in 0 .. 0 |-> 1]
  <2>1. \A k \in 0 .. 0 : k = 0
    OBVIOUS
  <2>2. f = [k \in 0 .. 0 |-> IF k = 0 THEN 1 ELSE 2 * f[k - 1]]
    BY <2>1
  <2>3. IsWidth(0, f)
    BY <2>2 DEF IsWidth
  <2>4. QED
    BY <2>3
<1>4. m - 1 \in 0 .. n /\ m - 1 \notin Bad
  <2>1. m - 1 \in 0 .. n /\ ~(m <= m - 1)
    BY <1>2, <1>3
  <2> HIDE DEF Bad
  <2>2. QED
    BY <1>1, <2>1
<1>5. PICK f : IsWidth(m - 1, f)
  BY <1>4
<1> DEFINE E(k, g) == IF k = 0 THEN 1 ELSE 2 * g[k - 1]
           g == [k \in 0 .. m |-> IF k = m THEN 2 * f[m - 1] ELSE f[k]]
<1>6. \A k \in 0 .. (m - 1) : f[k] = E(k, f)
  BY <1>5 DEF IsWidth
<1>7. ASSUME NEW k \in 0 .. m PROVE g[k] = E(k, g)
  <2>1. CASE k = m
    <3>1. m - 1 \in 0 .. m /\ m - 1 # m /\ m # 0
      BY <1>2, <1>3
    <3>2. g[m - 1] = f[m - 1] /\ g[m] = 2 * f[m - 1]
      BY <3>1
    <3> HIDE DEF g
    <3>3. QED
      BY <2>1, <3>1, <3>2
  <2>2. CASE k # m /\ k = 0
    <3>1. k \in 0 .. (m - 1)
      BY <1>2, <1>3, <2>2
    <3>2. g[k] = f[k]
      BY <2>2
    <3>3. f[k] = 1
      BY <1>6, <2>2, <3>1
    <3> HIDE DEF g
    <3>4. QED
      BY <2>2, <3>2, <3>3
  <2>3. CASE k # m /\ k # 0
    <3>1. k \in 0 .. (m - 1) /\ k - 1 \in 0 .. m /\ k - 1 # m
      BY <1>2, <1>3, <2>3
    <3>2. g[k] = f[k] /\ g[k - 1] = f[k - 1]
      BY <2>3, <3>1
    <3>3. f[k] = 2 * f[k - 1]
      BY <1>6, <2>3, <3>1
    <3> HIDE DEF g
    <3>4. QED
      BY <2>3, <3>2, <3>3
  <2>4. QED
    BY <2>1, <2>2, <2>3
<1>8. g = [k \in 0 .. m |-> E(k, g)]
  BY <1>7
<1>9. IsWidth(m, g)
  <2> HIDE DEF g
  <2>1. QED
    BY <1>8 DEF IsWidth
<1>10. QED
  BY <1>9


LEMMA WidthFacts ==
    ASSUME NEW n \in Nat, NEW f, IsWidth(n, f)
    PROVE  /\ \A k \in 0 .. n : f[k] \in Nat \ {0}
           /\ f[0] = 1
           /\ \A k \in 1 .. n : f[k] = 2 * f[k - 1]
<1>1. f[0] = 1 /\ \A k \in 1 .. n : f[k] = 2 * f[k - 1]
  <2>1. 0 \in 0 .. n /\ \A k \in 1 .. n : k \in 0 .. n /\ k # 0
    OBVIOUS
  <2>2. QED
    BY <2>1 DEF IsWidth
<1> DEFINE Bad == {k \in 0 .. n : ~(f[k] \in Nat \ {0})}
<1>2. Bad = {}
  <2> SUFFICES ASSUME Bad # {} PROVE FALSE
    OBVIOUS
  <2>1. PICK k \in Bad : \A j \in Bad : k <= j
    <3>1. Bad \in SUBSET Nat
      OBVIOUS
    <3> HIDE DEF Bad
    <3>2. QED
      BY <3>1, LeastNatural
  <2>2. k \in Nat /\ k \in 0 .. n /\ ~(f[k] \in Nat \ {0})
    OBVIOUS
  <2>3. CASE k = 0
    BY <1>1, <2>2, <2>3
  <2>4. CASE k # 0
    <3>1. k \in 1 .. n /\ k - 1 \in 0 .. n /\ ~(k <= k - 1)
      BY <2>2, <2>4
    <3>2. k - 1 \notin Bad
      <4> HIDE DEF Bad
      <4>1. QED
        BY <2>1, <3>1
    <3>3. PICK w \in Nat \ {0} : w = f[k - 1]
      BY <3>1, <3>2
    <3>4. 2 * w \in Nat \ {0}
      OBVIOUS
    <3>5. QED
      BY <1>1, <2>2, <3>1, <3>3, <3>4
  <2>5. QED
    BY <2>3, <2>4
<1>3. QED
  BY <1>1, <1>2

\* L are the levels over txs, of which the one numbered d is the root.
IsMerkleTree(txs, d, L) ==
    /\ L[1] = [i \in 1 .. Len(txs) |-> HashTransaction(txs[i])]
    /\ \A k \in 1 .. d : IsListOf(L[k], Len(L[k])) /\ Len(L[k]) >= 1
    /\ \A k \in 1 .. (d - 1) : L[k + 1] = NextMerkleLevel(L[k])
    /\ Len(L[d]) = 1
    /\ CalculateMerkleRoot(txs) = L[d][1]

LEMMA MerkleTree ==
    ASSUME NEW S, NEW txs \in Seq(S), txs # <<>>
    PROVE  \E d \in 1 .. Len(txs) : \E L : IsMerkleTree(txs, d, L)
<1>1. PICK L : L = MerkleLevels(txs)
  OBVIOUS
<1>2. PICK n : n = Len(txs)
  OBVIOUS
<1>3. /\ n \in Nat \ {0}
      /\ L[1] = [i \in 1 .. n |-> HashTransaction(txs[i])]
      /\ \A k \in 1 .. n : IsMerkleLevel(L[k], n - k + 1)
  BY <1>1, <1>2, MerkleLevelFacts
<1>4. PICK d \in 1 .. n :
          /\ Len(L[d]) = 1
          /\ L[n] = L[d]
          /\ \A k \in 1 .. (d - 1) : L[k + 1] = NextMerkleLevel(L[k])
  BY <1>1, <1>2, MerkleDepth
<1>5. \A k \in 1 .. d : IsListOf(L[k], Len(L[k])) /\ Len(L[k]) >= 1
  <2> TAKE k \in 1 .. d
  <2>1. k \in 1 .. n
    BY <1>3
  <2>2. PICK m : m = n - k + 1
    OBVIOUS
  <2>3. m \in Nat /\ IsMerkleLevel(L[k], m)
    BY <1>3, <2>1, <2>2
  <2>4. QED
    BY <2>3 DEF IsMerkleLevel, IsListOf
<1>6. CalculateMerkleRoot(txs) = L[d][1]
  BY <1>1, <1>2, <1>3, <1>4, MerkleRuns
<1>7. QED
  BY <1>2, <1>3, <1>4, <1>5, <1>6 DEF IsMerkleTree

\* Of two lists with one root the longer is the shorter with a repeated end.
LEMMA MerkleCommits ==
    ASSUME NEW S, NEW a \in Seq(S), NEW b \in Seq(S), a # <<>>, b # <<>>,
           Len(a) <= Len(b), CalculateMerkleRoot(a) = CalculateMerkleRoot(b),
           NEW width, IsWidth(Len(b), width)
    PROVE  Repeats(a, Len(a), b, Len(b), {width[e] : e \in 0 .. Len(b)})
<1>1. Len(a) \in Nat /\ Len(b) \in Nat
  BY LenProperties
<1>c. PICK c \in 1 .. Len(a) : \E L : IsMerkleTree(a, c, L)
  BY MerkleTree
<1>L. PICK L : IsMerkleTree(a, c, L)
  BY <1>c
<1>d. PICK d \in 1 .. Len(b) : \E K : IsMerkleTree(b, d, K)
  BY MerkleTree
<1>K. PICK K : IsMerkleTree(b, d, K)
  BY <1>d
<1>2. /\ L[1] = [i \in 1 .. Len(a) |-> HashTransaction(a[i])]
      /\ \A k \in 1 .. c : IsListOf(L[k], Len(L[k])) /\ Len(L[k]) >= 1
      /\ \A k \in 1 .. (c - 1) : L[k + 1] = NextMerkleLevel(L[k])
      /\ Len(L[c]) = 1
      /\ CalculateMerkleRoot(a) = L[c][1]
  BY <1>L DEF IsMerkleTree
<1>3. /\ K[1] = [i \in 1 .. Len(b) |-> HashTransaction(b[i])]
      /\ \A k \in 1 .. d : IsListOf(K[k], Len(K[k])) /\ Len(K[k]) >= 1
      /\ \A k \in 1 .. (d - 1) : K[k + 1] = NextMerkleLevel(K[k])
      /\ Len(K[d]) = 1
      /\ CalculateMerkleRoot(b) = K[d][1]
  BY <1>K DEF IsMerkleTree
<1>4. c \in Nat /\ d \in Nat /\ c >= 1 /\ d >= 1
  BY <1>1
<1>5. Len(L[1]) = Len(a) /\ Len(K[1]) = Len(b)
  <2>1. L[1] = [i \in 1 .. Len(a) |-> L[1][i]] /\ K[1] = [i \in 1 .. Len(b) |-> K[1][i]]
    BY <1>2, <1>3
  <2>2. PICK x, y : x = L[1] /\ y = K[1]
    OBVIOUS
  <2>3. x = [i \in 1 .. Len(a) |-> x[i]] /\ y = [i \in 1 .. Len(b) |-> y[i]]
    BY <2>1, <2>2
  <2>4. Len(x) = Len(a) /\ Len(y) = Len(b)
    BY <1>1, <2>3, FunctionLen
  <2>5. QED
    BY <2>2, <2>4
<1> DEFINE m == IF c <= d THEN c ELSE d
           W(i) == {width[e] : e \in 0 .. (i - 1)}
           Agree(i) == Alike(L[c - i], Len(L[c - i]), K[d - i], Len(K[d - i]), W(i))
<1>7. m \in Nat /\ m >= 1 /\ m <= c /\ m <= d /\ (m = c \/ m = d)
  BY <1>4
<1> HIDE DEF m
<1>8. /\ \A k \in 0 .. Len(b) : width[k] \in Nat \ {0}
      /\ width[0] = 1
      /\ \A k \in 1 .. Len(b) : width[k] = 2 * width[k - 1]
  BY <1>1, WidthFacts
<1>9. Agree(0)
  <2>1. c - 0 = c /\ d - 0 = d
    BY <1>4
  <2>2. L[c][1] = K[d][1]
    BY <1>2, <1>3
  <2>3. \A i \in 1 .. 1 : i = 1
    OBVIOUS
  <2>4. (1 + 1) .. 1 = {}
    OBVIOUS
  <2>5. Repeats(L[c], 1, K[d], 1, W(0))
    BY <2>2, <2>3, <2>4 DEF Repeats
  <2>6. QED
    BY <1>2, <1>3, <2>1, <2>5 DEF Alike
<1>10. ASSUME NEW i \in 1 .. (m - 1), Agree(i - 1) PROVE Agree(i)
  <2>1. /\ i \in Nat /\ c - i \in 1 .. c /\ c - i \in 1 .. (c - 1) /\ (c - i) + 1 = c - (i - 1)
        /\ d - i \in 1 .. d /\ d - i \in 1 .. (d - 1) /\ (d - i) + 1 = d - (i - 1)
        /\ i - 1 \in Nat /\ i - 1 <= Len(b)
    BY <1>1, <1>4, <1>7
  <2>2. PICK x, N, y, M : /\ x = L[c - i] /\ N = Len(L[c - i])
                          /\ y = K[d - i] /\ M = Len(K[d - i])
    OBVIOUS
  <2>3. /\ IsListOf(x, N) /\ N >= 1
        /\ IsListOf(y, M) /\ M >= 1
    BY <1>2, <1>3, <2>1, <2>2
  <2>4. L[c - (i - 1)] = NextMerkleLevel(x) /\ K[d - (i - 1)] = NextMerkleLevel(y)
    BY <1>2, <1>3, <2>1, <2>2
  <2>5. /\ Len(NextMerkleLevel(x)) = (N + 1) \div 2
        /\ Len(NextMerkleLevel(y)) = (M + 1) \div 2
    BY <2>3, NextMerkleNode DEF IsListOf
  <2>6. PICK V : V = W(i - 1)
    OBVIOUS
  <2>7. V \in SUBSET (Nat \ {0})
    <3>1. \A e \in 0 .. ((i - 1) - 1) : e \in 0 .. Len(b)
      BY <1>1, <2>1
    <3>2. QED
      BY <1>8, <2>6, <3>1
  <2>8. Alike(NextMerkleLevel(x), (N + 1) \div 2, NextMerkleLevel(y), (M + 1) \div 2, V)
    BY <1>10, <2>4, <2>5, <2>6
  <2>9. Alike(x, N, y, M, Doubled(V))
    BY <2>3, <2>7, <2>8, AlikeBelow
  <2>10. Doubled(V) \subseteq W(i)
    <3>1. 0 \in 0 .. (i - 1)
      BY <2>1
    <3>2. 1 \in W(i)
      BY <1>8, <3>1
    <3>3. ASSUME NEW e \in 0 .. ((i - 1) - 1) PROVE 2 * width[e] \in W(i)
      <4>1. e + 1 \in 0 .. (i - 1) /\ e + 1 \in 1 .. Len(b) /\ (e + 1) - 1 = e
        BY <1>1, <2>1
      <4>2. width[e + 1] = 2 * width[e]
        BY <1>8, <4>1
      <4>3. QED
        BY <4>1, <4>2
    <3>4. QED
      BY <2>6, <3>2, <3>3 DEF Doubled
  <2>11. Alike(x, N, y, M, W(i))
    <3> HIDE DEF W
    <3>1. Repeats(x, N, y, M, Doubled(V)) => Repeats(x, N, y, M, W(i))
      BY <2>10 DEF Repeats
    <3>2. Repeats(y, M, x, N, Doubled(V)) => Repeats(y, M, x, N, W(i))
      BY <2>10 DEF Repeats
    <3>3. QED
      BY <2>9, <3>1, <3>2 DEF Alike
  <2>12. QED
    BY <2>2, <2>11
<1>11. Agree(m - 1)
  <2> DEFINE Bad == {i \in 0 .. (m - 1) : ~Agree(i)}
  <2> HIDE DEF Agree
  <2> SUFFICES ASSUME Bad # {} PROVE FALSE
    <3>1. m - 1 \in 0 .. (m - 1)
      BY <1>7
    <3>2. QED
      BY <3>1
  <2>1. PICK i \in Bad : \A j \in Bad : i <= j
    <3>1. Bad \in SUBSET Nat
      BY <1>7
    <3> HIDE DEF Bad
    <3>2. QED
      BY <3>1, LeastNatural
  <2>2. i \in Nat /\ i \in 0 .. (m - 1) /\ ~Agree(i) /\ i # 0
    BY <1>7, <1>9
  <2>3. i \in 1 .. (m - 1) /\ i - 1 \in 0 .. (m - 1) /\ ~(i <= i - 1)
    BY <1>7, <2>2
  <2>4. i - 1 \notin Bad
    <3> HIDE DEF Bad
    <3>1. QED
      BY <2>1, <2>3
  <2>5. QED
    BY <1>10, <2>2, <2>3, <2>4
<1>12. PICK x, y, N, M : /\ x = L[c - (m - 1)] /\ N = Len(x)
                         /\ y = K[d - (m - 1)] /\ M = Len(y)
  OBVIOUS
<1>13. Alike(x, N, y, M, W(m - 1))
  BY <1>11, <1>12
<1>14. N >= 1 /\ N \in Nat /\ M >= 1 /\ M \in Nat
  <2>1. c - (m - 1) \in 1 .. c /\ d - (m - 1) \in 1 .. d
    BY <1>4, <1>7
  <2>2. QED
    BY <1>2, <1>3, <1>12, <2>1 DEF IsListOf
<1>15. x[1] = y[1]
  <2>1. 1 \in 1 .. N /\ 1 \in 1 .. M
    BY <1>14
  <2>2. QED
    BY <1>13, <2>1 DEF Alike, Repeats
\* A level above the transactions begins with the hash of a pair.
<1>16. \A k \in 2 .. c : \E l, r : L[k][1] = HashPair(l, r)
  <2> TAKE k \in 2 .. c
  <2>1. k - 1 \in 1 .. c /\ k - 1 \in 1 .. (c - 1) /\ (k - 1) + 1 = k
    BY <1>4
  <2>2. PICK z, n : z = L[k - 1] /\ n = Len(z)
    OBVIOUS
  <2>3. IsListOf(z, n) /\ n >= 1 /\ L[k] = NextMerkleLevel(z) /\ n \in Nat
    BY <1>2, <2>1, <2>2 DEF IsListOf
  <2>4. 1 \in 1 .. ((n + 1) \div 2)
    BY <2>3
  <2>5. NextMerkleLevel(z)[1] = HashPair(z[2 * 1 - 1], RightOf(z, n, 1))
    BY <2>3, <2>4, NextMerkleNode
  <2>6. QED
    BY <2>3, <2>5
<1>17. \A k \in 2 .. d : \E l, r : K[k][1] = HashPair(l, r)
  <2> TAKE k \in 2 .. d
  <2>1. k - 1 \in 1 .. d /\ k - 1 \in 1 .. (d - 1) /\ (k - 1) + 1 = k
    BY <1>4
  <2>2. PICK z, n : z = K[k - 1] /\ n = Len(z)
    OBVIOUS
  <2>3. IsListOf(z, n) /\ n >= 1 /\ K[k] = NextMerkleLevel(z) /\ n \in Nat
    BY <1>3, <2>1, <2>2 DEF IsListOf
  <2>4. 1 \in 1 .. ((n + 1) \div 2)
    BY <2>3
  <2>5. NextMerkleLevel(z)[1] = HashPair(z[2 * 1 - 1], RightOf(z, n, 1))
    BY <2>3, <2>4, NextMerkleNode
  <2>6. QED
    BY <2>3, <2>5
<1>18. L[1][1] = HashTransaction(a[1]) /\ K[1][1] = HashTransaction(b[1])
  <2>1. 1 \in 1 .. Len(a) /\ 1 \in 1 .. Len(b)
    BY <1>1, <1>2, <1>3, <1>4
  <2>2. QED
    BY <1>2, <1>3, <2>1
<1>19. c = d
  <2>1. CASE c < d
    <3>1. m = c /\ c - (m - 1) = 1 /\ d - (m - 1) \in 2 .. d
      BY <1>4, <1>7, <2>1
    <3>2. QED
      BY <1>12, <1>15, <1>17, <1>18, <3>1, MerkleHashesDiffer
  <2>2. CASE d < c
    <3>1. m = d /\ d - (m - 1) = 1 /\ c - (m - 1) \in 2 .. c
      BY <1>4, <1>7, <2>2
    <3>2. QED
      BY <1>12, <1>15, <1>16, <1>18, <3>1, MerkleHashesDiffer
  <2>3. QED
    BY <1>4, <2>1, <2>2
<1>20. c - (m - 1) = 1 /\ d - (m - 1) = 1 /\ m <= Len(b)
  BY <1>1, <1>4, <1>7, <1>19
<1>21. x = L[1] /\ y = K[1] /\ N = Len(a) /\ M = Len(b)
  BY <1>5, <1>12, <1>20
<1>22. /\ \A i \in 1 .. Len(a) : x[i] = HashTransaction(a[i])
       /\ \A i \in 1 .. Len(b) : y[i] = HashTransaction(b[i])
  BY <1>2, <1>3, <1>21
<1>23. W(m - 1) \subseteq {width[e] : e \in 0 .. Len(b)}
  <2>1. \A e \in 0 .. ((m - 1) - 1) : e \in 0 .. Len(b)
    BY <1>1, <1>7, <1>20
  <2>2. QED
    BY <2>1
<1>24. /\ Len(a) <= Len(b)
       /\ \A i \in 1 .. Len(a) : y[i] = x[i]
       /\ \A j \in (Len(a) + 1) .. Len(b) : \E w \in W(m - 1) : w < j /\ y[j] = y[j - w]
  <2> HIDE DEF W
  <2>1. N <= M
    BY <1>21
  <2>2. Repeats(y, M, x, N, W(m - 1)) => Repeats(x, N, y, M, W(m - 1))
    <3> SUFFICES ASSUME Repeats(y, M, x, N, W(m - 1)) PROVE Repeats(x, N, y, M, W(m - 1))
      OBVIOUS
    <3>1. N = M /\ \A i \in 1 .. N : y[i] = x[i]
      BY <1>14, <2>1 DEF Repeats
    <3>2. (N + 1) .. N = {}
      BY <1>14
    <3>3. QED
      BY <3>1, <3>2, <1>14 DEF Repeats
  <2>3. Repeats(x, N, y, M, W(m - 1))
    BY <1>13, <2>2 DEF Alike
  <2>4. QED
    BY <1>21, <2>3 DEF Repeats
<1>25. \A i \in 1 .. Len(a) : b[i] = a[i]
  <2> TAKE i \in 1 .. Len(a)
  <2>1. i \in 1 .. Len(b)
    BY <1>1, <1>24
  <2>2. QED
    BY <1>22, <1>24, <2>1, MerkleHashesDiffer
<1>26. ASSUME NEW j \in (Len(a) + 1) .. Len(b)
       PROVE  \E w \in {width[e] : e \in 0 .. Len(b)} : w < j /\ b[j] = b[j - w]
  <2>1. PICK w \in W(m - 1) : w < j /\ y[j] = y[j - w]
    BY <1>24
  <2>2. w \in {width[e] : e \in 0 .. Len(b)}
    BY <1>23, <2>1
  <2>3. w \in Nat \ {0}
    BY <1>8, <2>2
  <2>4. j \in 1 .. Len(b) /\ j - w \in 1 .. Len(b)
    BY <1>1, <2>1, <2>3
  <2>5. b[j] = b[j - w]
    BY <1>22, <2>1, <2>4, MerkleHashesDiffer
  <2>6. QED
    BY <2>1, <2>2, <2>5
<1>27. QED
  BY <1>24, <1>25, <1>26 DEF Repeats

\* What is committed is what RepeatsTail allows, and no transaction is missing or new.
LEMMA RootCommits ==
    ASSUME NEW S, NEW a \in Seq(S), NEW b \in Seq(S), Len(a) <= Len(b),
           CalculateMerkleRoot(a) = CalculateMerkleRoot(b)
    PROVE  RepeatsTail(a, b) /\ ToSet(a) = ToSet(b)
<1>1. Len(a) \in Nat /\ Len(b) \in Nat
  BY LenProperties
<1>2. PICK width : width = CHOOSE f : IsWidth(Len(b), f)
  OBVIOUS
<1>3. IsWidth(Len(b), width)
  <2>1. Len(b) >= 0
    BY <1>1
  <2>2. \E f : IsWidth(Len(b), f)
    BY <1>1, <2>1, WidthExists
  <2>3. QED
    BY <1>2, <2>2
<1>4. RepeatsTail(a, b) <=>
          /\ IsPrefix(a, b)
          /\ \A j \in (Len(a) + 1) .. Len(b) :
                 \E e \in 0 .. Len(b) : width[e] < j /\ b[j] = b[j - width[e]]
  BY <1>2 DEF RepeatsTail, IsWidth
<1>5. ASSUME NEW txs \in Seq(S), txs # <<>> PROVE CalculateMerkleRoot(txs) # <<>>
  <2>d. PICK d \in 1 .. Len(txs) : \E L : IsMerkleTree(txs, d, L)
    BY <1>5, MerkleTree
  <2>L. PICK L : IsMerkleTree(txs, d, L)
    BY <2>d
  <2>1. /\ L[1] = [i \in 1 .. Len(txs) |-> HashTransaction(txs[i])]
        /\ \A k \in 1 .. d : IsListOf(L[k], Len(L[k])) /\ Len(L[k]) >= 1
        /\ \A k \in 1 .. (d - 1) : L[k + 1] = NextMerkleLevel(L[k])
        /\ CalculateMerkleRoot(txs) = L[d][1]
    BY <2>L DEF IsMerkleTree
  <2>2. Len(txs) \in Nat /\ d \in Nat /\ 1 \in 1 .. Len(txs)
    BY LenProperties
  <2>3. CASE d = 1
    <3>1. L[1][1] = HashTransaction(txs[1])
      BY <2>1, <2>2
    <3>2. QED
      BY <2>1, <2>3, <3>1, MerkleHashesDiffer
  <2>4. CASE d # 1
    <3>1. d - 1 \in 1 .. d /\ d - 1 \in 1 .. (d - 1) /\ (d - 1) + 1 = d
      BY <2>2, <2>4
    <3>2. PICK z, n : z = L[d - 1] /\ n = Len(z)
      OBVIOUS
    <3>3. IsListOf(z, n) /\ n >= 1 /\ L[d] = NextMerkleLevel(z) /\ n \in Nat
      BY <2>1, <3>1, <3>2 DEF IsListOf
    <3>4. 1 \in 1 .. ((n + 1) \div 2)
      BY <3>3
    <3>5. NextMerkleLevel(z)[1] = HashPair(z[2 * 1 - 1], RightOf(z, n, 1))
      BY <3>3, <3>4, NextMerkleNode
    <3>6. QED
      BY <2>1, <3>3, <3>5, MerkleHashesDiffer
  <2>5. QED
    BY <2>3, <2>4
<1>6. CASE a = <<>> \/ b = <<>>
  <2>1. CalculateMerkleRoot(<<>>) = <<>>
    BY DEF CalculateMerkleRoot
  <2>2. a = <<>> /\ b = <<>>
    BY <1>5, <1>6, <2>1
  <2>3. Len(a) = 0 /\ Len(b) = 0
    BY <2>2
  <2>4. IsPrefix(a, b)
    BY <2>2, <2>3 DEF IsPrefix
  <2>5. (0 + 1) .. 0 = {} /\ ToSet(a) = ToSet(b)
    BY <2>2
  <2>6. QED
    BY <1>4, <2>3, <2>4, <2>5
<1>7. CASE a # <<>> /\ b # <<>>
  <2>1. Repeats(a, Len(a), b, Len(b), {width[e] : e \in 0 .. Len(b)})
    <3>1. a # <<>> /\ b # <<>> /\ IsWidth(Len(b), width)
      BY <1>3, <1>7
    <3>2. QED
      BY <3>1, MerkleCommits
  <2>2. /\ Len(a) <= Len(b)
        /\ \A i \in 1 .. Len(a) : b[i] = a[i]
        /\ \A j \in (Len(a) + 1) .. Len(b) :
               \E w \in {width[e] : e \in 0 .. Len(b)} : w < j /\ b[j] = b[j - w]
    BY <2>1 DEF Repeats
  <2>3. IsPrefix(a, b)
    <3>1. PICK n \in Nat : n = Len(a)
      BY <1>1
    <3>2. \A i \in 1 .. n : a[i] \in S /\ b[i] \in S
      <4>1. \A i \in 1 .. n : i \in 1 .. Len(a) /\ i \in 1 .. Len(b)
        BY <1>1, <2>2, <3>1
      <4>2. QED
        BY <4>1, ElementOfSeq
    <3>3. PICK s, t : s = SubSeq(a, 1, n) /\ t = SubSeq(b, 1, n)
      OBVIOUS
    <3>4. /\ s \in Seq(S) /\ Len(s) = IF 1 <= n THEN n - 1 + 1 ELSE 0
          /\ \A i \in 1 .. (n - 1 + 1) : s[i] = a[1 + i - 1]
      BY <3>2, <3>3, SubSeqProperties
    <3>5. /\ t \in Seq(S) /\ Len(t) = IF 1 <= n THEN n - 1 + 1 ELSE 0
          /\ \A i \in 1 .. (n - 1 + 1) : t[i] = b[1 + i - 1]
      BY <3>2, <3>3, SubSeqProperties
    <3>6. n - 1 + 1 = n /\ (IF 1 <= n THEN n - 1 + 1 ELSE 0) = n
          /\ \A i \in 1 .. n : 1 + i - 1 = i
      OBVIOUS
    <3>7. \A i \in 1 .. n : s[i] = t[i]
      BY <2>2, <3>1, <3>4, <3>5, <3>6
    <3>8. s = t
      <4>1. Len(s) = n /\ Len(t) = n
        BY <3>4, <3>5, <3>6
      <4>2. QED
        BY <3>4, <3>5, <3>7, <4>1, SeqEqual
    <3>9. QED
      BY <2>2, <3>1, <3>3, <3>8 DEF IsPrefix
  <2>4. \A w \in {width[e] : e \in 0 .. Len(b)} : w \in Nat \ {0}
    BY <1>1, <1>3, WidthFacts
  <2>5. PICK W : W = {width[e] : e \in 0 .. Len(b)}
    OBVIOUS
  <2>6. \A j \in 1 .. Len(b) : b[j] \in ToSet(a)
    <3> DEFINE Bad == {j \in 1 .. Len(b) : b[j] \notin ToSet(a)}
    <3> SUFFICES ASSUME Bad # {} PROVE FALSE
      OBVIOUS
    <3>1. PICK j \in Bad : \A k \in Bad : j <= k
      <4>1. Bad \in SUBSET Nat
        BY <1>1
      <4> HIDE DEF Bad
      <4>2. QED
        BY <4>1, LeastNatural
    <3>2. j \in 1 .. Len(b) /\ j \in Nat /\ b[j] \notin ToSet(a)
      BY <1>1
    <3>3. ~(j \in 1 .. Len(a))
      <4>1. DOMAIN a = 1 .. Len(a)
        BY LenProperties
      <4>2. QED
        BY <2>2, <3>2, <4>1 DEF ToSet
    <3>4. j \in (Len(a) + 1) .. Len(b)
      BY <1>1, <3>2, <3>3
    <3>5. PICK w \in W : w < j /\ b[j] = b[j - w]
      BY <2>2, <2>5, <3>4
    <3>6. w \in Nat \ {0}
      BY <2>4, <2>5
    <3>7. j - w \in 1 .. Len(b) /\ ~(j <= j - w)
      BY <1>1, <3>2, <3>5, <3>6
    <3>8. j - w \notin Bad
      <4> HIDE DEF Bad
      <4>1. QED
        BY <3>1, <3>7
    <3>9. QED
      BY <3>2, <3>5, <3>7, <3>8
  <2>7. ToSet(a) = ToSet(b)
    <3>1. DOMAIN a = 1 .. Len(a) /\ DOMAIN b = 1 .. Len(b)
      BY LenProperties
    <3>2. \A i \in 1 .. Len(a) : i \in 1 .. Len(b) /\ a[i] = b[i]
      BY <1>1, <2>2
    <3>3. ToSet(a) \subseteq ToSet(b)
      BY <3>1, <3>2 DEF ToSet
    <3>4. ToSet(b) \subseteq ToSet(a)
      BY <2>6, <3>1 DEF ToSet
    <3>5. QED
      BY <3>3, <3>4
  <2>8. QED
    BY <1>4, <2>2, <2>3, <2>7
<1>8. QED
  BY <1>6, <1>7

\* A proposed block has a signed header that commits to its transactions; a
\* validated one has the header of a proposal and transactions with its root.
BodyInv ==
    /\ pooled \in [Proposers -> SUBSET (1 .. Len(Pool))]
    /\ \A i \in 1 .. Len(proposed) :
           LET block == proposed[i]
               header == block.header
           IN  /\ block = [header |-> header, transactions |-> block.transactions]
               /\ header.merkle_root = CalculateMerkleRoot(block.transactions)
               /\ header.signature.by = header.validator
               /\ header.signature.over = Unsigned(header)
               /\ block.transactions \in Seq(Txs)
    /\ \A n \in Nodes : \A k \in 1 .. Len(validated[n]) :
           LET block == validated[n][k]
           IN  /\ block.header = proposed[Hash(block.header)].header
               /\ block.header.merkle_root = CalculateMerkleRoot(block.transactions)
               /\ block.transactions \in Seq(Txs)

\* The lists of transactions propose_block may take.
LEMMA TakenFacts ==
    ASSUME NEW pool \in SUBSET (1 .. Len(Pool)), NEW max \in Nat,
           NEW places \in TakeForBlock(pool, max)
    PROVE  [k \in DOMAIN places |-> Pool[places[k]]] \in Seq(Txs)
<1>1. Len(Pool) \in Nat /\ \A i \in 1 .. Len(Pool) : Pool[i] \in Txs
  BY BlocksAssumption, LenProperties, ElementOfSeq
<1>2. Cardinality(pool) \in Nat
  <2>1. PICK m \in Nat : m = Len(Pool)
    BY <1>1
  <2>2. IsFiniteSet(1 .. m)
    BY <2>1, FS_Interval
  <2>3. IsFiniteSet(pool)
    BY <2>1, <2>2, FS_Subset
  <2>4. QED
    BY <2>3, FS_CardinalityType
<1>3. PICK n \in Nat : places \in [1 .. n -> pool]
  BY <1>2 DEF TakeForBlock
<1>4. [k \in DOMAIN places |-> Pool[places[k]]] \in [1 .. n -> Txs]
  BY <1>1, <1>3
<1>5. QED
  BY <1>4, SeqDef

LEMMA ProposedBodyStep ==
    ASSUME BlocksInv, BodyInv, NEW v \in Proposers, NEW parent, NEW max \in 1 .. MaxTxs,
           ProposeBlock(v, parent, max)
    PROVE  BodyInv'
<1>0. PICK places \in TakeForBlock(pooled[v], max) :
          /\ pooled' = [pooled EXCEPT ![v] = @ \ ToSet(places)]
          /\ proposed' = Append(proposed,
                 [header |-> NewHeader(v, parent, [k \in DOMAIN places |-> Pool[places[k]]]),
                  transactions |-> [k \in DOMAIN places |-> Pool[places[k]]]])
  BY DEF ProposeBlock
<1>l. PICK list : list = [k \in DOMAIN places |-> Pool[places[k]]]
  OBVIOUS
<1>1. proposed' = Append(proposed, [header |-> NewHeader(v, parent, list),
                                    transactions |-> list])
  BY <1>0, <1>l
<1>2. validated' = validated
  BY DEF ProposeBlock
<1>3. PICK block : block = [header |-> NewHeader(v, parent, list), transactions |-> list]
  OBVIOUS
<1>4. PICK N : N = Len(proposed)
  OBVIOUS
<1>5. /\ N \in Nat
      /\ Len(proposed') = N + 1
      /\ proposed'[N + 1] = block
      /\ \A i \in 1 .. N : proposed'[i] = proposed[i]
  BY <1>1, <1>3, <1>4, AppendAny DEF BlocksInv
<1>6. pooled' \in [Proposers -> SUBSET (1 .. Len(Pool))]
  BY <1>0 DEF BodyInv
<1>7. list \in Seq(Txs)
  <2>1. max \in Nat /\ pooled[v] \in SUBSET (1 .. Len(Pool))
    BY BlocksAssumption DEF BodyInv
  <2>2. QED
    BY <1>0, <1>l, <2>1, TakenFacts
<1>8. /\ block.header.merkle_root = CalculateMerkleRoot(list)
      /\ block.header.signature.by = block.header.validator
      /\ block.header.signature.over = Unsigned(block.header)
      /\ block.transactions = list
  <2>1. PICK header : header = NewHeader(v, parent, list)
    OBVIOUS
  <2>2. block.header = header /\ block.transactions = list
    BY <1>3, <2>1
  <2>3. PICK root, time, height : header =
            [[previous_hash |-> parent, merkle_root |-> root, timestamp |-> time,
              height |-> height, validator |-> v, signature |-> <<>>]
                EXCEPT !.signature = [by |-> v, over |-> <<parent, root, time, height, v>>]]
            /\ root = CalculateMerkleRoot(list)
    BY <2>1 DEF NewHeader, Unsigned
  <2>4. /\ header.merkle_root = CalculateMerkleRoot(list)
        /\ header.signature.by = header.validator
        /\ header.signature.over = Unsigned(header)
    BY <2>3 DEF Unsigned
  <2>5. QED
    BY <2>2, <2>4
<1>9. ASSUME NEW i \in 1 .. (N + 1)
      PROVE  /\ proposed'[i] = [header |-> proposed'[i].header,
                                 transactions |-> proposed'[i].transactions]
             /\ proposed'[i].header.merkle_root = CalculateMerkleRoot(proposed'[i].transactions)
             /\ proposed'[i].header.signature.by = proposed'[i].header.validator
             /\ proposed'[i].header.signature.over = Unsigned(proposed'[i].header)
             /\ proposed'[i].transactions \in Seq(Txs)
  <2>1. CASE i \in 1 .. N
    BY <1>4, <1>5, <2>1 DEF BodyInv
  <2>2. CASE i = N + 1
    <3>1. proposed'[i] = block
      BY <1>5, <2>2
    <3>2. block = [header |-> block.header, transactions |-> block.transactions]
      BY <1>3
    <3>3. QED
      BY <1>7, <1>8, <3>1, <3>2
  <2>3. QED
    BY <1>5, <2>1, <2>2
<1>10. ASSUME NEW n \in Nodes, NEW k \in 1 .. Len(validated[n])
       PROVE  /\ validated[n][k].header = proposed'[Hash(validated[n][k].header)].header
              /\ validated[n][k].header.merkle_root
                     = CalculateMerkleRoot(validated[n][k].transactions)
              /\ validated[n][k].transactions \in Seq(Txs)
  <2>1. Hash(validated[n][k].header) \in 1 .. N
    BY <1>4 DEF BlocksInv
  <2>2. QED
    BY <1>5, <2>1 DEF BodyInv
<1>11. QED
  BY <1>2, <1>5, <1>6, <1>9, <1>10 DEF BodyInv

LEMMA ReceivedBodyStep ==
    ASSUME BlocksInv, BodyInv, NEW n \in Nodes, NEW i \in DOMAIN proposed, NEW parent,
           Receive(n, i, parent)
    PROVE  BodyInv'
<1>1. PICK list \in TxLists :
          /\ ValidateBlock([proposed[i] EXCEPT !.transactions = list], parent)
          /\ validated' = [validated EXCEPT ![n] =
                 Append(validated[n], [proposed[i] EXCEPT !.transactions = list])]
  BY DEF Receive
<1>2. UNCHANGED <<proposed, pooled>>
  BY DEF Receive
<1>3. PICK block : block = [proposed[i] EXCEPT !.transactions = list]
  OBVIOUS
<1>4. DOMAIN proposed = 1 .. Len(proposed)
  BY AppendAny DEF BlocksInv
<1>5. block.header = proposed[i].header /\ Hash(block.header) = i
  <2>1. block.header = proposed[i].header
    BY <1>3
  <2>2. proposed[i].header.timestamp = i
    BY <1>4 DEF BlocksInv, HeadersLinked
  <2>3. QED
    BY <2>1, <2>2 DEF Hash
<1>6. list \in Seq(Txs)
  <2>1. PICK k \in 0 .. MaxBody : list \in [1 .. k -> Txs]
    BY <1>1 DEF TxLists
  <2>2. k \in Nat
    BY BlocksAssumption
  <2>3. QED
    BY <2>1, <2>2, SeqDef
<1>7. /\ block.header = proposed[Hash(block.header)].header
      /\ block.header.merkle_root = CalculateMerkleRoot(block.transactions)
      /\ block.transactions \in Seq(Txs)
  <2>1. block.header.merkle_root = CalculateMerkleRoot(block.transactions)
    BY <1>1, <1>3 DEF ValidateBlock
  <2>2. block.transactions = list
    <3>1. PICK p : p = proposed[i]
      OBVIOUS
    <3>2. p = [header |-> p.header, transactions |-> p.transactions]
      BY <1>4, <3>1 DEF BodyInv
    <3>3. QED
      BY <1>3, <3>1, <3>2
  <2>3. QED
    BY <1>5, <1>6, <2>1, <2>2
<1>8. PICK old : old = validated[n]
  OBVIOUS
<1>9. /\ Len(old) \in Nat
      /\ Len(Append(old, block)) = Len(old) + 1
      /\ Append(old, block)[Len(old) + 1] = block
      /\ \A k \in 1 .. Len(old) : Append(old, block)[k] = old[k]
  BY <1>8, AppendAny DEF BlocksInv
<1>10. PICK new : new = Append(old, block)
  OBVIOUS
<1>11. validated' = [m \in Nodes |-> IF m = n THEN new ELSE validated[m]]
  BY <1>1, <1>3, <1>8, <1>10 DEF BlocksInv
<1>12. ASSUME NEW k \in 1 .. Len(new)
       PROVE  /\ new[k].header = proposed[Hash(new[k].header)].header
              /\ new[k].header.merkle_root = CalculateMerkleRoot(new[k].transactions)
              /\ new[k].transactions \in Seq(Txs)
  <2>1. k \in 1 .. Len(old) \/ k = Len(old) + 1
    BY <1>9, <1>10
  <2>2. CASE k \in 1 .. Len(old)
    <3>1. new[k] = old[k]
      BY <1>9, <1>10, <2>2
    <3>2. QED
      BY <1>8, <2>2, <3>1 DEF BodyInv
  <2>3. CASE k = Len(old) + 1
    BY <1>7, <1>9, <1>10, <2>3
  <2>4. QED
    BY <2>1, <2>2, <2>3
<1>13. ASSUME NEW m \in Nodes, NEW k \in 1 .. Len(validated'[m])
       PROVE  /\ validated'[m][k].header = proposed[Hash(validated'[m][k].header)].header
              /\ validated'[m][k].header.merkle_root
                     = CalculateMerkleRoot(validated'[m][k].transactions)
              /\ validated'[m][k].transactions \in Seq(Txs)
  <2>1. CASE m = n
    <3>1. validated'[m] = new
      BY <1>11, <2>1
    <3>2. QED
      BY <1>12, <3>1
  <2>2. CASE m # n
    <3>1. validated'[m] = validated[m]
      BY <1>11, <2>2
    <3>2. QED
      BY <3>1 DEF BodyInv
  <2>3. QED
    BY <2>1, <2>2
<1>14. QED
  BY <1>2, <1>13 DEF BodyInv

LEMMA BodyAlways == BlocksSpec => []BodyInv
<1>1. BlocksInit => BodyInv
  <2> SUFFICES ASSUME BlocksInit PROVE BodyInv
    OBVIOUS
  <2>1. Len(<< >>) = 0 /\ 1 .. 0 = {}
    OBVIOUS
  <2>2. DOMAIN Pool = 1 .. Len(Pool)
    BY BlocksAssumption, LenProperties
  <2>3. QED
    BY <2>1, <2>2 DEF BlocksInit, BodyInv
<1>2. BlocksInv /\ BodyInv /\ [BlocksNext]_blockVars => BodyInv'
  <2> SUFFICES ASSUME BlocksInv, BodyInv, [BlocksNext]_blockVars PROVE BodyInv'
    OBVIOUS
  <2>1. CASE UNCHANGED blockVars
    BY <2>1 DEF blockVars, BodyInv
  <2>2. CASE BlocksNext
    BY <2>2, ProposedBodyStep, ReceivedBodyStep DEF BlocksNext
  <2>3. QED
    BY <2>1, <2>2
<1>3. QED
  BY <1>1, <1>2, BlocksAlways, PTL DEF BlocksSpec

\* For any transactions, block sizes and nodes, and whatever list a header arrives
\* with: a validated block has the transactions its proposer took, in order, up to
\* repetitions at the end, also where the proposer took a transaction twice; and a
\* proposal is valid exactly when its size is.
THEOREM BodyStaysCommitted == BlocksSpec => []BodyIsCommitted
<1>1. BlocksInv /\ BodyInv => BodyIsCommitted
  <2> SUFFICES ASSUME BlocksInv, BodyInv PROVE BodyIsCommitted
    OBVIOUS
  <2>1. ASSUME NEW n \in Nodes, NEW block \in ToSet(validated[n])
        PROVE  LET taken == proposed[Hash(block.header)].transactions
               IN  /\ \/ RepeatsTail(taken, block.transactions)
                      \/ RepeatsTail(block.transactions, taken)
                   /\ ToSet(block.transactions) = ToSet(taken)
    <3>1. DOMAIN validated[n] = 1 .. Len(validated[n])
      BY AppendAny DEF BlocksInv
    <3>2. PICK k \in 1 .. Len(validated[n]) : block = validated[n][k]
      BY <2>1, <3>1 DEF ToSet
    <3>3. PICK i \in 1 .. Len(proposed) : i = Hash(block.header)
      BY <3>2 DEF BlocksInv
    <3>4. /\ block.header = proposed[i].header
          /\ block.header.merkle_root = CalculateMerkleRoot(block.transactions)
          /\ block.transactions \in Seq(Txs)
      BY <3>2, <3>3 DEF BodyInv
    <3>5. PICK a, b : a = proposed[i].transactions /\ b = block.transactions
      OBVIOUS
    <3>6. /\ a \in Seq(Txs)
          /\ proposed[i].header.merkle_root = CalculateMerkleRoot(a)
      BY <3>5 DEF BodyInv
    <3>7. b \in Seq(Txs) /\ CalculateMerkleRoot(a) = CalculateMerkleRoot(b)
      BY <3>4, <3>5, <3>6
    <3>8. (RepeatsTail(a, b) \/ RepeatsTail(b, a)) /\ ToSet(a) = ToSet(b)
      <4>1. Len(a) \in Nat /\ Len(b) \in Nat
        BY <3>6, <3>7, LenProperties
      <4>2. CASE Len(a) <= Len(b)
        BY <3>6, <3>7, <4>2, RootCommits
      <4>3. CASE Len(b) <= Len(a)
        BY <3>6, <3>7, <4>3, RootCommits
      <4>4. QED
        BY <4>1, <4>2, <4>3
    <3>9. QED
      BY <3>3, <3>5, <3>8
  <2>2. ASSUME NEW i \in DOMAIN proposed
        PROVE  ValidateBlock(proposed[i], proposed[i].header.previous_hash)
                   <=> ValidateBlockSize(proposed[i])
    <3>1. i \in 1 .. Len(proposed)
      BY AppendAny DEF BlocksInv
    <3>2. QED
      BY <3>1 DEF BodyInv, ValidateBlock
  <2>3. QED
    BY <2>1, <2>2 DEF BodyIsCommitted
<1>2. QED
  BY <1>1, BlocksAlways, BodyAlways, PTL


=============================================================================
