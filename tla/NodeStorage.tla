---------------------------- MODULE NodeStorage ----------------------------
(***************************************************************************)
(* Blocks and viewable notes in the database of a node, src/storage/mod.rs *)
(* and get_block of src/api/mod.rs.  Both are kept with an index: a block  *)
(* under its height, with its hash pointing to the height, and a note      *)
(* under its commitment, with its viewing hint pointing to the commitment. *)
(* Entry and index are two puts; threads interleave and the process may    *)
(* crash between them, and saving the same thing again is allowed.         *)
(*                                                                         *)
(* A block stands for its header, so its hash is the block itself; a note  *)
(* for its commitment.                                                     *)
(***************************************************************************)
EXTENDS Integers, FiniteSetsExt

CONSTANTS
    Writers,   \* threads that save blocks and notes
    Blocks,    \* blocks, identified with their header hash
    HeightOf,  \* header.height
    MaxHeight, \* the largest height; u64::MAX in the code
    Notes,     \* viewable notes, identified with their commitment
    HintOf,    \* viewing_hint
    Nothing    \* what no entry holds

ASSUME NodeStorageAssumption ==
    /\ MaxHeight \in Nat
    /\ HeightOf \in [Blocks -> 0 .. MaxHeight]
    /\ Blocks \cap Notes = {}
    /\ Nothing \notin Blocks \cup Notes

Heights == {HeightOf[b] : b \in Blocks}
Hints == {HintOf[n] : n \in Notes}

VARIABLES
    byHeight,  \* "b:" entries: the block stored under a height
    heightIdx, \* "h:" entries: hashes with a height index
    notes,     \* "n:" entries: commitments with a stored note
    hintIdx,   \* "v:" entries: pairs <<hint, commitment>>
    saving,    \* saving[w]: what writer w has put without its index
    saved,     \* history: blocks and notes whose save returned
    contested  \* history: heights at which one block replaced another

storageVars == <<byHeight, heightIdx, notes, hintIdx, saving, saved, contested>>

\* get_block by height
GetBlock(height) == byHeight[height]

\* save_block: the put of the block ...
PutBlock(w, b) ==
    /\ saving[w] = Nothing
    /\ byHeight' = [byHeight EXCEPT ![HeightOf[b]] = b]
    /\ contested' = IF GetBlock(HeightOf[b]) \in {b, Nothing} THEN contested
                    ELSE contested \cup {HeightOf[b]}
    /\ saving' = [saving EXCEPT ![w] = b]
    /\ UNCHANGED <<heightIdx, notes, hintIdx, saved>>

\* ... and of the height index (hash -> height)
PutHeightIndex(w) ==
    /\ saving[w] \in Blocks
    /\ heightIdx' = heightIdx \cup {saving[w]}
    /\ saved' = saved \cup {saving[w]}
    /\ saving' = [saving EXCEPT ![w] = Nothing]
    /\ UNCHANGED <<byHeight, notes, hintIdx, contested>>

\* save_viewable_note: the put of the note ...
PutNote(w, n) ==
    /\ saving[w] = Nothing
    /\ notes' = notes \cup {n}
    /\ saving' = [saving EXCEPT ![w] = n]
    /\ UNCHANGED <<byHeight, heightIdx, hintIdx, saved, contested>>

\* Mutant: the index key is the hint alone, so that notes overwrite each other.
PutHintIndexByHint(w) ==
    /\ saving[w] \in Notes
    /\ hintIdx' = {pair \in hintIdx : pair[1] # HintOf[saving[w]]}
                   \cup {<<HintOf[saving[w]], saving[w]>>}
    /\ saved' = saved \cup {saving[w]}
    /\ saving' = [saving EXCEPT ![w] = Nothing]
    /\ UNCHANGED <<byHeight, heightIdx, notes, contested>>

\* ... and of the viewing hint index
PutHintIndex(w) ==
    /\ saving[w] \in Notes
    /\ hintIdx' = hintIdx \cup {<<HintOf[saving[w]], saving[w]>>}
    /\ saved' = saved \cup {saving[w]}
    /\ saving' = [saving EXCEPT ![w] = Nothing]
    /\ UNCHANGED <<byHeight, heightIdx, notes, contested>>

\* The process stops and is restarted.
Crash ==
    /\ saving' = [w \in Writers |-> Nothing]
    /\ UNCHANGED <<byHeight, heightIdx, notes, hintIdx, saved, contested>>

\* get_block of the RPC server by hash: the index, then the block it names
GetBlockByHash(b) == IF b \in heightIdx THEN GetBlock(HeightOf[b]) ELSE Nothing

\* find_notes_for_viewing_key: an index entry without its note is skipped.
FindNotes(hint) == {n \in notes : <<hint, n>> \in hintIdx}

\* latest_block_height: the largest height with an entry, -1 for none
LatestBlockHeight == Max({-1} \cup {h \in Heights : GetBlock(h) # Nothing})

StorageInit ==
    /\ byHeight = [h \in Heights |-> Nothing]
    /\ heightIdx = {}
    /\ notes = {}
    /\ hintIdx = {}
    /\ saving = [w \in Writers |-> Nothing]
    /\ saved = {}
    /\ contested = {}

StorageNext ==
    \/ \E w \in Writers :
        \/ \E b \in Blocks : PutBlock(w, b)
        \/ PutHeightIndex(w)
        \/ \E n \in Notes : PutNote(w, n)
        \/ PutHintIndex(w)
    \/ Crash

StorageSpec == StorageInit /\ [][StorageNext]_storageVars

-----------------------------------------------------------------------------
\* Whatever crashed in between: every index entry leads to a block of the height
\* it was made for, and a block whose save returned is answered when asked for by
\* its hash and counts for the latest height.  The answer may be a block with
\* another hash, since nothing removes the index of a block that was replaced, but
\* only at a height where that happened.  A note whose save returned is found with
\* its viewing key and with no other.
SavedIsFound ==
    /\ \A b \in heightIdx \cup (saved \cap Blocks) :
           /\ GetBlockByHash(b) \in {c \in Blocks : HeightOf[c] = HeightOf[b]}
           /\ HeightOf[b] \notin contested => GetBlockByHash(b) = b
           /\ HeightOf[b] <= LatestBlockHeight
    /\ \A pair \in hintIdx : pair[2] \in notes
    /\ \A n \in Notes : \A hint \in Hints :
           /\ n \in saved /\ hint = HintOf[n] => n \in FindNotes(hint)
           /\ n \in FindNotes(hint) => hint = HintOf[n]

=============================================================================
