--------------------------- MODULE SetupCeremony ---------------------------
(***************************************************************************)
(* The trusted set-up tool, src/bin/prims-setup.rs.  Its commands share a  *)
(* directory with four files and no lock: init and contribute rewrite the  *)
(* state file, finalize reads it and writes the proving key, the verifying *)
(* key and the metadata, in this order.  Every file is truncated when it   *)
(* is opened and filled in place, one flush of a BufWriter at a time; a    *)
(* command may be killed between any two of its steps, and several         *)
(* operators may run commands at the same time.                            *)
(*                                                                         *)
(* A command draws fresh entropy, so its number stands for its entropy and *)
(* its contributor; a digest is the tuple of what it digests.              *)
(*                                                                         *)
(* A file is a list of parts: a part is what one contribution, one name,   *)
(* the rest of a JSON text or half of a key takes.  At its place a part is *)
(* represented by the whole content it is a part of.  The k-th parts of    *)
(* two texts are at the same offset (names are equally long); a flush that *)
(* ends inside a part has the effect of one that ends before it; a file is *)
(* read in one step.                                                       *)
(***************************************************************************)
EXTENDS Naturals, Sequences

CONSTANTS
    Operators,   \* who runs commands
    MaxCommands, \* bound on the commands started
    NoFile,      \* a file that does not exist
    Hole         \* a part that was skipped by a write behind the end of a file

ASSUME SetupAssumption == MaxCommands \in Nat

VARIABLES
    file,       \* file[name]: contents of the files of out_dir
    cmd,        \* cmd[p]: the command of p, with the writes it has still to do and
                \* the number of parts done of the first one, if its file is open
    started,    \* number of commands started so far
    reported,   \* history: contributions reported since an init last opened the file
    overlapped, \* history: two commands were in progress at once
    mixed,      \* history: two commands had the same file open at once
    forced      \* history: finalize was run with --force

ceremonyVars == <<file, cmd, started, reported, overlapped, mixed, forced>>

Files == {"state", "pk", "vk", "metadata"}
Artefacts == Files \ {"state"}
Idle == [op |-> "none", writes |-> <<>>, open |-> FALSE, done |-> 0, id |-> 0]

-----------------------------------------------------------------------------
\* The ceremony state and its transcript.
EmptyTranscript == <<>>

TranscriptDigest(previous, id, index) == <<previous, id, index>>

\* build_initial_state
InitialState(id) ==
    LET digest == TranscriptDigest(EmptyTranscript, id, 0)
    IN  [contributions |-> <<[index |-> 0, id |-> id, digest |-> digest]>>,
         last |-> digest]

\* append_contribution
WithContribution(state, id) ==
    LET index == Len(state.contributions)
        previous == IF index = 0 THEN EmptyTranscript ELSE state.last
        digest == TranscriptDigest(previous, id, index)
    IN  [contributions |-> Append(state.contributions,
                                  [index |-> index, id |-> id, digest |-> digest]),
         last |-> digest]

\* derive_final_seed, from which the key pair is generated
FinalSeed(digest, count) == <<digest, count>>

\* What finalize records of the state it read.
MetadataOf(state) ==
    [last |-> state.last, count |-> Len(state.contributions),
     names |-> [i \in DOMAIN state.contributions |-> state.contributions[i].id]]

-----------------------------------------------------------------------------
\* The number of parts of a text: one for each contribution or name and one more for
\* the rest; keys are all equally long.
Size(name, content) ==
    CASE name = "state" -> Len(content.contributions) + 1
      [] name = "metadata" -> content.count + 1
      [] OTHER -> 2

\* A whole text
WholeText(name, content) == [i \in 1 .. Size(name, content) |-> content]

\* A file that can be read: every part is there, and the last one ends its text.
IsWhole(name, text) ==
    /\ text \notin {NoFile, <<>>}
    /\ \A i \in DOMAIN text :
           text[i] # Hole /\ (Size(name, text[i]) = i <=> i = Len(text))

\* read_state, of a whole file: every contribution comes from the part at its place,
\* the last digest from the last part.
ReadState(text) ==
    [contributions |-> [i \in 1 .. (Len(text) - 1) |-> text[i].contributions[i]],
     last |-> text[Len(text)].last]

\* A part is written at its offset.
Put(text, i, content) ==
    [j \in DOMAIN text \cup 1 .. i |->
        IF j = i THEN content ELSE IF j \in DOMAIN text THEN text[j] ELSE Hole]

-----------------------------------------------------------------------------
\* A command begins, with the writes it has come to.
Begin(p, op, writes) ==
    /\ cmd[p] = Idle
    /\ started < MaxCommands
    /\ started' = started + 1
    /\ cmd' = [cmd EXCEPT ![p] = [op |-> op, writes |-> writes, open |-> FALSE,
                                  done |-> 0, id |-> started + 1]]
    /\ overlapped' = (overlapped \/ \E q \in Operators : cmd[q] # Idle)
    /\ UNCHANGED <<file, reported, mixed>>

\* cmd_init up to the write
CmdInit(p, force) ==
    /\ force \/ file["state"] = NoFile
    /\ Begin(p, "init", << <<"state", InitialState(started + 1)>> >>)
    /\ UNCHANGED forced

\* cmd_contribute up to the write: read_state fails on a file that is not whole.
CmdContribute(p) ==
    /\ IsWhole("state", file["state"])
    /\ Begin(p, "contribute",
             << <<"state", WithContribution(ReadState(file["state"]), started + 1)>> >>)
    /\ UNCHANGED forced

\* Mutant: the metadata is written before the keys.
ArtefactWritesMetaFirst(state) ==
    LET seed == FinalSeed(state.last, Len(state.contributions))
    IN  << <<"metadata", MetadataOf(state)>>, <<"pk", seed>>, <<"vk", seed>> >>

\* The files finalize writes.
ArtefactWrites(state) ==
    LET seed == FinalSeed(state.last, Len(state.contributions))
    IN  << <<"pk", seed>>, <<"vk", seed>>, <<"metadata", MetadataOf(state)>> >>

\* cmd_finalize up to the first write
CmdFinalize(p, force) ==
    /\ IsWhole("state", file["state"])
    /\ force \/ \A name \in Artefacts : file[name] = NoFile
    /\ Begin(p, "finalize", ArtefactWrites(ReadState(file["state"])))
    /\ forced' = (forced \/ force)

\* File::create: the file is truncated, and with the state an init starts anew.
OpenFile(p) ==
    LET name == Head(cmd[p].writes)[1]
    IN  /\ cmd[p].writes # <<>>
        /\ ~cmd[p].open
        /\ file' = [file EXCEPT ![name] = <<>>]
        /\ cmd' = [cmd EXCEPT ![p].open = TRUE]
        /\ mixed' = (mixed \/ \E q \in Operators :
                                  cmd[q].open /\ Head(cmd[q].writes)[1] = name)
        /\ reported' = IF cmd[p].op = "init" THEN {} ELSE reported
        /\ UNCHANGED <<started, overlapped, forced>>

\* A file is done with; the next one, or the report, follows.
Advance(p) ==
    cmd' = [cmd EXCEPT ![p] =
               [cmd[p] EXCEPT !.writes = Tail(@), !.open = FALSE, !.done = 0]]

\* write_json_pretty or write_key_file writes a part, at the offset it has come to
\* whatever others have made of the file.
WritePart(p) ==
    LET name == Head(cmd[p].writes)[1]
        new == Head(cmd[p].writes)[2]
        k == cmd[p].done + 1
    IN  /\ cmd[p].open
        /\ file' = [file EXCEPT ![name] = Put(@, k, new)]
        /\ \/ k = Size(name, new) /\ Advance(p)
           \/ k < Size(name, new) /\ cmd' = [cmd EXCEPT ![p].done = k]
        /\ UNCHANGED <<started, reported, overlapped, mixed, forced>>

\* write_json_pretty leaves the last flush to the drop of its BufWriter, which
\* ignores an error: the parts left are not written and the command goes on.
LastFlushFails(p) ==
    /\ cmd[p].open
    /\ Head(cmd[p].writes)[1] \in {"state", "metadata"}
    /\ Advance(p)
    /\ UNCHANGED <<file, started, reported, overlapped, mixed, forced>>

\* After the last file the command reports success.
Report(p) ==
    /\ cmd[p].op # "none" /\ cmd[p].writes = <<>>
    /\ reported' = IF cmd[p].op = "finalize" THEN reported ELSE reported \cup {cmd[p].id}
    /\ cmd' = [cmd EXCEPT ![p] = Idle]
    /\ UNCHANGED <<file, started, overlapped, mixed, forced>>

\* The command is killed, or fails with an error: before it opens a file, between two
\* parts, or when all is written and nothing reported.
Abort(p) ==
    /\ cmd[p] # Idle
    /\ cmd' = [cmd EXCEPT ![p] = Idle]
    /\ UNCHANGED <<file, started, reported, overlapped, mixed, forced>>

\* cmd_inspect prints the state or fails.
CmdInspect(p) == cmd[p] = Idle /\ UNCHANGED ceremonyVars

CeremonyInit ==
    /\ file = [name \in Files |-> NoFile]
    /\ cmd = [p \in Operators |-> Idle]
    /\ started = 0
    /\ reported = {}
    /\ overlapped = FALSE
    /\ mixed = FALSE
    /\ forced = FALSE

CeremonyNext ==
    \E p \in Operators :
        \/ \E force \in BOOLEAN : CmdInit(p, force) \/ CmdFinalize(p, force)
        \/ CmdContribute(p) \/ CmdInspect(p)
        \/ OpenFile(p) \/ WritePart(p) \/ LastFlushFails(p) \/ Report(p) \/ Abort(p)

CeremonySpec == CeremonyInit /\ [][CeremonyNext]_ceremonyVars

-----------------------------------------------------------------------------
\* The digests form one chain from the empty transcript: each covers the previous
\* one, its own contribution and its place.
Chained(state) ==
    \A i \in DOMAIN state.contributions :
        LET c == state.contributions[i]
        IN  /\ c.index = i - 1
            /\ c.digest = <<IF i = 1 THEN EmptyTranscript
                            ELSE state.contributions[i - 1].digest, c.id, i - 1>>

\* The commands whose contributions a state has
Ids(state) == {state.contributions[i].id : i \in DOMAIN state.contributions}

\* The ceremony can be audited.  Whatever was killed or failed, and however commands
\* overlapped as long as no two had the same file open, a state file that can be read
\* is one unbroken chain of digests that ends in last_transcript_digest_hex.  If
\* commands ran one at a time, it has every contribution that was reported since the
\* last init: a reported one is lost only together with the whole file.  (It may also
\* have one whose command was killed before it could report.)  And unless one was
\* forced, metadata that can be read belong to both keys next to them, which are
\* whole: a finalize that was killed leaves keys without metadata, and no later one
\* replaces some of the files only.
CeremonyIsAuditable ==
    LET state == ReadState(file["state"])
        metadata == file["metadata"][1]
        seed == FinalSeed(metadata.last, metadata.count)
    IN  /\ ~mixed /\ IsWhole("state", file["state"]) =>
               /\ Chained(state)
               /\ state.last = state.contributions[Len(state.contributions)].digest
               /\ ~overlapped => reported \subseteq Ids(state)
        /\ ~overlapped /\ ~forced /\ IsWhole("metadata", file["metadata"]) =>
               /\ file["pk"] = WholeText("pk", seed)
               /\ file["vk"] = WholeText("vk", seed)

=============================================================================
