------------------------------ MODULE KeyFiles ------------------------------
(***************************************************************************)
(* Where secret keys come from: generate-key of src/bin/prims-cli.rs       *)
(* writes an encrypted key file, and three programs load a key from a file *)
(* or an environment variable, each with its own copy of the parser: the   *)
(* wallet, the faucet of src/bin/prims-explorer.rs and, for its network    *)
(* identity, the node of src/network/node.rs.                              *)
(*                                                                         *)
(* A text of 64 hexadecimal digits, with or without 0x and blanks, stands  *)
(* for the key it decodes to.                                              *)
(***************************************************************************)
CONSTANTS
    Wallets,     \* runs of generate-key
    Keys,        \* secret keys
    Passphrases, \* what users type, Blank included
    Blank,       \* only blanks, or nothing
    BadTexts,    \* other texts: BadDigits, ShortHex, Blank
    BadDigits,   \* a text with characters that are no hexadecimal digits
    Absent,      \* a file that cannot be read, or a missing variable or field
    NoKey,       \* loading fails
    Unset        \* no key is configured, which is not an error

VARIABLES
    keyfile,     \* contents of the key file, Absent when it does not exist
    gen,         \* gen[w]: progress of a generate-key
    madeKey      \* history: what a finished generate-key wrote

keyVars == <<keyfile, gen, madeKey>>

Texts == Keys \cup BadTexts
Json(a, b) == [form |-> "json", secret_key |-> a, secret_key_hex |-> b]
Text(t) == [form |-> "text", text |-> t]
Cipher(k, pw) == [form |-> "cipher", key |-> k, pw |-> pw]
BadJson == [form |-> "badjson"]

\* What a user may have put into a file or a variable.
Plain ==
    {Text(t) : t \in Texts} \cup {BadJson}
    \cup {Json(a, b) : a \in Texts \cup {Absent}, b \in Texts \cup {Absent}}

Jobs == [at : {"encrypted", "created"}, key : Keys, pw : Passphrases]
Ciphers == [form : {"cipher"}, key : Keys, pw : Passphrases]

\* The markers differ from what they are told apart from.
ASSUME KeyFilesAssumption ==
    /\ {BadDigits, Blank} \subseteq BadTexts
    /\ BadTexts \cap Keys = {}
    /\ Absent \notin Texts \cup Plain \cup Ciphers \cup Jobs
    /\ {NoKey, Unset} \cap Keys = {}
    /\ NoKey # Unset

-----------------------------------------------------------------------------
\* decode_hex_32: anything but 32 bytes in hexadecimal digits is an error.
DecodeHex32(t) == IF t \in Keys THEN t ELSE NoKey

\* The first of the two fields that is a string counts, whatever it holds.
JsonKey(m) ==
    IF m.secret_key # Absent THEN DecodeHex32(m.secret_key)
    ELSE IF m.secret_key_hex # Absent THEN DecodeHex32(m.secret_key_hex)
    ELSE NoKey

\* parse_secret_key_material of the wallet
WalletParse(m) ==
    CASE m.form = "json" -> JsonKey(m)
      [] m.form = "text" -> DecodeHex32(m.text)
      [] OTHER -> NoKey

\* looks_like_plaintext_hex_secret: digits only, in any number but zero
LooksLikeHex(m) == m.form = "text" /\ m.text \notin {BadDigits, Blank}

\* decrypt_secret_key_file with the passphrase the user types
Decrypt(m, pw) ==
    IF pw # Blank /\ m.form = "cipher" /\ m.pw = pw THEN m.key ELSE NoKey

\* parse_secret_key_file_contents
WalletFileKey(m, pw) ==
    IF m.form \in {"json", "badjson"} \/ LooksLikeHex(m)
    THEN WalletParse(m)
    ELSE Decrypt(m, pw)

\* load_secret_key.  When PRIMS_SECRET_KEY_FILE is set (named) the file counts,
\* and if it cannot be read or used that is an error; without it the variable
\* counts, and one of the two must be set.
WalletKey(named, f, var, pw) ==
    CASE named /\ f # Absent -> WalletFileKey(f, pw)
      [] ~named /\ var # Absent -> WalletParse(var)
      [] OTHER -> NoKey

\* parse_secret_key_material of the faucet
FaucetParse(m) ==
    CASE m.form = "text" /\ m.text = Blank -> NoKey
      [] m.form = "json" -> JsonKey(m)
      [] m.form = "text" -> DecodeHex32(m.text)
      [] OTHER -> NoKey

\* The key of load_faucet_config, with the same two variables: an encrypted file
\* is not decrypted, and with neither set the faucet is disabled.
FaucetKey(named, f, var) ==
    CASE named -> IF f = Absent THEN NoKey ELSE FaucetParse(f)
      [] ~named /\ var # Absent -> FaucetParse(var)
      [] OTHER -> Unset

\* parse_network_secret_key_file_contents
NodeParse(m) ==
    CASE m.form = "json" -> JsonKey(m)
      [] m.form = "text" -> DecodeHex32(m.text)
      [] OTHER -> NoKey

\* load_network_identity_keypair, with PRIMS_NETWORK_SECRET_KEY_FILE and _HEX: the
\* variable holds digits, never JSON, and without either a key pair is generated.
NodeKey(named, f, var) ==
    CASE named -> IF f = Absent THEN NoKey ELSE NodeParse(f)
      [] ~named /\ var = Absent -> Unset
      [] OTHER -> IF var.form = "text" THEN DecodeHex32(var.text) ELSE NoKey

-----------------------------------------------------------------------------
Running == {w \in Wallets : gen[w] # Absent}

\* generate-key with a fresh key up to the file: two prompts that must agree, then encryption.
Prompt(w, k, first, second) ==
    /\ gen[w] = Absent
    /\ k \notin {job.key : job \in madeKey \cup {gen[x] : x \in Running}}
    /\ first # Blank
    /\ first = second
    /\ gen' = [gen EXCEPT ![w] = [at |-> "encrypted", key |-> k, pw |-> first]]
    /\ UNCHANGED <<keyfile, madeKey>>

\* Mutant: an existing file is truncated.
NewSecretFileTruncates(w) ==
    /\ w \in Running
    /\ gen[w].at = "encrypted"
    /\ keyfile' = Text(Blank)
    /\ gen' = [gen EXCEPT ![w].at = "created"]
    /\ UNCHANGED madeKey

\* new_secret_file: create_new fails if the file exists, and the key is gone.
NewSecretFile(w) ==
    /\ w \in Running
    /\ gen[w].at = "encrypted"
    /\ IF keyfile = Absent
       THEN /\ keyfile' = Text(Blank)
            /\ gen' = [gen EXCEPT ![w].at = "created"]
       ELSE gen' = [gen EXCEPT ![w] = Absent] /\ UNCHANGED keyfile
    /\ UNCHANGED madeKey

\* write_all of the ciphertext
WriteSecret(w) ==
    /\ w \in Running
    /\ gen[w].at = "created"
    /\ keyfile' = Cipher(gen[w].key, gen[w].pw)
    /\ madeKey' = madeKey \cup {[key |-> gen[w].key, pw |-> gen[w].pw]}
    /\ gen' = [gen EXCEPT ![w] = Absent]

\* The program is killed; a started write may have left a part of the text.
Kill(w) ==
    /\ w \in Running
    /\ gen' = [gen EXCEPT ![w] = Absent]
    /\ \/ UNCHANGED keyfile
       \/ gen[w].at = "created" /\ keyfile' = Text(BadDigits)
    /\ UNCHANGED madeKey

KeysInit ==
    /\ keyfile \in Plain \cup {Absent}
    /\ gen = [w \in Wallets |-> Absent]
    /\ madeKey = {}

KeysNext ==
    \E w \in Wallets :
        \/ \E k \in Keys, first, second \in Passphrases : Prompt(w, k, first, second)
        \/ NewSecretFile(w) \/ WriteSecret(w) \/ Kill(w)

KeysSpec == KeysInit /\ [][KeysNext]_keyVars

-----------------------------------------------------------------------------
\* A generated key is never lost to another run of generate-key, whatever was
\* killed: the key file of a finished one opens with its passphrase to its key and
\* with no other passphrase.  And one configuration means one key: wallet, faucet
\* and node, each with a parser of its own, read the same key from the file they are
\* given, or all refuse it; a file that is missing is refused and never replaced by
\* the key of the variable, and an encrypted one is refused by the two programs that
\* have no user to ask.  Wallet and faucet agree on the variable too, and the node
\* agrees with them on digits.
ConfiguredKeyLoads ==
    /\ \A made \in madeKey : \A pw \in Passphrases :
           WalletKey(TRUE, keyfile, Absent, pw) = IF pw = made.pw THEN made.key ELSE NoKey
    /\ \A named \in BOOLEAN, var \in Plain \cup {Absent}, pw \in Passphrases :
           LET wallet == WalletKey(named, keyfile, var, pw)
               faucet == FaucetKey(named, keyfile, var)
               node == NodeKey(named, keyfile, var)
           IN  /\ ~named => /\ wallet = IF faucet = Unset THEN NoKey ELSE faucet
                            /\ var \in {Text(t) : t \in Texts} => node = wallet
               /\ named /\ keyfile \in Plain => faucet = wallet /\ node = wallet
               /\ named /\ keyfile = Absent =>
                      wallet = NoKey /\ faucet = NoKey /\ node = NoKey
               /\ named /\ keyfile # Absent /\ keyfile \notin Plain =>
                      faucet = NoKey /\ node = NoKey

=============================================================================
