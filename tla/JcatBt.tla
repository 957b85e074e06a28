------------------------------- MODULE JcatBt -------------------------------
(***************************************************************************)
(* Binary transparency: a program reads the verifier file of a log         *)
(* (JcatBtVerifier), gives its key to the Ed25519 engine, reads            *)
(* checkpoints of the log (JcatBtCheckpoint) and verifies them, as         *)
(* jcat_bt_common_func of the tests does.  The logs and the way files      *)
(* reach the program are external: a copy may be cut short, have lost or   *)
(* doubled a line, or hold lines of two checkpoints.                       *)
(*                                                                         *)
(* A text is a sequence of lines, a line a sequence of the words between   *)
(* spaces, and the text of a verifier file the sequence of the words       *)
(* between plus signs.  A word is a name, a number, or the base64 form of  *)
(* some bytes.  A byte says where it comes from; signatures are ideal.     *)
(***************************************************************************)
EXTENDS JcatBits, SequencesExt

CONSTANTS
  Logs,           \* the logs, each with a name and a key of its own
  PlusLogs,       \* those whose key has a plus sign in its base64 form
  MaxUint,        \* G_MAXUINT
  MaxUint64,      \* G_MAXUINT64: log sizes are read as numbers of Width bits
  HashSize, KeySize, SignatureSize,   \* 4, 32 and 64 bytes
  MaxSize,        \* bound on the size of a log
  MaxNotes        \* bound on the checkpoints published

ASSUME BtAssumption ==
  /\ PlusLogs \subseteq Logs
  /\ MaxUint64 = Power[Width] - 1 /\ MaxUint64 \in Nat
  /\ MaxUint \in Nat /\ MaxUint < MaxUint64 /\ MaxSize \in Nat
  /\ HashSize \in Nat \ {0} /\ KeySize \in Nat \ {0} /\ SignatureSize \in Nat \ {0}

VARIABLES
  published,   \* the checkpoints the logs have signed
  text,        \* the text the program has read last
  checkpoint,  \* the JcatBtCheckpoint made from it, a set of at most one
  given,       \* the logs whose verifier file was given whole
  pubkeys,     \* the keyring of the engine
  accepted     \* the checkpoint verified last, a set of at most one

vars == <<published, text, checkpoint, given, pubkeys, accepted>>

-----------------------------------------------------------------------------
(* What a log publishes *)

KeyOf(log)      == [i \in 1..KeySize |-> [key |-> <<log, i>>]]
HashOf(log)     == [i \in 1..HashSize |-> [hash |-> <<log, i>>]]
RootOf(note)    == [i \in 1..KeySize |-> [root |-> <<note, i>>]]
Algorithm       == [alg |-> 1]
SignatureOf(log, payload) == [i \in 1..SignatureSize |-> [sig |-> <<log, payload, i>>]]

Dash == [name |-> "dash"]

Head3(note) == << <<[name |-> note.log]>>, <<[number |-> note.size]>>,
                  <<[base64 |-> RootOf(note)]>> >>

SignatureLine(note) ==
  <<Dash, [name |-> note.log],
    [base64 |-> HashOf(note.log) \o SignatureOf(note.log, Head3(note))]>>

NoteText(note) == Head3(note) \o << <<>>, SignatureLine(note), <<>> >>

VerifierText(log) ==
  LET raw == <<Algorithm>> \o KeyOf(log)
  IN  <<[name |-> log], [base64 |-> HashOf(log)]>> \o
      (IF log \in PlusLogs THEN <<[base64 |-> SubSeq(raw, 1, 1)], [base64 |-> Tail(raw)]>>
                           ELSE <<[base64 |-> raw]>>)

-----------------------------------------------------------------------------
(* What may arrive of a text *)

\* The first k words, the last of them cut after n bytes if it is base64.
CutWords(words, k, n) ==
  [i \in 1..k |-> IF i = k /\ "base64" \in DOMAIN words[i] /\ n < Len(words[i].base64)
                  THEN [base64 |-> SubSeq(words[i].base64, 1, n)] ELSE words[i]]

Cuts(words) == {CutWords(words, k, n) :
                  k \in 0..Len(words), n \in 0..HashSize + SignatureSize}

CutTexts(t) ==
  UNION {{Append(SubSeq(t, 1, k - 1), cut) : cut \in Cuts(t[k])} : k \in DOMAIN t}

Copies(texts) ==
  UNION {CutTexts(t) \cup {RemoveAt(t, k) : k \in DOMAIN t}
                     \cup {InsertAt(t, k, t[k]) : k \in DOMAIN t}
                     \cup {[t EXCEPT ![k] = u[k]] : k \in DOMAIN t, u \in texts} : t \in texts}

-----------------------------------------------------------------------------
(* Strings *)

(* A mutation of Split: without a limit. *)
SplitAll(words, max) == [n \in DOMAIN words |-> <<words[n]>>]

\* g_strsplit with a limit: the last section keeps what is left of the words.
Split(words, max) ==
  IF Len(words) <= max THEN [n \in DOMAIN words |-> <<words[n]>>]
  ELSE [n \in 1..max |-> IF n < max THEN <<words[n]>> ELSE SubSeq(words, max, Len(words))]

\* g_base64_decode; a word that is not base64 gives some byte, or none.
DecodeWord(word) ==
  IF "base64" \in DOMAIN word THEN word.base64 ELSE <<[misread |-> word]>>

Decode(words) ==
  LET bytes[n \in 0..Len(words)] ==
        IF n = 0 THEN <<>> ELSE bytes[n - 1] \o DecodeWord(words[n])
  IN  bytes[Len(words)]

\* g_ascii_strtoull: 0 for what is no number, the largest number for a larger one.
Strtoull(words) ==
  IF words # <<>> /\ "number" \in DOMAIN words[1]
  THEN Min({words[1].number, MaxUint64}) ELSE 0

-----------------------------------------------------------------------------
(* jcat_bt_verifier_new *)

VerifierIsValid(words) ==
  LET sections == Split(words, 3)
  IN  Len(sections) = 3 /\ Len(Decode(sections[3])) = 1 + KeySize

Verifier(words) ==
  LET sections == Split(words, 3)
      raw == Decode(sections[3])
  IN  [name |-> sections[1], hash |-> sections[2],
       alg |-> SubSeq(raw, 1, 1), key |-> SubSeq(raw, 2, Len(raw))]

-----------------------------------------------------------------------------
(* jcat_bt_checkpoint_new.  A NUL byte ends the text as a cut does. *)

(* Two mutations of CheckpointIsValid: the size of the log is not checked, *)
(* and the largest size is refused.                                        *)
CheckpointIsValidAnySize(lines) ==
  /\ Len(lines) = 6
  /\ Len(Decode(lines[3])) = KeySize
  /\ LET sections == Split(lines[5], 3)
     IN  /\ Len(sections) = 3 /\ sections[1] = <<Dash>>
         /\ Len(Decode(sections[3])) = HashSize + SignatureSize

CheckpointIsValidBelow(lines) ==
  CheckpointIsValidAnySize(lines) /\ Strtoull(lines[2]) < MaxUint

CheckpointIsValid(lines) ==
  /\ Len(lines) = 6
  /\ Strtoull(lines[2]) <= MaxUint
  /\ Len(Decode(lines[3])) = KeySize
  /\ LET sections == Split(lines[5], 3)
     IN  /\ Len(sections) = 3 /\ sections[1] = <<Dash>>
         /\ Len(Decode(sections[3])) = HashSize + SignatureSize

Checkpoint(lines) ==
  LET sections == Split(lines[5], 3)
      sig == Decode(sections[3])
  IN  [payload |-> SubSeq(lines, 1, 3), origin |-> lines[1],
       log_size |-> Strtoull(lines[2]) % (MaxUint + 1), pubkey |-> Decode(lines[3]),
       identity |-> sections[2], hash |-> SubSeq(sig, 1, HashSize),
       signature |-> SubSeq(sig, HashSize + 1, Len(sig))]

-----------------------------------------------------------------------------
(* The Ed25519 engine, as far as a key given as bytes goes *)

\* pubkey_verify: against any of the public keys
PubkeyVerify(keys, payload, signature) ==
  \E log \in Logs : KeyOf(log) \in keys /\ signature = SignatureOf(log, payload)

-----------------------------------------------------------------------------

Init ==
  /\ published = {}
  /\ text = <<>>
  /\ checkpoint = {}
  /\ given = {}
  /\ pubkeys = {}
  /\ accepted = {}

\* The log has grown and signs its new size.
Publish(log, size) ==
  /\ Cardinality(published) < MaxNotes
  /\ \A note \in published : note.log = log => note.size < size
  /\ published' = published \cup {[log |-> log, size |-> size]}
  /\ UNCHANGED <<text, checkpoint, given, pubkeys, accepted>>

NewCheckpoint(copy) ==
  /\ text' = copy
  /\ checkpoint' = IF CheckpointIsValid(copy) THEN {Checkpoint(copy)} ELSE {}
  /\ UNCHANGED <<published, given, pubkeys, accepted>>

\* jcat_bt_verifier_new, then jcat_engine_add_public_key_raw: GnuTLS wants a whole key.
AddVerifier(log, words) ==
  /\ pubkeys' = IF VerifierIsValid(words) /\ Len(Verifier(words).key) = KeySize
                THEN pubkeys \cup {Verifier(words).key} ELSE pubkeys
  /\ given' = IF words = VerifierText(log) THEN given \cup {log} ELSE given
  /\ UNCHANGED <<published, text, checkpoint, accepted>>

Verify(c) ==
  /\ PubkeyVerify(pubkeys, c.payload, c.signature)
  /\ accepted' = {c}
  /\ UNCHANGED <<published, text, checkpoint, given, pubkeys>>

Next ==
  \/ \E log \in Logs, size \in 0..MaxSize : Publish(log, size)
  \/ \E copy \in Copies({NoteText(note) : note \in published}) : NewCheckpoint(copy)
  \/ \E log \in Logs : \E words \in Cuts(VerifierText(log)) : AddVerifier(log, words)
  \/ \E c \in checkpoint : Verify(c)

Spec == Init /\ [][Next]_vars

-----------------------------------------------------------------------------
(* Properties *)

(* The origin, the size and the root hash (which the code calls the public   *)
(* key) of a checkpoint that was verified are those that one log, whose key  *)
(* is in the keyring, has signed together, however the copies were damaged;  *)
(* a size that does not fit is never cut to one that does.  The code         *)
(* promises nothing about the identity and the hash, which are not signed,   *)
(* or about the verifier's name (the TODOs of jcat_bt_common_func).          *)
AcceptedIsSigned ==
  \A c \in accepted :
    \E note \in published :
      /\ KeyOf(note.log) \in pubkeys
      /\ c.origin = <<[name |-> note.log]>>
      /\ c.log_size = note.size
      /\ c.pubkey = RootOf(note)

(* A checkpoint that arrives whole and whose size fits in a guint, the       *)
(* largest one included, is read and verifies once its log's verifier file   *)
(* was given.                                                                *)
WholeIsVerified ==
  \A note \in published :
    text = NoteText(note) /\ note.size <= MaxUint /\ note.log \in given
      => \E c \in checkpoint : PubkeyVerify(pubkeys, c.payload, c.signature)

(* The keyring holds the keys of the verifier files that were whole and no   *)
(* other: no file that was cut short leaves a key, and one whose base64 form *)
(* has the character the file is split at leaves its whole key.              *)
KeysAreWhole == pubkeys = {KeyOf(log) : log \in given}

(* On every log size that can be read both builds of the bit operations      *)
(* agree, and with what they are for: a number has its length, and the power *)
(* of two that its trailing zeros stand for divides it.                      *)
BitsAgree ==
  \A val \in {note.size : note \in published} \cap 0..MaxUint64 :
    /\ OnesCount(val) = {OnesCountLoop(val)}
    /\ TrailingZeros(val) = {TrailingZerosLoop(val)}
    /\ Length(val) = {LengthLoop(val)}
    /\ val < Power[LengthLoop(val)]
    /\ val > 0 => /\ Power[LengthLoop(val) - 1] <= val
                  /\ val % Power[TrailingZerosLoop(val)] = 0
                  /\ OnesCountLoop(val) <= LengthLoop(val) - TrailingZerosLoop(val)
=============================================================================
