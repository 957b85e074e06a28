---------------------------- MODULE MCJcatVerify ----------------------------
(* Small instances of JcatVerify: one set of requests per entry point.      *)
EXTENDS JcatVerify

CONSTANTS
  MaxBlobs,     \* bound on the number of blobs of an item
  MaxTargeted,  \* the same, of an item that is verified with a target
  File, Other   \* the data being verified, and other data (model values)

SeqsUpTo(S, n) == UNION {[1..k -> S] : k \in 0..n}

MCCsumKinds  == {"sha1", "sha256"}
MCSigKinds   == {"pkcs7", "ed25519"}
MCOtherKinds == {"bt-logindex"}
MCPqFilters  == {"pkcs7"}
MCKeys       == {"rsa", "mldsa", "edkey", "stranger"}
MCPqKeys     == {"mldsa"}
MCTrusted    == MCKeys \ {"stranger"}

DigestsOf(data) == {Digest(kind, data) : kind \in MCCsumKinds}

MCBlobData ==
  LET plain == {File, Other} \cup DigestsOf(File) \cup DigestsOf(Other)
  IN  plain \cup {Signature(key, data) : key \in MCKeys, data \in plain}
            \cup {[base64 |-> digest] : digest \in DigestsOf(File)}

Csum(kind, data) ==
  [kind |-> kind, target |-> "unknown", utf8 |-> TRUE, data |-> Digest(kind, data)]
RawCsum(kind, data) == [Csum(kind, data) EXCEPT !.utf8 = FALSE]
Base64Csum(kind, data) == [Csum(kind, data) EXCEPT !.data = [base64 |-> @]]

Sig(kind, target, key, data) ==
  [kind |-> kind, target |-> target, utf8 |-> kind = "pkcs7",
   data |-> Signature(key, data)]

LogIndex == [kind |-> "bt-logindex", target |-> "unknown", utf8 |-> TRUE, data |-> Other]

AllowedSets ==
  {Kinds, Kinds \ {"sha256"}, Kinds \ {"pkcs7"}, {"sha256", "ed25519"}}

\* Good and bad checksums of two kinds, signatures by a classic, a post-quantum
\* and an unknown key, one over other data, and a blob no engine handles.
ItemBlobs ==
  {Csum("sha1", File), Csum("sha256", File), Csum("sha256", Other), LogIndex,
   Sig("pkcs7", "unknown", "rsa", File), Sig("pkcs7", "unknown", "mldsa", File),
   Sig("pkcs7", "unknown", "stranger", File), Sig("pkcs7", "unknown", "rsa", Other),
   Sig("ed25519", "unknown", "edkey", File)}

ItemRequests ==
  [op : {"item"}, item : SeqsUpTo(ItemBlobs, MaxBlobs), target : {<<>>},
   data : {File}, flags : SUBSET VerifyFlags, allowed : AllowedSets,
   trusted : {MCTrusted}]

\* Checksums the target may contradict, omit, repeat or store as binary, one that is
\* the base64 text of the latter, and signatures with and without a target, over the
\* digest or over the file.
TargetedBlobs ==
  {Csum("sha1", File), Csum("sha256", File), Csum("sha256", Other),
   RawCsum("sha256", File), Base64Csum("sha256", File),
   Sig("pkcs7", "sha256", "rsa", Digest("sha256", File)),
   Sig("pkcs7", "sha256", "rsa", Digest("sha256", Other)),
   Sig("pkcs7", "sha256", "stranger", Digest("sha256", File)),
   Sig("pkcs7", "unknown", "rsa", File),
   Sig("ed25519", "sha1", "edkey", Digest("sha1", File))}

TargetBlobs ==
  {Csum("sha1", File), Csum("sha256", File), Csum("sha256", Other),
   RawCsum("sha256", File)}

TargetRequests ==
  [op : {"target"}, item : SeqsUpTo(TargetedBlobs, MaxTargeted),
   target : SeqsUpTo(TargetBlobs, 2), data : {File},
   flags : SUBSET {"REQUIRE_CHECKSUM", "REQUIRE_SIGNATURE"},
   allowed : {Kinds, Kinds \ {"sha256"}, Kinds \ {"pkcs7"}},
   trusted : {MCTrusted}]

AllRequests == ItemRequests \cup TargetRequests

\* A call that has returned does nothing more: a state that no other step leaves
\* is a loop that is stuck, which TLC then reports as a deadlock.
Returned == pc = "done" /\ UNCHANGED vars

MCSpec == Init /\ [][Next \/ Returned]_vars
=============================================================================
