--------------------------- MODULE MCJcatToolRead ---------------------------
(* Files of up to two items for JcatToolRead, with the blobs that tell the  *)
(* ways through its loops apart: good and bad checksums and signatures, one *)
(* over the checksum, and one no engine handles.                            *)
EXTENDS JcatToolRead

CONSTANTS A, B, File, Other, App

MCIds          == {A, B}
MCAppstreamIds == {App}
MCCsumKinds    == {"sha256"}
MCSigKinds     == {"pkcs7"}
MCOtherKinds   == {"bt-logindex"}
MCPqFilters    == {"pkcs7"}
MCKeys         == {"rsa", "mldsa", "stranger"}
MCPqKeys       == {"mldsa"}
MCTrusted      == {"rsa", "mldsa"}

MCBlobData ==
  LET plain == {File, Other} \cup {Digest("sha256", data) : data \in {File, Other}}
  IN  plain \cup {Signature(key, data) : key \in MCKeys, data \in plain}

ABlob(kind, target, data) ==
  [kind |-> kind, target |-> target, utf8 |-> TRUE, data |-> data,
   appstream_id |-> NoAppstream]

Blobs ==
  { ABlob("sha256", "unknown", Digest("sha256", File)),
    ABlob("sha256", "unknown", Digest("sha256", Other)),
    ABlob("pkcs7", "unknown", Signature("rsa", File)),
    [ABlob("pkcs7", "unknown", Signature("mldsa", File)) EXCEPT !.appstream_id = App],
    ABlob("pkcs7", "unknown", Signature("stranger", File)),
    ABlob("pkcs7", "sha256", Signature("rsa", Digest("sha256", File))),
    ABlob("bt-logindex", "unknown", Other) }

AnItem(id, alias_ids, blobs) == [id |-> id, alias_ids |-> alias_ids, blobs |-> blobs]

UpTo(S, n) == UNION {[1..k -> S] : k \in 0..n}

\* One item of up to three blobs, or two items of one or two.  An alias may be
\* the other item's ID, and both items may have the same ID.
Files ==
  {<<AnItem(A, <<B>>, blobs)>> : blobs \in UpTo(Blobs, 3)}
    \cup {<<AnItem(A, <<B>>, <<b>>), AnItem(id, <<>>, <<c, d>>)>> :
            id \in {A, B}, b \in Blobs, c \in Blobs, d \in Blobs}

\* The source under the ID, under the alias only, under both or neither; a
\* directory in its place; another file.
Presents ==
  { [n \in {A} |-> File], [n \in {B} |-> File], <<>>, [n \in {A, B} |-> File],
    [n \in {A, B} |-> IF n = A THEN Unreadable ELSE File],
    [n \in {A, B} |-> IF n = A THEN File ELSE Other] }

ACommand(command, kinds, flags, sources, items, presents) ==
  [command : {command}, kind : kinds, flags : flags, source : sources,
   imported : {TRUE}, items : items, present : presents, trusted : {MCTrusted}]

MCCommands ==
  ACommand("verify", {"unknown", "pkcs7"}, SUBSET {"ONLY_PQ"}, {{}, {A}, {B}}, Files, Presents)
    \cup ACommand("export", {"unknown", "pkcs7"}, {{}}, {{}}, Files, {<<>>})
    \cup [command : {"verify", "export"}, kind : {"unknown"}, flags : {{}}, source : {{}},
          imported : {FALSE}, items : {<<>>}, present : {<<>>}, trusted : {{}}]

\* A command that has ended does nothing more: a state that no other step leaves
\* is a loop that is stuck, which TLC then reports as a deadlock.
Exited == Ended /\ UNCHANGED vars

MCSpec == Init /\ [][Next \/ Exited]_vars
=============================================================================
